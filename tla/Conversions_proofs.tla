--------------------------- MODULE Conversions_proofs ---------------------------
(***************************************************************************)
(* What the conversions give for every input the code can be handed: any   *)
(* bodies, responses of any length, any results, any range.  The loops of  *)
(* the model are recursive functions, and the theorems about them go by    *)
(* induction, which the well-foundedness of Nat gives as a lemma about     *)
(* sets: a set that has 0, and n + 1 with n, has every number.             *)
(***************************************************************************)
EXTENDS Conversions, FiniteSetTheorems, SequenceTheorems, TLAPS

LEMMA Induction ==
  ASSUME NEW S, 0 \in S, \A n \in Nat : n \in S => n + 1 \in S
  PROVE  Nat \subseteq S
<1> DEFINE T == Nat \ S
<1> SUFFICES ASSUME T # {} PROVE FALSE
  OBVIOUS
<1>1. PICK x \in T : \A y \in T : ~(<<y, x>> \in OpToRel(<, Nat))
  BY NatLessThanWellFounded, WFMin
<1>2. x # 0 /\ x - 1 \in Nat /\ x - 1 < x
  OBVIOUS
<1>3. <<x - 1, x>> \in OpToRel(<, Nat)
  BY <1>2 DEF OpToRel
<1>4. x - 1 \in S
  BY <1>1, <1>2, <1>3
<1> QED
  BY <1>2, <1>4

\* The least of some numbers.
LEMMA LeastExists ==
  ASSUME NEW S \in SUBSET Nat, S # {}
  PROVE  \E x \in S : \A y \in S : x <= y
<1>1. PICK x \in S : \A y \in S : ~(<<y, x>> \in OpToRel(<, Nat))
  BY NatLessThanWellFounded, WFMin
<1>2. \A y \in S : ~(y < x)
  BY <1>1 DEF OpToRel
<1> QED
  BY <1>2

\* The greatest of some numbers under a bound.
LEMMA GreatestExists ==
  ASSUME NEW L \in Nat, NEW S \in SUBSET (1..L), S # {}
  PROVE  \E x \in S : \A y \in S : y <= x
<1> DEFINE D == {L - y : y \in S}
<1>1. \A y \in S : y \in Int /\ L - y \in Nat
  OBVIOUS
<1>2. D \in SUBSET Nat /\ D # {}
  BY <1>1
<1>3. PICK d \in D : \A e \in D : d <= e
  BY <1>2, LeastExists
<1>4. PICK x \in S : d = L - x
  OBVIOUS
<1>5. ASSUME NEW y \in S PROVE y <= x
  <2>1. L - x <= L - y
    BY <1>3, <1>4
  <2> QED
    BY <1>1, <2>1
<1> QED
  BY <1>5

\* The values f[n] of a loop after its first n rounds: first before it, and then
\* what G[n] makes of the value before.
Loops(f, L, first, G) == f[0] = first /\ \A n \in 1..L : f[n] = G[n][f[n - 1]]

\* Such values exist for any number of rounds.
LEMMA LoopExists ==
  ASSUME NEW L \in Nat, NEW S, NEW first \in S, NEW G,
         \A n \in 1..L : \A x \in S : G[n][x] \in S
  PROVE  \E f \in [0..L -> S] : Loops(f, L, first, G)
<1> DEFINE Reached == {m \in Nat : m <= L => \E f \in [0..m -> S] : Loops(f, m, first, G)}
<1>1. 0 \in Reached
  <2>1. Loops([n \in 0..0 |-> first], 0, first, G) /\ [n \in 0..0 |-> first] \in [0..0 -> S]
    BY DEF Loops
  <2> QED
    BY <2>1
<1>2. ASSUME NEW m \in Nat, m \in Reached PROVE m + 1 \in Reached
  <2> SUFFICES ASSUME m + 1 <= L
               PROVE  \E f \in [0..m + 1 -> S] : Loops(f, m + 1, first, G)
    OBVIOUS
  <2>1. PICK f \in [0..m -> S] : Loops(f, m, first, G)
    BY <1>2
  <2> DEFINE g == [n \in 0..m + 1 |-> IF n = m + 1 THEN G[m + 1][f[m]] ELSE f[n]]
  <2>2. G[m + 1][f[m]] \in S
    OBVIOUS
  <2>3. g \in [0..m + 1 -> S]
    BY <2>2
  <2>4. g[0] = first
    BY <2>1 DEF Loops
  <2>5. ASSUME NEW n \in 1..m + 1 PROVE g[n] = G[n][g[n - 1]]
    <3>1. n - 1 \in 0..m /\ g[n - 1] = f[n - 1]
      OBVIOUS
    <3>2. CASE n = m + 1
      <4>1. g[m + 1] = G[m + 1][f[m]]
        OBVIOUS
      <4>2. n - 1 = m /\ g[n - 1] = f[m]
        BY <3>1, <3>2
      <4> HIDE DEF g
      <4> QED
        BY <3>2, <4>1, <4>2
    <3>3. CASE n # m + 1
      <4>1. n \in 1..m
        BY <3>3
      <4> QED
        BY <2>1, <3>1, <3>3, <4>1 DEF Loops
    <3> QED
      BY <3>2, <3>3
  <2>6. Loops(g, m + 1, first, G)
    BY <2>4, <2>5 DEF Loops
  <2> QED
    BY <2>3, <2>6
<1>3. L \in Reached
  BY <1>1, <1>2, Induction
<1> QED
  BY <1>3

-------------------------------------------------------------------------------
\* sumTPS goes over the rows, adding a counter's value and passing over others.
LEMMA SumsStep ==
  ASSUME NEW results \in Results
  PROVE  /\ Sums(results)[0] = 0
         /\ \A n \in 1..Len(results) :
              Sums(results)[n] = Sums(results)[n - 1] +
                (IF results[n].field \in Counters THEN results[n].value ELSE 0)
<1> DEFINE L == Len(results)
           v(n) == IF results[n].field \in Counters THEN results[n].value ELSE 0
           G == [n \in 1..L |-> [x \in Int |-> x + v(n)]]
           IsSum(f) == f = [n \in 0..L |-> IF n = 0 THEN 0 ELSE f[n - 1] + v(n)]
<1>1. L \in Nat /\ \A n \in 1..L : v(n) \in Int
  BY FluxAssumption
<1> HIDE DEF L, v
<1>2. \A n \in 1..L : \A x \in Int : G[n][x] = x + v(n) /\ G[n][x] \in Int
  BY <1>1
<1> HIDE DEF G
<1>3. PICK f \in [0..L -> Int] : Loops(f, L, 0, G)
  <2>1. 0 \in Int
    OBVIOUS
  <2> QED
    BY <1>1, <1>2, <2>1, LoopExists, Zenon
<1>4. ASSUME NEW n \in 1..L PROVE f[n] = f[n - 1] + v(n)
  <2>1. f[n - 1] \in Int
    BY <1>1
  <2> QED
    BY <1>2, <1>3, <2>1 DEF Loops
<1>5. IsSum(f)
  BY <1>1, <1>3, <1>4 DEF Loops
<1>6. Sums(results) = CHOOSE g : IsSum(g)
  BY DEF Sums, L, v
<1>7. IsSum(Sums(results))
  BY <1>5, <1>6
<1> QED
  BY <1>1, <1>7 DEF L, v

\* The sum is the number of the requests the counters stand for: those of a row
\* are added once, and are no other row's.
LEMMA SumIsCount ==
  ASSUME NEW results \in Results
  PROVE  SumTPS(results) = Cardinality(RequestsOf(results))
<1> DEFINE L == Len(results)
           Of(i) == {i} \X (1..results[i].value)
           Upto(n) == UNION {Of(i) : i \in CountersOf(results) \cap (1..n)}
           Counted == {n \in Nat : n <= L =>
                         /\ IsFiniteSet(Upto(n))
                         /\ Sums(results)[n] = Cardinality(Upto(n))}
<1>1. L \in Nat /\ DOMAIN results = 1..L /\ \A i \in CountersOf(results) : results[i].value \in Nat
  BY FluxAssumption DEF CountersOf
<1>2. ASSUME NEW i \in CountersOf(results)
      PROVE  IsFiniteSet(Of(i)) /\ Cardinality(Of(i)) = results[i].value
  <2> DEFINE v == results[i].value
  <2>1. v \in Nat
    BY <1>1, <1>2
  <2> HIDE DEF v
  <2>2. IsFiniteSet({i}) /\ Cardinality({i}) = 1
    BY FS_Singleton
  <2>3. IsFiniteSet(1..v) /\ Cardinality(1..v) = v
    <3>1. IsFiniteSet(1..v) /\ Cardinality(1..v) = IF 1 > v THEN 0 ELSE v - 1 + 1
      BY <2>1, FS_Interval
    <3> QED
      BY <2>1, <3>1
  <2>4. IsFiniteSet({i} \X (1..v)) /\ Cardinality({i} \X (1..v)) = 1 * v
    BY <2>2, <2>3, FS_Product
  <2> QED
    BY <2>1, <2>4 DEF v
<1>3. 0 \in Counted
  <2>1. Upto(0) = {}
    OBVIOUS
  <2> HIDE DEF Upto
  <2> QED
    BY <2>1, FS_EmptySet, SumsStep
<1>4. ASSUME NEW n \in Nat, n \in Counted PROVE n + 1 \in Counted
  <2> SUFFICES ASSUME n + 1 <= L
               PROVE  /\ IsFiniteSet(Upto(n + 1))
                      /\ Sums(results)[n + 1] = Cardinality(Upto(n + 1))
    OBVIOUS
  <2>1. n <= L /\ n + 1 \in 1..L /\ n + 1 - 1 = n
    BY <1>1
  <2>2. IsFiniteSet(Upto(n)) /\ Sums(results)[n] = Cardinality(Upto(n))
    BY <1>4, <2>1
  <2>3. Cardinality(Upto(n)) \in Nat
    BY <2>2, FS_CardinalityType
  <2>4. Sums(results)[n + 1] = Sums(results)[n] +
          (IF results[n + 1].field \in Counters THEN results[n + 1].value ELSE 0)
    BY <2>1, SumsStep
  <2>5. CASE n + 1 \in CountersOf(results)
    <3>1. Upto(n + 1) = Upto(n) \cup Of(n + 1)
      BY <2>5
    <3>2. Upto(n) \cap Of(n + 1) = {}
      OBVIOUS
    <3>3. IsFiniteSet(Of(n + 1)) /\ Cardinality(Of(n + 1)) = results[n + 1].value
      BY <1>2, <2>5
    <3> HIDE DEF Upto, Of
    <3>4. /\ IsFiniteSet(Upto(n) \cup Of(n + 1))
          /\ Cardinality(Upto(n) \cup Of(n + 1)) =
               Cardinality(Upto(n)) + Cardinality(Of(n + 1)) - Cardinality({})
      BY <2>2, <3>2, <3>3, FS_Union
    <3>5. results[n + 1].value \in Nat /\ results[n + 1].field \in Counters
      BY <1>1, <2>5 DEF CountersOf
    <3>6. Cardinality({}) = 0
      BY FS_EmptySet
    <3>7. Cardinality(Upto(n + 1)) = Cardinality(Upto(n)) + results[n + 1].value
      <4>1. Cardinality(Upto(n + 1)) =
              Cardinality(Upto(n)) + Cardinality(Of(n + 1)) - Cardinality({})
        BY <3>1, <3>4, Zenon
      <4>2. Cardinality(Of(n + 1)) = results[n + 1].value /\ results[n + 1].value \in Nat
        BY <3>3, <3>5, Zenon
      <4> QED
        BY <2>3, <3>6, <4>1, <4>2
    <3>8. Sums(results)[n + 1] = Cardinality(Upto(n)) + results[n + 1].value
      BY <2>2, <2>4, <3>5
    <3> QED
      BY <3>1, <3>4, <3>7, <3>8
  <2>6. CASE n + 1 \notin CountersOf(results)
    <3>1. Upto(n + 1) = Upto(n)
      BY <2>6
    <3>2. results[n + 1].field \notin Counters
      BY <1>1, <2>1, <2>6 DEF CountersOf
    <3> HIDE DEF Upto
    <3> QED
      BY <2>2, <2>3, <2>4, <3>1, <3>2
  <2> QED
    BY <2>5, <2>6
<1>5. L \in Counted
  <2> HIDE DEF Counted
  <2> QED
    BY <1>1, <1>3, <1>4, Induction
<1>6. Upto(L) = RequestsOf(results)
  BY <1>1 DEF RequestsOf, CountersOf
<1>7. Sums(results)[L] = Cardinality(Upto(L))
  BY <1>1, <1>5
<1> HIDE DEF Upto
<1> QED
  BY <1>6, <1>7 DEF SumTPS

LEMMA RateOfAllRows ==
  ASSUME NEW q \in {"readTPS", "writeTPS"}, NEW results \in Results
  PROVE  PerfMetrics(q, results) =
           {<<<<q, "", "">>, Cardinality(RequestsOf(results)), 0>> : i \in CountersOf(results)}
<1>1. RowsOf(q, results) = CountersOf(results)
  BY DEF RowsOf, FieldsFor, CountersOf
<1>2. ItemsOf(q, results) = IF CountersOf(results) = {} THEN {} ELSE {0}
  BY <1>1 DEF ItemsOf
<1>3. \A i : MetricOfItem(q, results, i) =
               <<<<q, "", "">>, Cardinality(RequestsOf(results)), 0>>
  BY SumIsCount DEF MetricOfItem, SeriesOfItem
<1>4. CASE CountersOf(results) = {}
  BY <1>2, <1>4 DEF PerfMetrics
<1>5. CASE CountersOf(results) # {}
  <2> DEFINE rate == <<<<q, "", "">>, Cardinality(RequestsOf(results)), 0>>
  <2>1. MetricOfItem(q, results, 0) = rate /\ ItemsOf(q, results) = {0}
    BY <1>2, <1>3, <1>5
  <2> HIDE DEF rate
  <2>2. PerfMetrics(q, results) = {rate}
    BY <2>1 DEF PerfMetrics
  <2>3. {rate : i \in CountersOf(results)} = {rate}
    BY <1>5
  <2> QED
    BY <2>2, <2>3 DEF rate
<1> QED
  BY <1>4, <1>5

LEMMA LatencyOfFirstRow ==
  ASSUME NEW q \in {"readLatency", "writeLatency"}, NEW results \in Results
  PROVE  PerfMetrics(q, results) =
           {<<<<q, "", "">>, results[i].value, -3>> :
              i \in {j \in DOMAIN results : IsFirstP50(results, j)}}
<1> DEFINE Rows == {i \in DOMAIN results : results[i].field = "p50"}
           Firsts == {j \in DOMAIN results : IsFirstP50(results, j)}
<1>1. Rows \in SUBSET Nat
  BY FluxAssumption
<1>2. ItemsOf(q, results) = IF Rows = {} THEN {} ELSE {0}
  BY DEF ItemsOf, RowsOf, FieldsFor
<1>3. CASE Rows = {}
  <2>1. Firsts = {}
    BY <1>3 DEF IsFirstP50
  <2> QED
    BY <1>2, <1>3, <2>1 DEF PerfMetrics
<1>4. CASE Rows # {}
  <2>1. PICK i \in Rows : \A j \in Rows : i <= j
    BY <1>1, <1>4, LeastExists
  <2>2. i \in DOMAIN results /\ IsFirstP50(results, i)
    BY <2>1 DEF IsFirstP50
  <2>3. \A j \in DOMAIN results : IsFirstP50(results, j) => j = i
    BY <1>1, <2>1, <2>2 DEF IsFirstP50
  <2>4. FindField(results, "p50") = results[i].value
    <3>1. FindField(results, "p50") =
            results[CHOOSE j \in DOMAIN results : IsFirstP50(results, j)].value
      BY DEF FindField, IsFirstP50
    <3> QED
      BY <2>2, <2>3, <3>1
  <2>5. Firsts = {i}
    BY <2>2, <2>3
  <2>6. MetricOfItem(q, results, 0) = <<<<q, "", "">>, results[i].value, -3>>
    BY <2>4 DEF MetricOfItem, SeriesOfItem
  <2> QED
    BY <1>2, <1>4, <2>5, <2>6 DEF PerfMetrics
<1> QED
  BY <1>3, <1>4

-------------------------------------------------------------------------------
\* A row of a Flux series.
IsRow(row) ==
  /\ DOMAIN row = 1..Len(row) /\ Len(row) \in Nat
  /\ \A i \in DOMAIN row :
       /\ row[i].number \subseteq Int
       /\ \A m, n \in row[i].number : m = n

\* colIndex holds the last column of a name.
LEMMA IndexIsLast ==
  ASSUME NEW columns \in Seq(STRING), NEW c \in ColumnsOf(columns)
  PROVE  /\ IndexOf(columns, c) \in DOMAIN columns
         /\ columns[IndexOf(columns, c)] = c
         /\ \A j \in DOMAIN columns : columns[j] = c => j <= IndexOf(columns, c)
<1> DEFINE Named == {i \in DOMAIN columns : columns[i] = c}
<1>1. Len(columns) \in Nat /\ DOMAIN columns = 1..Len(columns)
  BY LenProperties
<1>2. Named \in SUBSET (1..Len(columns)) /\ Named # {}
  BY <1>1 DEF ColumnsOf
<1>3. \E i \in Named : \A j \in Named : j <= i
  BY <1>1, <1>2, GreatestExists
<1>4. \E i \in DOMAIN columns : columns[i] = c /\ \A j \in DOMAIN columns : columns[j] = c => j <= i
  BY <1>3
<1> QED
  BY <1>4 DEF IndexOf

\* What there is of a cell is at the last column of its name.
LEMMA CellUnderColumn ==
  ASSUME NEW columns \in Seq(STRING), NEW row, IsRow(row), NEW c,
         NEW cell \in Cell(columns, row, c)
  PROVE  /\ Cell(columns, row, c) = {cell}
         /\ \E i \in DOMAIN row \cap DOMAIN columns :
              /\ columns[i] = c /\ row[i] = cell
              /\ \A j \in DOMAIN columns : columns[j] = c => j <= i
<1>1. c \in ColumnsOf(columns) /\ IndexOf(columns, c) <= Len(row)
      /\ cell = row[IndexOf(columns, c)] /\ Cell(columns, row, c) = {cell}
  BY DEF Cell
<1> DEFINE i == IndexOf(columns, c)
<1>2. /\ i \in DOMAIN columns /\ columns[i] = c
      /\ \A j \in DOMAIN columns : columns[j] = c => j <= i
  BY <1>1, IndexIsLast
<1>3. DOMAIN columns = 1..Len(columns) /\ Len(columns) \in Nat
  BY LenProperties
<1>4. i \in 1..Len(row)
  BY <1>1, <1>2, <1>3 DEF IsRow
<1> QED
  BY <1>1, <1>2, <1>4 DEF IsRow

\* A row has a value exactly if there is a number in its _value cell.
LEMMA ValueIffNumber ==
  ASSUME NEW columns \in Seq(STRING), NEW row, IsRow(row)
  PROVE  HasValue(columns, row) <=> ValuesOf(columns, row) # {}
<1>1. ASSUME NEW i \in DOMAIN row, IsValueColumn(columns, i), row[i].number # {}
      PROVE  ValuesOf(columns, row) # {}
  <2>1. "_value" \in ColumnsOf(columns)
    BY <1>1 DEF IsValueColumn, ColumnsOf
  <2> DEFINE k == IndexOf(columns, "_value")
  <2>2. k \in DOMAIN columns /\ columns[k] = "_value" /\ i <= k
    BY <1>1, <2>1, IndexIsLast DEF IsValueColumn
  <2>3. k <= i /\ i \in DOMAIN columns
    BY <1>1, <2>2 DEF IsValueColumn
  <2>4. k = i
    BY <2>2, <2>3, LenProperties
  <2>5. row[i] \in Cell(columns, row, "_value")
    BY <2>1, <2>4 DEF Cell, IsRow
  <2> QED
    BY <1>1, <2>5 DEF ValuesOf
<1>2. ASSUME ValuesOf(columns, row) # {} PROVE HasValue(columns, row)
  <2>1. PICK cell \in Cell(columns, row, "_value") : cell.number # {}
    BY <1>2 DEF ValuesOf
  <2> QED
    BY <2>1, CellUnderColumn DEF HasValue, IsValueColumn
<1> QED
  BY <1>1, <1>2 DEF HasValue

\* The result of a row that has a value says what stands in it.
LEMMA ResultDescribes ==
  ASSUME NEW columns \in Seq(STRING), NEW row, IsRow(row), ValuesOf(columns, row) # {}
  PROVE  /\ Describes(ResultOf(columns, row), columns, row)
         /\ ResultOf(columns, row).value \in Int
<1> DEFINE result == ResultOf(columns, row)
<1>1. /\ result.field = TextOf(columns, row, "_field")
      /\ result.value = CHOOSE v \in ValuesOf(columns, row) : TRUE
      /\ result.tags = TagsOf(columns, row)
  BY DEF ResultOf
<1>2. \E i \in DOMAIN row : IsValueColumn(columns, i) /\ row[i].number = {result.value}
  <2>1. PICK cell \in Cell(columns, row, "_value") : cell.number # {}
    BY DEF ValuesOf
  <2>2. PICK i \in DOMAIN row : IsValueColumn(columns, i) /\ row[i] = cell
    BY <2>1, CellUnderColumn DEF IsValueColumn
  <2>3. Cell(columns, row, "_value") = {cell}
    BY CellUnderColumn
  <2>4. ValuesOf(columns, row) = cell.number
    BY <2>3 DEF ValuesOf
  <2>5. result.value \in cell.number
    BY <1>1, <2>4
  <2> QED
    BY <2>2, <2>5 DEF IsRow
<1>3. ASSUME NEW c, Cell(columns, row, c) # {}
      PROVE  \E i \in DOMAIN row \cap DOMAIN columns :
               columns[i] = c /\ row[i].text = TextOf(columns, row, c)
  <2>1. PICK cell : cell \in Cell(columns, row, c)
    BY <1>3
  <2>2. Cell(columns, row, c) = {cell}
    BY <2>1, CellUnderColumn
  <2>3. TextOf(columns, row, c) = cell.text
    BY <2>2 DEF TextOf
  <2> QED
    BY <2>1, <2>3, CellUnderColumn
<1>4. result.field # "" => Cell(columns, row, "_field") # {}
  BY <1>1 DEF TextOf
<1>5. \A c \in DOMAIN result.tags :
        /\ c \notin MetaColumns /\ Cell(columns, row, c) # {}
        /\ result.tags[c] = TextOf(columns, row, c)
  BY <1>1 DEF TagsOf
<1>6. result.value \in Int
  BY <1>2 DEF IsRow
<1> HIDE DEF result
<1>7. result.field # "" =>
        \E i \in DOMAIN row \cap DOMAIN columns :
          columns[i] = "_field" /\ row[i].text = result.field
  BY <1>1, <1>3, <1>4
<1>8. \A c \in DOMAIN result.tags :
        /\ c \notin MetaColumns
        /\ \E i \in DOMAIN row \cap DOMAIN columns :
             columns[i] = c /\ row[i].text = result.tags[c]
  BY <1>3, <1>5
<1>9. Describes(result, columns, row)
  BY <1>2, <1>7, <1>8, Zenon DEF Describes
<1> QED
  BY <1>6, <1>9 DEF result

\* flattenFluxSeries goes over the rows: one without a value leaves the results
\* as they are, any other appends its own.
LEMMA KeptStep ==
  ASSUME NEW series, IsFluxSeries(series)
  PROVE  /\ Kept(series)[0] = <<>>
         /\ \A n \in 1..Len(series.values) :
              Kept(series)[n] =
                IF ValuesOf(series.columns, series.values[n]) = {} THEN Kept(series)[n - 1]
                ELSE Append(Kept(series)[n - 1], ResultOf(series.columns, series.values[n]))
<1> DEFINE L == Len(series.values)
           passed(n) == ValuesOf(series.columns, series.values[n]) = {}
           r(n) == ResultOf(series.columns, series.values[n])
           R == {r(n) : n \in 1..L}
           G == [n \in 1..L |-> [x \in Seq(R) |-> IF passed(n) THEN x ELSE Append(x, r(n))]]
           next(f, n) == IF passed(n) THEN f[n - 1] ELSE Append(f[n - 1], r(n))
           IsKept(f) == f = [n \in 0..L |-> IF n = 0 THEN <<>> ELSE next(f, n)]
<1>1. L \in Nat /\ \A n \in 1..L : r(n) \in R
  BY DEF IsFluxSeries
<1>2. Kept(series) = CHOOSE f : IsKept(f)
  BY DEF Kept
<1> HIDE DEF L, passed, r, R
<1>3. \A n \in 1..L : \A x \in Seq(R) :
        /\ G[n][x] = IF passed(n) THEN x ELSE Append(x, r(n))
        /\ G[n][x] \in Seq(R)
  BY <1>1, AppendProperties
<1> HIDE DEF G
<1>4. PICK f \in [0..L -> Seq(R)] : Loops(f, L, <<>>, G)
  <2>1. <<>> \in Seq(R)
    OBVIOUS
  <2> QED
    BY <1>1, <1>3, <2>1, LoopExists, Zenon
<1>5. ASSUME NEW n \in 1..L
      PROVE  f[n] = next(f, n)
  <2>1. f[n - 1] \in Seq(R)
    BY <1>1
  <2> QED
    BY <1>3, <1>4, <2>1 DEF Loops
<1> HIDE DEF next
<1>6. IsKept(f)
  BY <1>1, <1>4, <1>5 DEF Loops
<1>7. IsKept(Kept(series))
  BY <1>2, <1>6
<1>8. ASSUME NEW g, IsKept(g) PROVE g[0] = <<>> /\ \A n \in 1..L : g[n] = next(g, n)
  <2>1. 0 \in 0..L /\ \A n \in 1..L : n \in 0..L /\ n # 0
    BY <1>1
  <2> QED
    BY <1>8, <2>1, Zenon
<1> HIDE DEF IsKept
<1>9. Kept(series)[0] = <<>> /\ \A n \in 1..L : Kept(series)[n] = next(Kept(series), n)
  BY <1>7, <1>8
<1> QED
  BY <1>9 DEF L, passed, r, next

\* Client.Query goes over the series, appending the results of each.
LEMMA AppendedStep ==
  ASSUME NEW response, NEW R, DOMAIN response = 1..Len(response), Len(response) \in Nat,
         \A n \in DOMAIN response : FlattenFluxSeries(response[n]) \in Seq(R)
  PROVE  /\ Appended(response)[0] = <<>>
         /\ \A n \in 1..Len(response) :
              Appended(response)[n] =
                Appended(response)[n - 1] \o FlattenFluxSeries(response[n])
<1> DEFINE L == Len(response)
           rs(n) == FlattenFluxSeries(response[n])
           G == [n \in 1..L |-> [x \in Seq(R) |-> x \o rs(n)]]
           next(f, n) == f[n - 1] \o rs(n)
           IsAppended(f) == f = [n \in 0..L |-> IF n = 0 THEN <<>> ELSE next(f, n)]
<1>1. L \in Nat /\ \A n \in 1..L : rs(n) \in Seq(R)
  OBVIOUS
<1>2. Appended(response) = CHOOSE f : IsAppended(f)
  BY DEF Appended
<1> HIDE DEF L, rs
<1>3. \A n \in 1..L : \A x \in Seq(R) : G[n][x] = x \o rs(n) /\ G[n][x] \in Seq(R)
  BY <1>1, ConcatProperties
<1> HIDE DEF G
<1>4. PICK f \in [0..L -> Seq(R)] : Loops(f, L, <<>>, G)
  <2>1. <<>> \in Seq(R)
    OBVIOUS
  <2> QED
    BY <1>1, <1>3, <2>1, LoopExists, Zenon
<1>5. ASSUME NEW n \in 1..L PROVE f[n] = next(f, n)
  <2>1. f[n - 1] \in Seq(R)
    BY <1>1
  <2> QED
    BY <1>3, <1>4, <2>1 DEF Loops
<1> HIDE DEF next
<1>6. IsAppended(f)
  BY <1>1, <1>4, <1>5 DEF Loops
<1>7. IsAppended(Appended(response))
  BY <1>2, <1>6
<1>8. ASSUME NEW g, IsAppended(g) PROVE g[0] = <<>> /\ \A n \in 1..L : g[n] = next(g, n)
  <2>1. 0 \in 0..L /\ \A n \in 1..L : n \in 0..L /\ n # 0
    BY <1>1
  <2> QED
    BY <1>8, <2>1, Zenon
<1> HIDE DEF IsAppended
<1>9. /\ Appended(response)[0] = <<>>
      /\ \A n \in 1..L : Appended(response)[n] = next(Appended(response), n)
  BY <1>7, <1>8
<1> QED
  BY <1>9 DEF L, rs, next

\* The results are those of the rows, each of its own.
Traced(results, response, rows) ==
  \E rowOf \in [DOMAIN results -> rows] : Traces(rowOf, results, response, rows)

LEMMA TracedNone == \A response : Traced(<<>>, response, {})
<1>1. DOMAIN <<>> = {}
  OBVIOUS
<1>2. [n \in {} |-> 0] \in [{} -> {}]
  OBVIOUS
<1> QED
  BY <1>1, <1>2 DEF Traced, Traces

LEMMA TracedOne ==
  ASSUME NEW response, NEW g, NEW result,
         Describes(result, response[g[1]].columns, response[g[1]].values[g[2]])
  PROVE  Traced(<<result>>, response, {g})
<1> DEFINE rowOf == [n \in {1} |-> g]
<1>1. DOMAIN <<result>> = {1} /\ <<result>>[1] = result
  OBVIOUS
<1>2. rowOf \in [{1} -> {g}] /\ rowOf[1] = g
  OBVIOUS
<1> HIDE DEF rowOf
<1>3. Traces(rowOf, <<result>>, response, {g})
  BY <1>1, <1>2 DEF Traces
<1> QED
  BY <1>1, <1>2, <1>3 DEF Traced

\* The results of some rows, followed by those of later ones.
LEMMA TracedBoth ==
  ASSUME NEW R, NEW s \in Seq(R), NEW t \in Seq(R), NEW response, NEW F, NEW G,
         Traced(s, response, F), Traced(t, response, G), \A f \in F, g \in G : Before(f, g)
  PROVE  Traced(s \o t, response, F \cup G)
<1> DEFINE u == s \o t
           k == Len(s)
           l == Len(t)
<1>1. /\ k \in Nat /\ DOMAIN s = 1..k /\ l \in Nat /\ DOMAIN t = 1..l
      /\ DOMAIN u = 1..k + l
      /\ \A n \in 1..k + l : u[n] = IF n <= k THEN s[n] ELSE t[n - k]
  BY LenProperties, ConcatProperties
<1> HIDE DEF u, k, l
<1>2. PICK a \in [1..k -> F] : Traces(a, s, response, F)
  BY <1>1 DEF Traced
<1>3. PICK b \in [1..l -> G] : Traces(b, t, response, G)
  BY <1>1 DEF Traced
<1> DEFINE c == [n \in 1..k + l |-> IF n <= k THEN a[n] ELSE b[n - k]]
<1>4. /\ \A n \in 1..k : n \in 1..k + l /\ c[n] = a[n] /\ u[n] = s[n]
      /\ \A n \in 1..l : n + k \in 1..k + l /\ c[n + k] = b[n] /\ u[n + k] = t[n]
      /\ \A n \in 1..k + l : n \in 1..k \/ (n - k \in 1..l /\ n = (n - k) + k)
  <2>1. \A n \in 1..k : n \in 1..k + l /\ n <= k
    BY <1>1
  <2>2. \A n \in 1..l : n + k \in 1..k + l /\ ~(n + k <= k) /\ n + k - k = n
    BY <1>1
  <2>3. \A n \in 1..k + l : n \in 1..k \/ (n - k \in 1..l /\ n = (n - k) + k)
    BY <1>1
  <2> QED
    BY <1>1, <2>1, <2>2, <2>3
<1>5. c \in [1..k + l -> F \cup G]
  <2>1. ASSUME NEW n \in 1..k + l PROVE c[n] \in F \cup G
    BY <1>4
  <2> QED
    BY <2>1
<1> HIDE DEF c
<1>6. ASSUME NEW x \in F \cup G PROVE \E n \in 1..k + l : c[n] = x
  <2>1. CASE x \in F
    BY <1>1, <1>2, <1>4, <2>1 DEF Traces
  <2>2. CASE x \in G
    <3>1. PICK n \in 1..l : b[n] = x
      BY <1>1, <1>3, <2>2 DEF Traces
    <3>2. n + k \in 1..k + l /\ c[n + k] = x
      BY <1>4, <3>1
    <3> QED
      BY <3>2
  <2> QED
    BY <2>1, <2>2
<1>7. ASSUME NEW m \in 1..k + l, NEW n \in 1..k + l, m < n PROVE Before(c[m], c[n])
  <2>1. CASE n \in 1..k
    <3>1. m \in 1..k
      BY <1>1, <1>7, <2>1
    <3> QED
      BY <1>1, <1>2, <1>4, <1>7, <2>1, <3>1 DEF Traces
  <2>2. CASE m \in 1..k /\ n - k \in 1..l
    <3>1. c[m] = a[m] /\ c[m] \in F
      BY <1>4, <2>2
    <3>2. c[n] = b[n - k] /\ c[n] \in G
      <4>1. c[(n - k) + k] = b[n - k]
        BY <1>4, <2>2
      <4> QED
        BY <1>1, <2>2, <4>1
    <3> QED
      BY <3>1, <3>2
  <2>3. CASE m - k \in 1..l /\ n - k \in 1..l
    <3>1. m - k < n - k
      BY <1>1, <1>7
    <3>2. Before(b[m - k], b[n - k])
      BY <1>1, <1>3, <2>3, <3>1 DEF Traces
    <3>3. c[(m - k) + k] = b[m - k] /\ c[(n - k) + k] = b[n - k]
      BY <1>4, <2>3
    <3>4. (m - k) + k = m /\ (n - k) + k = n
      BY <1>1
    <3> QED
      BY <3>2, <3>3, <3>4
  <2>4. m \in 1..k \/ m - k \in 1..l
    BY <1>4
  <2>5. n \in 1..k \/ n - k \in 1..l
    BY <1>4
  <2>6. n \in 1..k => m \in 1..k
    BY <1>1, <1>7
  <2> QED
    BY <2>1, <2>2, <2>3, <2>4, <2>5, <2>6
<1> DEFINE Tells(result, g) ==
      Describes(result, response[g[1]].columns, response[g[1]].values[g[2]])
<1>8. /\ \A n \in 1..k : Tells(s[n], a[n])
      /\ \A n \in 1..l : Tells(t[n], b[n])
  BY <1>1, <1>2, <1>3 DEF Traces
<1> HIDE DEF Tells
<1>9. ASSUME NEW n \in 1..k + l PROVE Tells(u[n], c[n])
  <2>1. CASE n \in 1..k
    BY <1>4, <1>8, <2>1
  <2>2. CASE n - k \in 1..l
    <3>1. Tells(t[n - k], b[n - k]) /\ c[(n - k) + k] = b[n - k] /\ u[(n - k) + k] = t[n - k]
      BY <1>4, <1>8, <2>2
    <3>2. (n - k) + k = n
      BY <1>1
    <3> QED
      BY <3>1, <3>2
  <2> QED
    BY <1>4, <2>1, <2>2
<1>10. Traces(c, u, response, F \cup G)
  BY <1>1, <1>6, <1>7, <1>9 DEF Traces, Tells
<1> QED
  BY <1>1, <1>5, <1>10 DEF Traced, u

\* The results of a series are those of its rows that have a value.
LEMMA SeriesTraced ==
  ASSUME NEW response, NEW n \in Nat, IsFluxSeries(response[n]),
         NEW R, \A k \in DOMAIN response[n].values :
                  ResultOf(response[n].columns, response[n].values[k]) \in R
  PROVE  LET series == response[n]
         IN  /\ FlattenFluxSeries(series) \in Seq(R)
             /\ Traced(FlattenFluxSeries(series), response,
                       {n} \X {k \in DOMAIN series.values :
                                 HasValue(series.columns, series.values[k])})
<1> DEFINE series == response[n]
           L == Len(series.values)
           columns == series.columns
           row(k) == series.values[k]
           Upto(m) == {n} \X {k \in 1..m : HasValue(columns, row(k))}
           kept == Kept(series)
           Good == {m \in Nat : m <= L =>
                      kept[m] \in Seq(R) /\ Traced(kept[m], response, Upto(m))}
<1>1. /\ L \in Nat /\ DOMAIN series.values = 1..L /\ columns \in Seq(STRING)
      /\ \A k \in 1..L : IsRow(row(k)) /\ ResultOf(columns, row(k)) \in R
  BY DEF IsFluxSeries, IsRow
<1>2. kept[0] = <<>>
      /\ \A m \in 1..L :
           kept[m] = IF ValuesOf(columns, row(m)) = {} THEN kept[m - 1]
                     ELSE Append(kept[m - 1], ResultOf(columns, row(m)))
  BY KeptStep
<1> HIDE DEF kept, L
<1>3. 0 \in Good
  <2>1. Upto(0) = {}
    OBVIOUS
  <2>2. Traced(<<>>, response, {}) /\ <<>> \in Seq(R)
    BY TracedNone
  <2> HIDE DEF Upto
  <2> QED
    BY <1>2, <2>1, <2>2
<1>4. ASSUME NEW m \in Nat, m \in Good PROVE m + 1 \in Good
  <2> SUFFICES ASSUME m + 1 <= L
               PROVE  kept[m + 1] \in Seq(R) /\ Traced(kept[m + 1], response, Upto(m + 1))
    OBVIOUS
  <2> DEFINE k == m + 1
             r == ResultOf(columns, row(k))
  <2>1. k \in 1..L /\ m <= L /\ k - 1 = m
    BY <1>1
  <2>2. kept[m] \in Seq(R) /\ Traced(kept[m], response, Upto(m))
    BY <1>4, <2>1
  <2>3. kept[k] = IF ValuesOf(columns, row(k)) = {} THEN kept[m] ELSE Append(kept[m], r)
    BY <1>2, <2>1
  <2>4. ValuesOf(columns, row(k)) # {} <=> HasValue(columns, row(k))
    BY <1>1, <2>1, ValueIffNumber
  <2>5. CASE ~HasValue(columns, row(k))
    <3>1. Upto(k) = Upto(m)
      BY <2>5
    <3> HIDE DEF Upto, r, row
    <3> QED
      BY <2>2, <2>3, <2>4, <2>5, <3>1
  <2>6. CASE HasValue(columns, row(k))
    <3>1. Upto(k) = Upto(m) \cup {<<n, k>>}
      BY <2>6
    <3>2. \A f \in Upto(m), g \in {<<n, k>>} : Before(f, g)
      BY DEF Before
    <3>3. r \in R /\ Describes(r, columns, row(k))
      BY <1>1, <2>1, <2>4, <2>6, ResultDescribes
    <3>4. Traced(<<r>>, response, {<<n, k>>})
      <4>1. <<n, k>>[1] = n /\ <<n, k>>[2] = k
        OBVIOUS
      <4> QED
        BY <3>3, <4>1, TracedOne
    <3> HIDE DEF Upto, r, row
    <3>5. <<r>> \in Seq(R) /\ Append(kept[m], r) = kept[m] \o <<r>>
      BY <2>2, <3>3, AppendIsConcat
    <3>6. Traced(kept[m] \o <<r>>, response, Upto(m) \cup {<<n, k>>})
      BY <2>2, <3>2, <3>4, <3>5, TracedBoth
    <3>7. kept[m] \o <<r>> \in Seq(R)
      BY <2>2, <3>5, ConcatProperties
    <3> QED
      BY <2>3, <2>4, <2>6, <3>1, <3>5, <3>6, <3>7
  <2> QED
    BY <2>5, <2>6
<1>5. L \in Good
  <2> HIDE DEF Good
  <2> QED
    BY <1>1, <1>3, <1>4, Induction
<1>6. kept[L] \in Seq(R) /\ Traced(kept[L], response, Upto(L))
  BY <1>1, <1>5
<1>7. FlattenFluxSeries(series) = kept[L]
  BY DEF FlattenFluxSeries, kept, L
<1> QED
  BY <1>1, <1>6, <1>7

\* The results of a response are those of all its rows that have a value.
LEMMA QueryTraced ==
  ASSUME NEW response \in Responses
  PROVE  /\ DOMAIN QueryResults(response) = 1..Len(QueryResults(response))
         /\ Traced(QueryResults(response), response, RowsWithValue(response))
<1> DEFINE L == Len(response)
           Rows(n) == {n} \X {k \in DOMAIN response[n].values :
                                HasValue(response[n].columns, response[n].values[k])}
           Upto(m) == UNION {Rows(n) : n \in 1..m}
           ResultsOf(n) == {ResultOf(response[n].columns, response[n].values[k]) :
                              k \in DOMAIN response[n].values}
           R == UNION {ResultsOf(n) : n \in 1..L}
           rs(n) == FlattenFluxSeries(response[n])
           upto == Appended(response)
           Good == {m \in Nat : m <= L =>
                      upto[m] \in Seq(R) /\ Traced(upto[m], response, Upto(m))}
<1>1. L \in Nat /\ DOMAIN response = 1..L /\ \A n \in 1..L : IsFluxSeries(response[n])
  BY FluxAssumption
<1>2. ASSUME NEW n \in 1..L PROVE rs(n) \in Seq(R) /\ Traced(rs(n), response, Rows(n))
  <2>1. n \in Nat /\ IsFluxSeries(response[n])
    BY <1>1
  <2>2. \A k \in DOMAIN response[n].values :
          ResultOf(response[n].columns, response[n].values[k]) \in R
    OBVIOUS
  <2> HIDE DEF R
  <2> QED
    BY <2>1, <2>2, SeriesTraced
<1> HIDE DEF R
<1>3. upto[0] = <<>> /\ \A m \in 1..L : upto[m] = upto[m - 1] \o rs(m)
  BY <1>1, <1>2, AppendedStep
<1> HIDE DEF upto, L, rs
<1>4. 0 \in Good
  <2>1. Upto(0) = {}
    OBVIOUS
  <2>2. Traced(<<>>, response, {}) /\ <<>> \in Seq(R)
    BY TracedNone
  <2> HIDE DEF Upto
  <2> QED
    BY <1>3, <2>1, <2>2
<1>5. ASSUME NEW m \in Nat, m \in Good PROVE m + 1 \in Good
  <2> SUFFICES ASSUME m + 1 <= L
               PROVE  upto[m + 1] \in Seq(R) /\ Traced(upto[m + 1], response, Upto(m + 1))
    OBVIOUS
  <2> DEFINE n == m + 1
  <2>1. n \in 1..L /\ m <= L /\ n - 1 = m
    BY <1>1
  <2>2. upto[m] \in Seq(R) /\ Traced(upto[m], response, Upto(m))
    BY <1>5, <2>1
  <2>3. upto[n] = upto[m] \o rs(n) /\ rs(n) \in Seq(R) /\ Traced(rs(n), response, Rows(n))
    BY <1>2, <1>3, <2>1
  <2>4. Upto(n) = Upto(m) \cup Rows(n)
    <3>1. 1..n = (1..m) \cup {n}
      OBVIOUS
    <3> HIDE DEF Rows, n
    <3> QED
      BY <3>1
  <2>5. \A f \in Upto(m), g \in Rows(n) : Before(f, g)
    BY DEF Before
  <2> HIDE DEF Upto, Rows
  <2>6. upto[m] \o rs(n) \in Seq(R) /\ Traced(upto[m] \o rs(n), response, Upto(m) \cup Rows(n))
    BY <2>2, <2>3, <2>5, ConcatProperties, TracedBoth
  <2> QED
    BY <2>3, <2>4, <2>6
<1>6. L \in Good
  <2> HIDE DEF Good
  <2> QED
    BY <1>1, <1>4, <1>5, Induction
<1>7. upto[L] \in Seq(R) /\ Traced(upto[L], response, Upto(L))
  BY <1>1, <1>6
<1>8. QueryResults(response) = upto[L] /\ Upto(L) = RowsWithValue(response)
  BY <1>1 DEF QueryResults, RowsWithValue, upto, L
<1> HIDE DEF Upto
<1> QED
  BY <1>7, <1>8, LenProperties

\* A result's value is the number of a cell.
LEMMA ValuesAreNumbers ==
  ASSUME NEW response \in Responses, NEW n \in DOMAIN QueryResults(response)
  PROVE  QueryResults(response)[n].value \in Int
<1> DEFINE results == QueryResults(response)
<1>1. PICK rowOf \in [DOMAIN results -> RowsWithValue(response)] :
        Traces(rowOf, results, response, RowsWithValue(response))
  BY QueryTraced DEF Traced
<1>2. rowOf[n] \in RowsWithValue(response)
  BY <1>1
<1>3. PICK m \in DOMAIN response : \E k \in DOMAIN response[m].values : rowOf[n] = <<m, k>>
  BY <1>2 DEF RowsWithValue
<1>4. PICK k \in DOMAIN response[m].values : rowOf[n] = <<m, k>>
  BY <1>3
<1>5. Describes(results[n], response[m].columns, response[m].values[k])
  BY <1>1, <1>4 DEF Traces
<1>6. PICK i \in DOMAIN response[m].values[k] :
        response[m].values[k][i].number = {results[n].value}
  BY <1>5 DEF Describes
<1>7. response[m].values[k][i].number \subseteq Int
  BY FluxAssumption DEF IsFluxSeries
<1> QED
  BY <1>6, <1>7

-------------------------------------------------------------------------------
\* The first sample of a field gives the value that was sent, and only that.
LEMMA FirstIsSent ==
  ASSUME NEW samples, samples = <<>> \/ IsJSON(samples[1])
  PROVE  First(samples) = Sent(samples)
<1>1. CASE samples = <<>>
  BY <1>1 DEF First, Sent
<1>2. CASE samples # <<>>
  <2> DEFINE json == samples[1]
  <2>1. /\ json.form \in Textless \cup Texts
        /\ json.form \in Textless => json.number = {}
        /\ json.form \in Textless <=> json.form \notin Texts
    BY <1>2 DEF IsJSON, Textless, Texts
  <2>2. First(samples) = IF json.form \in Textless THEN {} ELSE json.number
    BY <1>2 DEF First, Float64, UnmarshalJSON
  <2>3. Sent(samples) = IF json.form \in Texts THEN json.number ELSE {}
    BY <1>2 DEF Sent
  <2> QED
    BY <2>1, <2>2, <2>3
<1> QED
  BY <1>1, <1>2

\* A table of which each row is a series of its own.
OneRowPerSeries(table) ==
  \A r, s \in table : r.name = s.name /\ r.label = s.label => r.field = s.field /\ r.exp = s.exp

Is(r, name, label, field, exp) ==
  r.name = name /\ r.label = label /\ r.field = field /\ r.exp = exp

LEMMA RowIs == \A name, label, field, exp : Is(Row(name, label, field, exp), name, label, field, exp)
  BY DEF Row, Is

LEMMA ClusterRows ==
  ASSUME NEW r \in ClusterTable
  PROVE  \/ Is(r, "nodes", "good", "numGoodNodes", 0)
         \/ Is(r, "nodes", "bad", "numBadNodes", 0)
         \/ Is(r, "disks", "good", "numGoodDisks", 0)
         \/ Is(r, "disks", "bad", "numBadDisks", 0)
         \/ Is(r, "capacity_total", "", "diskSpaceTotalCurrent", GB)
         \/ Is(r, "capacity_free", "", "diskSpaceFreeCurrent", GB)
         \/ Is(r, "alerts", "critical", "alertsNumUnackCritical", 0)
         \/ Is(r, "alerts", "error", "alertsNumUnackError", 0)
         \/ Is(r, "alerts", "info", "alertsNumUnackInfo", 0)
         \/ Is(r, "alerts", "warning", "alertsNumUnackWarning", 0)
  BY RowIs, Zenon DEF ClusterTable

LEMMA ReplicationRows ==
  ASSUME NEW r \in ReplicationTable
  PROVE  \/ Is(r, "ingress", "", "replicationIngressTraffic", 0)
         \/ Is(r, "egress", "", "replicationEgressTraffic", 0)
         \/ Is(r, "pending_repo", "", "chunksRepoPendingReplicationTotalSize", 0)
         \/ Is(r, "pending_journal", "", "chunksJournalPendingReplicationTotalSize", 0)
         \/ Is(r, "pending_xor", "", "chunksPendingXorTotalSize", 0)
         \/ Is(r, "rpo_timestamp", "", "replicationRpoTimestamp", Milli)
  BY RowIs, Zenon DEF ReplicationTable

LEMMA QuotaRows ==
  ASSUME NEW r \in QuotaTable
  PROVE  \/ Is(r, "quota", "block", "blockSize", GB)
         \/ Is(r, "quota", "notification", "notificationSize", GB)
  BY RowIs, Zenon DEF QuotaTable

LEMMA BillingRows ==
  ASSUME NEW r \in BillingTable
  PROVE  Is(r, "used", "", "total_size", KB) \/ Is(r, "objects", "", "total_objects", 0)
  BY RowIs, Zenon DEF BillingTable

LEMMA TablesDistinct ==
  /\ OneRowPerSeries(ClusterTable) /\ OneRowPerSeries(ReplicationTable)
  /\ OneRowPerSeries(QuotaTable) /\ OneRowPerSeries(BillingTable)
<1>1. OneRowPerSeries(ClusterTable)
  BY ClusterRows DEF OneRowPerSeries, Is
<1>2. OneRowPerSeries(ReplicationTable)
  BY ReplicationRows DEF OneRowPerSeries, Is
<1>3. OneRowPerSeries(QuotaTable)
  BY QuotaRows DEF OneRowPerSeries, Is
<1>4. OneRowPerSeries(BillingTable)
  BY BillingRows DEF OneRowPerSeries, Is
<1> QED
  BY <1>1, <1>2, <1>3, <1>4

\* A series has what was sent for its own field, whatever the other fields have.
LEMMA SeriesFaithful ==
  ASSUME NEW table, OneRowPerSeries(table), NEW body, NEW r \in table,
         HaveFields({body}, table)
  PROVE  {m \in SeriesOf(table, body) : m[1] = SeriesOfRow(r)} =
           {<<SeriesOfRow(r), v, r.exp>> : v \in Sent(body[r.field])}
<1> DEFINE Given(s) == {<<SeriesOfRow(s), v, s.exp>> : v \in First(body[s.field])}
<1>1. ASSUME NEW s \in table, SeriesOfRow(s) = SeriesOfRow(r) PROVE Given(s) = Given(r)
  <2>1. s.name = r.name /\ s.label = r.label
    BY <1>1 DEF SeriesOfRow
  <2> QED
    BY <1>1, <2>1 DEF OneRowPerSeries
<1>2. First(body[r.field]) = Sent(body[r.field])
  BY FirstIsSent DEF HaveFields
<1>3. SeriesOf(table, body) = UNION {Given(s) : s \in table}
  BY DEF SeriesOf
<1>4. \A s \in table : \A m \in Given(s) : m[1] = SeriesOfRow(s)
  OBVIOUS
<1> HIDE DEF Given
<1>5. {m \in SeriesOf(table, body) : m[1] = SeriesOfRow(r)} = Given(r)
  BY <1>1, <1>3, <1>4
<1> QED
  BY <1>2, <1>5 DEF Given

\* No series comes twice.
LEMMA SeriesOnce ==
  ASSUME NEW table, OneRowPerSeries(table), NEW body, HaveFields({body}, table),
         NEW m \in SeriesOf(table, body), NEW n \in SeriesOf(table, body), m[1] = n[1]
  PROVE  m = n
<1>1. PICK r \in table : m \in {<<SeriesOfRow(r), v, r.exp>> : v \in First(body[r.field])}
  BY DEF SeriesOf
<1>2. \A v, w \in Sent(body[r.field]) : v = w
  BY DEF HaveFields, Sent, IsJSON
<1>3. m[1] = SeriesOfRow(r)
  BY <1>1
<1>4. /\ m \in {<<SeriesOfRow(r), v, r.exp>> : v \in Sent(body[r.field])}
      /\ n \in {<<SeriesOfRow(r), v, r.exp>> : v \in Sent(body[r.field])}
  <2> DEFINE Given == {<<SeriesOfRow(r), v, r.exp>> : v \in Sent(body[r.field])}
  <2>1. {x \in SeriesOf(table, body) : x[1] = SeriesOfRow(r)} = Given
    BY SeriesFaithful
  <2> HIDE DEF Given
  <2>2. m \in Given /\ n \in Given
    BY <1>3, <2>1
  <2> QED
    BY <2>2 DEF Given
<1> QED
  BY <1>2, <1>4

\* The cluster collector's own series is apart from those of its table.
LEMMA InfoApart ==
  /\ \A body, m : m \in SeriesOf(ClusterTable, body) => m[1][1] # "info"
  /\ \A r \in ClusterTable : SeriesOfRow(r)[1] # "info"
<1>1. ASSUME NEW r \in ClusterTable PROVE r.name # "info"
  BY ClusterRows DEF Is
<1>2. ASSUME NEW r \in ClusterTable PROVE SeriesOfRow(r)[1] # "info"
  BY <1>1 DEF SeriesOfRow
<1>3. ASSUME NEW body, NEW m \in SeriesOf(ClusterTable, body) PROVE m[1][1] # "info"
  <2>1. PICK r \in ClusterTable : m \in {<<SeriesOfRow(r), v, r.exp>> : v \in First(body[r.field])}
    BY DEF SeriesOf
  <2>2. m[1] = SeriesOfRow(r)
    BY <2>1
  <2> QED
    BY <1>2, <2>2
<1> QED
  BY <1>2, <1>3

LEMMA ClusterOutput ==
  ASSUME NEW lz \in LocalZones, NEW nodes
  PROVE  LET given == ClusterMetrics(lz, nodes)
         IN  /\ \A r \in ClusterTable :
                  {m \in given : m[1] = SeriesOfRow(r)} =
                    {<<SeriesOfRow(r), v, r.exp>> : v \in Sent(lz[r.field])}
             /\ \E info \in given : {m \in given : m[1][1] = "info"} = {info}
             /\ \A m, n \in given : m[1] = n[1] => m = n
<1> DEFINE info == <<<<"info", VersionOf(nodes), InferProduct(VersionOf(nodes))>>, 1, 0>>
           fields == SeriesOf(ClusterTable, lz)
           given == ClusterMetrics(lz, nodes)
<1>1. given = fields \cup {info}
  BY DEF ClusterMetrics
<1>2. info[1][1] = "info"
  OBVIOUS
<1>3. HaveFields({lz}, ClusterTable)
  BY BodiesAssumption DEF HaveFields
<1>4. \A m \in fields : m[1][1] # "info"
  BY InfoApart
<1>5. \A m, n \in fields : m[1] = n[1] => m = n
  BY <1>3, SeriesOnce, TablesDistinct
<1>6. ASSUME NEW r \in ClusterTable
      PROVE  {m \in given : m[1] = SeriesOfRow(r)} =
               {<<SeriesOfRow(r), v, r.exp>> : v \in Sent(lz[r.field])}
  <2>1. info[1] # SeriesOfRow(r)
    BY <1>2, InfoApart
  <2>2. {m \in fields : m[1] = SeriesOfRow(r)} =
          {<<SeriesOfRow(r), v, r.exp>> : v \in Sent(lz[r.field])}
    BY <1>3, SeriesFaithful, TablesDistinct
  <2> HIDE DEF info, fields, given
  <2>3. {m \in given : m[1] = SeriesOfRow(r)} = {m \in fields : m[1] = SeriesOfRow(r)}
    BY <1>1, <2>1
  <2> QED
    BY <2>2, <2>3
<1> HIDE DEF info, fields, given
<1>7. info \in given /\ {m \in given : m[1][1] = "info"} = {info}
  BY <1>1, <1>2, <1>4
<1>8. \A m, n \in given : m[1] = n[1] => m = n
  BY <1>1, <1>2, <1>4, <1>5
<1> QED
  BY <1>6, <1>7, <1>8 DEF given

LEMMA TableOutput ==
  ASSUME NEW bodies, NEW table, HaveFields(bodies, table), OneRowPerSeries(table), NEW b \in bodies
  PROVE  /\ \A r \in table :
              {m \in SeriesOf(table, b) : m[1] = SeriesOfRow(r)} =
                {<<SeriesOfRow(r), v, r.exp>> : v \in Sent(b[r.field])}
         /\ \A m, n \in SeriesOf(table, b) : m[1] = n[1] => m = n
<1>1. HaveFields({b}, table)
  BY DEF HaveFields
<1> QED
  BY <1>1, SeriesFaithful, SeriesOnce

LEMMA QuotaOutput ==
  ASSUME NEW q \in Quotas
  PROVE  LET given == QuotaMetrics(q)
         IN  /\ given # {} <=> \E v \in Sent(q["blockSize"]) : v > 0
             /\ given # {} =>
                  \A r \in QuotaTable :
                    {m \in given : m[1] = SeriesOfRow(r)} =
                      {<<SeriesOfRow(r), v, r.exp>> : v \in Sent(q[r.field])}
             /\ \A m, n \in given : m[1] = n[1] => m = n
<1> DEFINE block == Row("quota", "block", "blockSize", GB)
<1>1. block \in QuotaTable /\ block.field = "blockSize"
  BY DEF QuotaTable, Row
<1>2. HaveFields(Quotas, QuotaTable) /\ OneRowPerSeries(QuotaTable)
  BY BodiesAssumption, TablesDistinct
<1>3. First(q["blockSize"]) = Sent(q["blockSize"])
  BY <1>1, <1>2, FirstIsSent DEF HaveFields
<1>4. CASE ~\E v \in First(q["blockSize"]) : v > 0
  BY <1>3, <1>4 DEF QuotaMetrics
<1>5. CASE \E v \in First(q["blockSize"]) : v > 0
  <2>1. QuotaMetrics(q) = SeriesOf(QuotaTable, q)
    BY <1>5 DEF QuotaMetrics
  <2>2. SeriesOf(QuotaTable, q) # {}
    <3> DEFINE Given(s) == {<<SeriesOfRow(s), v, s.exp>> : v \in First(q[s.field])}
    <3>1. PICK v \in First(q["blockSize"]) : v > 0
      BY <1>5
    <3> HIDE DEF block
    <3>2. <<SeriesOfRow(block), v, block.exp>> \in Given(block)
      BY <1>1, <3>1
    <3> HIDE DEF Given
    <3>3. SeriesOf(QuotaTable, q) = UNION {Given(s) : s \in QuotaTable}
      BY DEF SeriesOf, Given
    <3> QED
      BY <1>1, <3>2, <3>3
  <2> QED
    BY <1>2, <1>3, <1>5, <2>1, <2>2, TableOutput
<1> QED
  BY <1>4, <1>5

-------------------------------------------------------------------------------
LEMMA Rounded ==
  ASSUME NEW r \in Int
  PROVE  LET s == RoundToSeconds(r)
         IN  /\ s \in Int /\ AbsOf(s) \in Nat
             /\ s = IF s < 0 THEN -AbsOf(s) ELSE AbsOf(s)
             /\ AbsOf(s * 1000 - r) <= 500
             /\ s <= 0 <=> r < 500
             /\ r <= 3600 * 1000 => s <= 3600
<1> DEFINE a == AbsOf(r)
           n == (a + 500) \div 1000
           s == RoundToSeconds(r)
<1>1. a \in Nat /\ r = IF r < 0 THEN -a ELSE a
  BY DEF AbsOf
<1>2. n \in Nat /\ 1000 * n <= a + 500 /\ a + 500 < 1000 * n + 1000
  BY <1>1
<1>3. s = IF r < 0 THEN -n ELSE n
  BY DEF RoundToSeconds
<1> HIDE DEF a, n, s
<1>4. s \in Int /\ AbsOf(s) \in Nat /\ s = IF s < 0 THEN -AbsOf(s) ELSE AbsOf(s)
  BY <1>2, <1>3 DEF AbsOf
<1>5. AbsOf(s * 1000 - r) <= 500
  BY <1>1, <1>2, <1>3 DEF AbsOf
<1>6. s <= 0 <=> r < 500
  BY <1>1, <1>2, <1>3
<1>7. r <= 3600 * 1000 => s <= 3600
  BY <1>1, <1>2, <1>3
<1> QED
  BY <1>4, <1>5, <1>6, <1>7 DEF s

\* The hours and the seconds of n seconds; MinutesOf gives the minutes.
HoursIn(n) == n \div 3600
SecondsIn(n) == n % 60

LEMMA Units ==
  ASSUME NEW n \in Nat
  PROVE  /\ HoursIn(n) \in Nat /\ MinutesOf(n) \in 0..59 /\ SecondsIn(n) \in 0..59
         /\ n = HoursIn(n) * Unit["h"] + MinutesOf(n) * Unit["m"] + SecondsIn(n) * Unit["s"]
<1> DEFINE h == n \div 3600
           k == n % 3600
           m == k \div 60
<1>1. h \in Nat /\ k \in 0..3599 /\ n = 3600 * h + k
  OBVIOUS
<1>2. m \in 0..59 /\ k % 60 \in 0..59 /\ k = 60 * m + (k % 60)
  BY <1>1
<1>3. n % 60 = k % 60
  BY <1>1, <1>2
<1>4. HoursIn(n) = h /\ MinutesOf(n) = m /\ SecondsIn(n) = k % 60
  BY <1>3 DEF HoursIn, MinutesOf, SecondsIn
<1>5. Unit["h"] = 3600 /\ Unit["m"] = 60 /\ Unit["s"] = 1
  BY DEF Unit
<1> HIDE DEF h, k, m
<1> QED
  BY <1>1, <1>2, <1>4, <1>5

\* A literal's parts in order, each under its unit's limit.
WellFormed(parts) ==
  /\ parts \in Seq(Int \X {"h", "m", "s"}) /\ Len(parts) \in 1..3
  /\ \A i \in DOMAIN parts :
       /\ parts[i][2] \in {"m", "s"} => parts[i][1] < 60
       /\ \A j \in 1..i - 1 : Unit[parts[j][2]] > Unit[parts[i][2]]

Sum3(parts) == SecondsAt(parts, 1) + SecondsAt(parts, 2) + SecondsAt(parts, 3)

LEMMA OnePart ==
  ASSUME NEW a \in Int, NEW u \in {"h", "m", "s"}, u \in {"m", "s"} => a < 60
  PROVE  WellFormed(<< <<a, u>> >>) /\ Sum3(<< <<a, u>> >>) = a * Unit[u]
<1> DEFINE parts == << <<a, u>> >>
<1>1. parts \in Seq(Int \X {"h", "m", "s"}) /\ Len(parts) = 1 /\ DOMAIN parts = 1..1
  OBVIOUS
<1>2. parts[1] = <<a, u>>
  OBVIOUS
<1>3. a * Unit[u] \in Int
  BY DEF Unit
<1> HIDE DEF parts
<1>4. SecondsAt(parts, 1) = a * Unit[u] /\ SecondsAt(parts, 2) = 0 /\ SecondsAt(parts, 3) = 0
  BY <1>1, <1>2 DEF SecondsAt
<1>5. WellFormed(parts)
  BY <1>1, <1>2 DEF WellFormed
<1>6. Sum3(parts) = a * Unit[u]
  BY <1>3, <1>4 DEF Sum3
<1> QED
  BY <1>5, <1>6 DEF parts

LEMMA TwoParts ==
  ASSUME NEW a \in Int, NEW u \in {"h", "m"}, u = "m" => a < 60,
         NEW b \in Int, NEW v \in {"m", "s"}, b < 60, u # v
  PROVE  /\ WellFormed(<< <<a, u>>, <<b, v>> >>)
         /\ Sum3(<< <<a, u>>, <<b, v>> >>) = a * Unit[u] + b * Unit[v]
<1> DEFINE parts == << <<a, u>>, <<b, v>> >>
<1>1. parts \in Seq(Int \X {"h", "m", "s"}) /\ Len(parts) = 2 /\ DOMAIN parts = 1..2
  OBVIOUS
<1>2. parts[1] = <<a, u>> /\ parts[2] = <<b, v>>
  OBVIOUS
<1>3. a * Unit[u] \in Int /\ b * Unit[v] \in Int
  BY DEF Unit
<1>0. Unit[u] > Unit[v]
  BY DEF Unit
<1> HIDE DEF parts
<1>4. SecondsAt(parts, 1) = a * Unit[u] /\ SecondsAt(parts, 2) = b * Unit[v] /\ SecondsAt(parts, 3) = 0
  BY <1>1, <1>2 DEF SecondsAt
<1>5. WellFormed(parts)
  BY <1>0, <1>1, <1>2 DEF WellFormed
<1>6. Sum3(parts) = a * Unit[u] + b * Unit[v]
  BY <1>3, <1>4 DEF Sum3
<1> QED
  BY <1>5, <1>6 DEF parts

LEMMA ThreeParts ==
  ASSUME NEW a \in Int, NEW b \in Int, NEW c \in Int, b < 60, c < 60
  PROVE  /\ WellFormed(<< <<a, "h">>, <<b, "m">>, <<c, "s">> >>)
         /\ Sum3(<< <<a, "h">>, <<b, "m">>, <<c, "s">> >>) = a * Unit["h"] + b * Unit["m"] + c * Unit["s"]
<1> DEFINE parts == << <<a, "h">>, <<b, "m">>, <<c, "s">> >>
<1>1. parts \in Seq(Int \X {"h", "m", "s"}) /\ Len(parts) = 3 /\ DOMAIN parts = 1..3
  OBVIOUS
<1>2. parts[1] = <<a, "h">> /\ parts[2] = <<b, "m">> /\ parts[3] = <<c, "s">>
  OBVIOUS
<1>3. Unit["h"] = 3600 /\ Unit["m"] = 60 /\ Unit["s"] = 1
  BY DEF Unit
<1> HIDE DEF parts
<1>4. /\ SecondsAt(parts, 1) = a * Unit["h"]
      /\ SecondsAt(parts, 2) = b * Unit["m"]
      /\ SecondsAt(parts, 3) = c * Unit["s"]
  BY <1>1, <1>2 DEF SecondsAt
<1>5. WellFormed(parts)
  BY <1>1, <1>2, <1>3 DEF WellFormed
<1>6. Sum3(parts) = a * Unit["h"] + b * Unit["m"] + c * Unit["s"]
  BY <1>4 DEF Sum3
<1> QED
  BY <1>5, <1>6 DEF parts

\* What a sequence is when one more element follows it.
LEMMA Followed ==
  ASSUME NEW S, NEW s \in Seq(S), NEW y \in S,
         NEW t \in Seq(S), Len(t) = Len(s) + 1, t[Len(t)] = y, \A i \in 1..Len(s) : t[i] = s[i]
  PROVE  s \o <<y>> = t
<1> DEFINE u == <<y>>
<1>1. u \in Seq(S) /\ Len(u) = 1 /\ u[1] = y
  OBVIOUS
<1> HIDE DEF u
<1>2. /\ s \o u \in Seq(S) /\ Len(s \o u) = Len(s) + Len(u)
      /\ \A i \in 1..Len(s) + Len(u) : (s \o u)[i] = IF i <= Len(s) THEN s[i] ELSE u[i - Len(s)]
  BY <1>1, ConcatProperties, Zenon
<1>3. Len(s) \in Nat
  BY LenProperties
<1>4. \A i \in 1..Len(t) : (s \o u)[i] = t[i]
  BY <1>1, <1>2, <1>3
<1>5. Len(s \o u) = Len(t)
  BY <1>1, <1>2
<1>6. s \o u = t
  BY <1>2, <1>4, <1>5, SeqEqual, Zenon
<1> QED
  BY <1>6 DEF u

\* Up to three sequences of one element or none, one after the other.
LEMMA Concatenated ==
  ASSUME NEW S, NEW x \in S, NEW y \in S, NEW z \in S
  PROVE  /\ <<x>> \o <<y>> \o <<z>> = <<x, y, z>>
         /\ <<x>> \o <<y>> \o <<>> = <<x, y>> /\ <<x>> \o <<>> \o <<z>> = <<x, z>>
         /\ <<>> \o <<y>> \o <<z>> = <<y, z>> /\ <<x>> \o <<>> \o <<>> = <<x>>
         /\ <<>> \o <<y>> \o <<>> = <<y>> /\ <<>> \o <<>> \o <<z>> = <<z>>
<1>1. ASSUME NEW a \in S, NEW b \in S PROVE <<a>> \o <<b>> = <<a, b>> /\ <<a, b>> \in Seq(S)
  <2> DEFINE s == <<a>>
             t == <<a, b>>
  <2>1. s \in Seq(S) /\ Len(s) = 1 /\ s[1] = a
    OBVIOUS
  <2>2. t \in Seq(S) /\ Len(t) = 2 /\ t[1] = a /\ t[2] = b
    OBVIOUS
  <2> HIDE DEF s, t
  <2>3. Len(t) = Len(s) + 1 /\ t[Len(t)] = b /\ \A i \in 1..Len(s) : t[i] = s[i]
    BY <2>1, <2>2
  <2>4. s \o <<b>> = t
    BY <2>1, <2>2, <2>3, Followed, Zenon
  <2> QED
    BY <2>2, <2>4 DEF s, t
<1>2. <<x, y>> \o <<z>> = <<x, y, z>>
  <2> DEFINE s == <<x, y>>
             t == <<x, y, z>>
  <2>1. s \in Seq(S) /\ Len(s) = 2 /\ s[1] = x /\ s[2] = y
    OBVIOUS
  <2>2. t \in Seq(S) /\ Len(t) = 3 /\ t[1] = x /\ t[2] = y /\ t[3] = z
    OBVIOUS
  <2> HIDE DEF s, t
  <2>3. Len(t) = Len(s) + 1 /\ t[Len(t)] = z /\ \A i \in 1..Len(s) : t[i] = s[i]
    BY <2>1, <2>2
  <2>4. s \o <<z>> = t
    BY <2>1, <2>2, <2>3, Followed, Zenon
  <2> QED
    BY <2>4 DEF s, t
<1>3. \A t \in Seq(S) : t \o <<>> = t /\ <<>> \o t = t
  BY ConcatEmptySeq
<1>4. <<x>> \in Seq(S) /\ <<y>> \in Seq(S) /\ <<z>> \in Seq(S) /\ <<>> \in Seq(S)
  OBVIOUS
<1> QED
  BY <1>1, <1>2, <1>3, <1>4, Zenon

\* The parts of a time that is not zero.
LEMMA PartsDenote ==
  ASSUME NEW h \in Nat, NEW m \in 0..59, NEW s \in 0..59, ~(h = 0 /\ m = 0 /\ s = 0),
         NEW parts, parts = Part(h, "h") \o Part(m, "m") \o Part(s, "s")
  PROVE  WellFormed(parts) /\ Sum3(parts) = h * Unit["h"] + m * Unit["m"] + s * Unit["s"]
<1> DEFINE H == <<h, "h">>
           M == <<m, "m">>
           S == <<s, "s">>
<1>1. Part(h, "h") = IF h > 0 THEN <<H>> ELSE <<>>
  BY DEF Part
<1>2. Part(m, "m") = IF m > 0 THEN <<M>> ELSE <<>>
  BY DEF Part
<1>3. Part(s, "s") = IF s > 0 THEN <<S>> ELSE <<>>
  BY DEF Part
<1>4. /\ <<H>> \o <<M>> \o <<S>> = <<H, M, S>>
      /\ <<H>> \o <<M>> \o <<>> = <<H, M>> /\ <<H>> \o <<>> \o <<S>> = <<H, S>>
      /\ <<>> \o <<M>> \o <<S>> = <<M, S>> /\ <<H>> \o <<>> \o <<>> = <<H>>
      /\ <<>> \o <<M>> \o <<>> = <<M>> /\ <<>> \o <<>> \o <<S>> = <<S>>
  <2>1. H \in {H, M, S} /\ M \in {H, M, S} /\ S \in {H, M, S}
    OBVIOUS
  <2> HIDE DEF H, M, S
  <2> QED
    BY <2>1, Concatenated
<1>5. /\ h * Unit["h"] \in Int /\ m * Unit["m"] \in Int /\ s * Unit["s"] \in Int
      /\ 0 * Unit["h"] = 0 /\ 0 * Unit["m"] = 0 /\ 0 * Unit["s"] = 0
  <2>1. Unit["h"] \in Int /\ Unit["m"] \in Int /\ Unit["s"] \in Int
    BY DEF Unit
  <2>2. h \in Int /\ m \in Int /\ s \in Int
    OBVIOUS
  <2>3. \A x, y \in Int : x * y \in Int /\ 0 * y = 0
    OBVIOUS
  <2> QED
    BY <2>1, <2>2, <2>3, Zenon
<1>6. h \in Int /\ m \in Int /\ s \in Int /\ m < 60 /\ s < 60 /\ h >= 0 /\ m >= 0 /\ s >= 0
  OBVIOUS
<1>7. parts = (IF h > 0 THEN <<H>> ELSE <<>>) \o (IF m > 0 THEN <<M>> ELSE <<>>)
                \o (IF s > 0 THEN <<S>> ELSE <<>>)
  BY <1>1, <1>2, <1>3
<1>8. WellFormed(<<H, M, S>>) /\ Sum3(<<H, M, S>>) = h * Unit["h"] + m * Unit["m"] + s * Unit["s"]
  BY <1>6, ThreeParts, Zenon
<1>9. WellFormed(<<H, M>>) /\ Sum3(<<H, M>>) = h * Unit["h"] + m * Unit["m"]
  BY <1>6, TwoParts, Zenon
<1>10. WellFormed(<<H, S>>) /\ Sum3(<<H, S>>) = h * Unit["h"] + s * Unit["s"]
  BY <1>6, TwoParts, Zenon
<1>11. WellFormed(<<M, S>>) /\ Sum3(<<M, S>>) = m * Unit["m"] + s * Unit["s"]
  BY <1>6, TwoParts, Zenon
<1>12. WellFormed(<<H>>) /\ Sum3(<<H>>) = h * Unit["h"]
  BY <1>6, OnePart, Zenon
<1>13. WellFormed(<<M>>) /\ Sum3(<<M>>) = m * Unit["m"]
  BY <1>6, OnePart, Zenon
<1>14. WellFormed(<<S>>) /\ Sum3(<<S>>) = s * Unit["s"]
  BY <1>6, OnePart, Zenon
<1> HIDE DEF H, M, S
<1>15. CASE h > 0 /\ m > 0 /\ s > 0
  <2>1. parts = <<H, M, S>>
    BY <1>4, <1>7, <1>15, Zenon
  <2>2. WellFormed(parts) /\ Sum3(parts) = h * Unit["h"] + m * Unit["m"] + s * Unit["s"]
    BY <1>8, <2>1, Zenon
  <2> QED
    BY <1>5, <1>6, <1>15, <2>2
<1>16. CASE h > 0 /\ m > 0 /\ ~(s > 0)
  <2>1. parts = <<H, M>>
    BY <1>4, <1>7, <1>16, Zenon
  <2>2. WellFormed(parts) /\ Sum3(parts) = h * Unit["h"] + m * Unit["m"]
    BY <1>9, <2>1, Zenon
  <2> QED
    BY <1>5, <1>6, <1>16, <2>2
<1>17. CASE h > 0 /\ ~(m > 0) /\ s > 0
  <2>1. parts = <<H, S>>
    BY <1>4, <1>7, <1>17, Zenon
  <2>2. WellFormed(parts) /\ Sum3(parts) = h * Unit["h"] + s * Unit["s"]
    BY <1>10, <2>1, Zenon
  <2> QED
    BY <1>5, <1>6, <1>17, <2>2
<1>18. CASE ~(h > 0) /\ m > 0 /\ s > 0
  <2>1. parts = <<M, S>>
    BY <1>4, <1>7, <1>18, Zenon
  <2>2. WellFormed(parts) /\ Sum3(parts) = m * Unit["m"] + s * Unit["s"]
    BY <1>11, <2>1, Zenon
  <2> QED
    BY <1>5, <1>6, <1>18, <2>2
<1>19. CASE h > 0 /\ ~(m > 0) /\ ~(s > 0)
  <2>1. parts = <<H>>
    BY <1>4, <1>7, <1>19, Zenon
  <2>2. WellFormed(parts) /\ Sum3(parts) = h * Unit["h"]
    BY <1>12, <2>1, Zenon
  <2> QED
    BY <1>5, <1>6, <1>19, <2>2
<1>20. CASE ~(h > 0) /\ m > 0 /\ ~(s > 0)
  <2>1. parts = <<M>>
    BY <1>4, <1>7, <1>20, Zenon
  <2>2. WellFormed(parts) /\ Sum3(parts) = m * Unit["m"]
    BY <1>13, <2>1, Zenon
  <2> QED
    BY <1>5, <1>6, <1>20, <2>2
<1>21. CASE ~(h > 0) /\ ~(m > 0) /\ s > 0
  <2>1. parts = <<S>>
    BY <1>4, <1>7, <1>21, Zenon
  <2>2. WellFormed(parts) /\ Sum3(parts) = s * Unit["s"]
    BY <1>14, <2>1, Zenon
  <2> QED
    BY <1>5, <1>6, <1>21, <2>2
<1> QED
  BY <1>6, <1>15, <1>16, <1>17, <1>18, <1>19, <1>20, <1>21

\* The literal comes to the seconds of the range, and its parts are well formed.
LEMMA LiteralOfRange ==
  ASSUME NEW r \in Int
  PROVE  /\ SecondsOf(FluxDuration(r)) = RoundToSeconds(r)
         /\ WellFormed(FluxDuration(r).parts)
<1> DEFINE s == RoundToSeconds(r)
           n == AbsOf(s)
           parts == FluxDuration(r).parts
<1>1. n \in Nat /\ s \in Int /\ s = IF s < 0 THEN -n ELSE n
  BY Rounded
<1>2. FluxDuration(r).negative = (s < 0)
  BY DEF FluxDuration
<1>3. parts = IF n = 0 THEN << <<0, "s">> >>
              ELSE Part(HoursIn(n), "h") \o Part(MinutesOf(n), "m") \o Part(SecondsIn(n), "s")
  BY DEF FluxDuration, HoursIn, SecondsIn
<1> HIDE DEF s, n, parts
<1>4. WellFormed(parts) /\ Sum3(parts) = n
  <2>1. CASE n = 0
    <3>1. WellFormed(<< <<0, "s">> >>) /\ Sum3(<< <<0, "s">> >>) = 0 * Unit["s"]
      <4>1. 0 \in Int /\ 0 < 60
        OBVIOUS
      <4> QED
        BY <4>1, OnePart, Zenon
    <3>2. 0 * Unit["s"] = 0
      BY DEF Unit
    <3> QED
      BY <1>3, <2>1, <3>1, <3>2
  <2>2. CASE n # 0
    <3> DEFINE h == HoursIn(n)
               m == MinutesOf(n)
               k == SecondsIn(n)
    <3>1. h \in Nat /\ m \in 0..59 /\ k \in 0..59 /\ n = h * Unit["h"] + m * Unit["m"] + k * Unit["s"]
      BY <1>1, Units, Zenon
    <3>2. parts = Part(h, "h") \o Part(m, "m") \o Part(k, "s")
      BY <1>3, <2>2
    <3> HIDE DEF h, m, k
    <3>3. ~(h = 0 /\ m = 0 /\ k = 0)
      BY <2>2, <3>1 DEF Unit
    <3> QED
      BY <3>1, <3>2, <3>3, PartsDenote, Zenon
  <2> QED
    BY <2>1, <2>2
<1>5. SecondsOf(FluxDuration(r)) = IF s < 0 THEN -n ELSE n
  <2>1. SecondsOf(FluxDuration(r)) = IF FluxDuration(r).negative THEN -Sum3(parts) ELSE Sum3(parts)
    BY DEF SecondsOf, Sum3, parts
  <2> QED
    BY <1>2, <1>4, <2>1
<1> QED
  BY <1>1, <1>4, <1>5 DEF s, parts

-------------------------------------------------------------------------------
\* The output is what the conversion of the input's kind makes of the input.
Made ==
  /\ input[1] = "cluster" =>
       input[2] \in LocalZones
         /\ \E nodes \in NodeAnswers : output = ClusterMetrics(input[2], nodes)
  /\ input[1] = "group" =>
       input[2] \in Groups /\ output = SeriesOf(ReplicationTable, input[2])
  /\ input[1] = "quota" => input[2] \in Quotas /\ output = QuotaMetrics(input[2])
  /\ input[1] = "billing" =>
       input[2] \in Billings /\ output = SeriesOf(BillingTable, input[2])
  /\ input[1] = "query" => input[2] \in Responses /\ output = QueryResults(input[2])
  /\ input[1] = "perf" =>
       /\ input[2][1] \in PerfQueries /\ input[2][2] \in Results
       /\ output = PerfMetrics(input[2][1], input[2][2])
  /\ input[1] = "range" =>
       /\ input[2] \in Ranges
       /\ output = IF Validate(input[2]) THEN <<FluxDuration(input[2])>> ELSE <<>>

LEMMA AlwaysMade == Spec => []Made
<1>1. Init => Made
  BY DEF Init, Made
<1>2. ASSUME Made, [Next]_vars PROVE Made'
  <2> USE DEF Convert
  <2>1. CASE CollectCluster
    BY <2>1 DEF CollectCluster, Made
  <2>2. CASE CollectGroup
    BY <2>2 DEF CollectGroup, Made
  <2>3. CASE CollectQuota
    BY <2>3 DEF CollectQuota, Made
  <2>4. CASE CollectBilling
    BY <2>4 DEF CollectBilling, Made
  <2>5. CASE RunQuery
    BY <2>5 DEF RunQuery, Made
  <2>6. CASE CollectPerf
    BY <2>6 DEF CollectPerf, Made
  <2>7. CASE StartWithRange
    BY <2>7 DEF StartWithRange, Made
  <2>8. CASE UNCHANGED vars
    BY <1>2, <2>8 DEF vars, Made
  <2> QED
    BY <1>2, <2>1, <2>2, <2>3, <2>4, <2>5, <2>6, <2>7, <2>8 DEF Next
<1> QED
  BY <1>1, <1>2, PTL DEF Spec

\* A body's fields, for each of the tables.
LEMMA BodiesOfTables ==
  /\ HaveFields(LocalZones, ClusterTable) /\ HaveFields(Groups, ReplicationTable)
  /\ HaveFields(Quotas, QuotaTable) /\ HaveFields(Billings, BillingTable)
  BY BodiesAssumption

\* Whatever the API sends, no series of a body comes twice, a Flux result has a
\* number, and a literal has one part to three.
THEOREM TypeCorrect == Spec => []TypeOK
<1>1. Made => TypeOK
  <2> SUFFICES ASSUME Made PROVE TypeOK
    OBVIOUS
  <2>1. ASSUME input[1] \in {"cluster", "group", "quota", "billing"}
        PROVE  \A m, n \in output : m[1] = n[1] => m = n
    <3>1. CASE input[1] = "cluster"
      BY <3>1, ClusterOutput DEF Made
    <3>2. CASE input[1] = "group"
      BY <3>2, TableOutput, TablesDistinct, BodiesOfTables DEF Made
    <3>3. CASE input[1] = "quota"
      BY <3>3, QuotaOutput DEF Made
    <3>4. CASE input[1] = "billing"
      BY <3>4, TableOutput, TablesDistinct, BodiesOfTables DEF Made
    <3> QED
      BY <2>1, <3>1, <3>2, <3>3, <3>4
  <2>2. input[1] = "query" => \A n \in DOMAIN output : output[n].value \in Int
    BY ValuesAreNumbers DEF Made
  <2>3. ASSUME input[1] = "range", output # <<>> PROVE Len(output[1].parts) \in 1..3
    <3>1. input[2] \in Int /\ output[1] = FluxDuration(input[2])
      BY <2>3, FluxAssumption DEF Made
    <3> QED
      BY <3>1, LiteralOfRange DEF WellFormed
  <2> QED
    BY <2>1, <2>2, <2>3 DEF TypeOK
<1> QED
  BY <1>1, AlwaysMade, PTL

\* A field without a number gives no series and costs no other field its own; a
\* number gives its own series, whichever of any set of bodies it stands in.
THEOREM NoFalseValues == Spec => []NoFalseValue
<1>1. Made => NoFalseValue
  <2> SUFFICES ASSUME Made PROVE NoFalseValue
    OBVIOUS
  <2>1. ASSUME input[1] = "cluster"
        PROVE  /\ Faithful(ClusterTable)
               /\ \E info \in output : {m \in output : m[1][1] = "info"} = {info}
    BY <2>1, ClusterOutput DEF Made, Faithful
  <2>2. ASSUME input[1] = "group" PROVE Faithful(ReplicationTable)
    BY <2>2, TableOutput, TablesDistinct, BodiesOfTables DEF Made, Faithful
  <2>3. ASSUME input[1] = "billing" PROVE Faithful(BillingTable)
    BY <2>3, TableOutput, TablesDistinct, BodiesOfTables DEF Made, Faithful
  <2> QED
    BY <2>1, <2>2, <2>3 DEF NoFalseValue
<1> QED
  BY <1>1, AlwaysMade, PTL

\* A namespace has quota series exactly when its block size is above zero, and
\* then those of both its sizes.
THEOREM QuotasOnlyWhenSet == Spec => []QuotaOnlyWhenSet
<1>1. Made => QuotaOnlyWhenSet
  BY QuotaOutput DEF Made, QuotaOnlyWhenSet, Faithful
<1> QED
  BY <1>1, AlwaysMade, PTL

\* Any response, of any series and rows: the results are those of the rows with a
\* number in their value cell, one each and in their order.
THEOREM RowsAreFaithful == Spec => []RowsFaithful
<1>1. Made => RowsFaithful
  BY QueryTraced DEF Made, RowsFaithful, Traced
<1> QED
  BY <1>1, AlwaysMade, PTL

\* However many rows a query has: a rate counts every request of every counter
\* once, a latency is the first one.
THEOREM MetricsOfAllRows == Spec => []OneMetricOfAllRows
<1>1. Made => OneMetricOfAllRows
  <2> SUFFICES ASSUME Made, input[1] = "perf" PROVE OneMetricOfAllRows
    BY DEF OneMetricOfAllRows
  <2> DEFINE q == input[2][1]
             results == input[2][2]
  <2>1. results \in Results /\ output = PerfMetrics(q, results)
    BY DEF Made
  <2> HIDE DEF q, results
  <2>2. q \in {"readTPS", "writeTPS"} =>
          output = {<<<<q, "", "">>, Cardinality(RequestsOf(results)), 0>> :
                      i \in CountersOf(results)}
    BY <2>1, RateOfAllRows
  <2>3. q \in {"readLatency", "writeLatency"} =>
          output = {<<<<q, "", "">>, results[i].value, -3>> :
                      i \in {j \in DOMAIN results : IsFirstP50(results, j)}}
    BY <2>1, LatencyOfFirstRow
  <2> QED
    BY <2>2, <2>3 DEF OneMetricOfAllRows, q, results
<1> QED
  BY <1>1, AlwaysMade, PTL

\* The literal of any accepted range is the range to the nearest second, in units
\* that come once, in order and within the next one.
THEOREM LiteralsDenoteRanges == Spec => []LiteralDenotesRange
<1>1. Made => LiteralDenotesRange
  <2> SUFFICES ASSUME Made, input[1] = "range", output # <<>> PROVE LiteralDenotesRange
    BY DEF LiteralDenotesRange
  <2>1. input[2] \in Int /\ output[1] = FluxDuration(input[2])
    BY FluxAssumption DEF Made
  <2>2. AbsOf(SecondsOf(output[1]) * 1000 - input[2]) <= 500
    BY <2>1, LiteralOfRange, Rounded
  <2> QED
    BY <2>1, <2>2, LiteralOfRange DEF LiteralDenotesRange, WellFormed
<1> QED
  BY <1>1, AlwaysMade, PTL

\* No range the startup accepts asks for more than an hour, and the window is
\* empty or ahead for exactly those under half a second.
THEOREM RangesWithinLimit == Spec => []WithinFluxLimit
<1>1. Made => WithinFluxLimit
  <2> SUFFICES ASSUME Made, input[1] = "range" PROVE WithinFluxLimit
    BY DEF WithinFluxLimit
  <2>1. /\ input[2] \in Int
        /\ output = IF Validate(input[2]) THEN <<FluxDuration(input[2])>> ELSE <<>>
    BY FluxAssumption DEF Made
  <2>2. CASE Validate(input[2])
    <3>1. output = <<FluxDuration(input[2])>>
      BY <2>1, <2>2
    <3>2. output # <<>> /\ output[1] = FluxDuration(input[2])
      BY <3>1
    <3>3. SecondsOf(output[1]) = RoundToSeconds(input[2])
      BY <2>1, <3>2, LiteralOfRange
    <3>4. input[2] <= 3600 * 1000
      BY <2>2 DEF Validate, MaxPerfRange
    <3>5. SecondsOf(output[1]) <= 3600 /\ (SecondsOf(output[1]) <= 0 <=> input[2] < 500)
      <4> DEFINE r == input[2]
                 s == RoundToSeconds(r)
      <4>1. r \in Int
        BY <2>1
      <4> HIDE DEF r
      <4>2. s \in Int /\ (s <= 0 <=> r < 500) /\ (r <= 3600 * 1000 => s <= 3600)
        BY <4>1, Rounded
      <4>3. SecondsOf(output[1]) = s /\ r <= 3600 * 1000
        BY <3>3, <3>4 DEF r
      <4> HIDE DEF s
      <4> QED
        BY <4>2, <4>3 DEF r
    <3> QED
      BY <3>2, <3>5 DEF WithinFluxLimit
  <2>3. CASE ~Validate(input[2])
    BY <2>1, <2>3 DEF WithinFluxLimit, Validate, MaxPerfRange
  <2> QED
    BY <2>2, <2>3
<1> QED
  BY <1>1, AlwaysMade, PTL
===============================================================================
