----------------------------- MODULE MCConversions -----------------------------
(***************************************************************************)
(* Conversions for TLC: every body with any two fields of any form, every  *)
(* sort of series with two rows and some responses of two, the results of  *)
(* up to three rows, and the ranges around the limits.                     *)
(***************************************************************************)
EXTENDS Conversions

Values == {Missing, Null, EmptyString, Junk, Bare(0), Bare(2), Quoted(0), Quoted(2)}

\* A field is one value, or an array of samples of which the first counts.
Plain == {<<v>> : v \in Values}
Arrays == {<<>>, <<Missing>>, <<Null>>, <<EmptyString>>, <<Junk, Bare(7)>>,
           <<Quoted(0)>>, <<Quoted(2), Bare(7)>>}

FieldsOf(table) == {r.field : r \in table}

\* Two fields take any of the forms, the others are as they should be.
Bodies(fields, forms) ==
  {[f \in fields |-> IF f = a THEN u ELSE IF f = b THEN v ELSE <<Bare(5)>>] :
     a \in fields, b \in fields, u \in forms, v \in forms}

MCLocalZones == Bodies(FieldsOf(ClusterTable), Arrays)
MCGroups == Bodies(FieldsOf(ReplicationTable), Plain)
MCBillings == Bodies(FieldsOf(BillingTable), Plain)
MCQuotas == [{"blockSize", "notificationSize"} -> Plain]

\* No nodes, and versions of every family, an empty one included.
MCNodeAnswers ==
  {{}, {<<>>}, {<< <<"3.", "8">>, <<"4.", "1">> >>}, {<< <<"4.", "1">> >>}, {<< <<"", "">> >>}}

\* Columns in any order, missing and repeated, under rows of any length.
Columns == {<<"_value">>, <<"_field", "_value", "head">>, <<"head", "_value", "_field">>,
            <<"_value", "table", "_value">>, <<"_field", "head">>, <<"head", "_field", "_value">>}
Cells == {Text("p50"), Number(1), Number(2)}
Rows == UNION {[1..n -> Cells] : n \in 0..3}
Others == {<<>>, <<Number(2)>>, <<Text("p99"), Number(1), Number(2)>>}
MCSeries == [columns : Columns, values : (Rows \X Others) \cup (Others \X Rows)]

Pairs == [columns : Columns, values : Others \X Others]
MCResponses == {<<>>} \cup {<<s>> : s \in MCSeries} \cup (Pairs \X Pairs)

\* A counter of either sort, a percentile, and a field nobody asks for.
Fields == {"succeed_request_counter", "failed_request_counter", "p50", "p99"}
MCResults ==
  UNION {[1..n -> [field : Fields, value : 0..2, tags : {<<>>}]] : n \in 0..3}

Seconds == {0, 1, 59, 60, 61, 90, 300, 3599, 3600, 3601, 5400, 7200}
MCRanges == {1000 * s + d : s \in Seconds, d \in {-501, -500, -499, 0, 499, 500, 501}}
             \cup {-300000, -1000}
===============================================================================
