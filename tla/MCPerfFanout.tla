------------------------------ MODULE MCPerfFanout ------------------------------
(***************************************************************************)
(* PerfFanout for TLC: two rows, or none, for the throughput and errors,   *)
(* a counter of one method, a field nobody asked for, and a latency of     *)
(* which one percentile comes twice.                                       *)
(***************************************************************************)
EXTENDS PerfFanout

Result(field, value, tags) == [field |-> field, value |-> value, tags |-> tags]
NoTags == [c \in {} |-> ""]

Bytes == {Result("total_read_requests_size", 1, NoTags),
          Result("total_write_requests_size", 2, NoTags)}
Requests == {Result("failed_request_counter", 1, NoTags), Result("other", 1, NoTags)}
Errors == {Result("system_errors", 1, [head |-> "S3"]),
           Result("system_errors", 1, NoTags),
           Result("user_errors", 2, [head |-> "S3"])}

UpToTwo(rs) == UNION {[1..n -> rs] : n \in 0..2}

P50 == Result("p50", 20, NoTags)
P99 == Result("p99", 90, NoTags)

MCQueries == {"throughput", "readTPS", "readLatency", "errors"}
MCAnswers ==
  [q \in MCQueries |->
     CASE q = "throughput" -> {<<>>} \cup (Bytes \X Bytes)
       [] q = "readTPS" -> UpToTwo(Requests) \ {<<>>}
       [] q = "readLatency" -> {<<P99>>, <<P99, P50, P50>>}
       [] q = "errors" -> {<<>>} \cup (Errors \X Errors)]
===============================================================================
