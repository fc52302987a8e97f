-------------------------------- MODULE Decoding --------------------------------
(***************************************************************************)
(* From the JSON bodies of the dashboard and metering APIs to series: the  *)
(* FlexNumber of internal/obsclient/types.go and what the cluster,         *)
(* replication and metering collectors make of their fields.  A metric is  *)
(* <<series, v, exp>> for the value v * 10^exp, a series <<name, label,    *)
(* label>> with "" for a label it has not.                                 *)
(***************************************************************************)
EXTENDS Integers, Sequences

\* A JSON value: its form, and the number its text (without the quotes) parses
\* as, if it does; a missing field, null and "" are forms of their own.
Missing == [form |-> "missing", number |-> {}]
Null == [form |-> "null", number |-> {}]
EmptyString == [form |-> "empty", number |-> {}]
Textless == {"missing", "null", "empty"}
Texts == {"bare", "quoted"}
Bare(v) == [form |-> "bare", number |-> {v}]
Quoted(v) == [form |-> "quoted", number |-> {v}]
Junk == [form |-> "quoted", number |-> {}]

\* FlexNumber.UnmarshalJSON: the text, quoted or not; null, and a field it is
\* not called for, leave the empty string.
UnmarshalJSON(json) ==
  [empty |-> json.form \in Textless, number |-> json.number]

\* The bug of a plain zero for the empty string.
FloatOrZero(flex) == IF flex.empty THEN {0} ELSE flex.number

\* Float64: the value, or none (ErrMissing, or ParseFloat's error).
Float64(flex) == IF flex.empty THEN {} ELSE flex.number

\* A field is a sequence of samples: FirstCount and FirstSpace read the first
\* one, the present; a field that is no array is a sequence of one.
First(samples) ==
  IF samples = <<>> THEN {} ELSE Float64(UnmarshalJSON(samples[1]))

\* A table says which field gives a series, and in which unit.
Row(name, label, field, exp) == [name |-> name, label |-> label, field |-> field, exp |-> exp]
SeriesOfRow(r) == <<r.name, r.label, "">>

\* A series for every field with a value, whatever the other fields have.
SeriesOf(table, body) ==
  UNION {{<<SeriesOfRow(r), v, r.exp>> : v \in First(body[r.field])} : r \in table}

GB == 9
KB == 3
Milli == -3

-------------------------------------------------------------------------------
ClusterTable == {
  Row("nodes", "good", "numGoodNodes", 0),
  Row("nodes", "bad", "numBadNodes", 0),
  Row("disks", "good", "numGoodDisks", 0),
  Row("disks", "bad", "numBadDisks", 0),
  Row("capacity_total", "", "diskSpaceTotalCurrent", GB),
  Row("capacity_free", "", "diskSpaceFreeCurrent", GB),
  Row("alerts", "critical", "alertsNumUnackCritical", 0),
  Row("alerts", "error", "alertsNumUnackError", 0),
  Row("alerts", "info", "alertsNumUnackInfo", 0),
  Row("alerts", "warning", "alertsNumUnackWarning", 0) }

\* inferProduct: by the first component of the version.
InferProduct(version) ==
  CASE version[1] = "3." -> "ecs"
    [] version[1] = "4." -> "objectscale"
    [] OTHER -> "unknown"

\* The version of the first node; GetNodes may have failed ({}).
VersionOf(nodes) ==
  IF \E ns \in nodes : ns # <<>> THEN (CHOOSE ns \in nodes : TRUE)[1] ELSE <<"", "unknown">>

\* collectCluster: the local zone's series, and one that is always there.
ClusterMetrics(localZone, nodes) ==
  SeriesOf(ClusterTable, localZone) \cup
    {<<<<"info", VersionOf(nodes), InferProduct(VersionOf(nodes))>>, 1, 0>>}

ReplicationTable == {
  Row("ingress", "", "replicationIngressTraffic", 0),
  Row("egress", "", "replicationEgressTraffic", 0),
  Row("pending_repo", "", "chunksRepoPendingReplicationTotalSize", 0),
  Row("pending_journal", "", "chunksJournalPendingReplicationTotalSize", 0),
  Row("pending_xor", "", "chunksPendingXorTotalSize", 0),
  Row("rpo_timestamp", "", "replicationRpoTimestamp", Milli) }

QuotaTable == {
  Row("quota", "block", "blockSize", GB),
  Row("quota", "notification", "notificationSize", GB) }

\* The bug of a quota for every block size.
QuotaMetricsOfZero(quota) == SeriesOf(QuotaTable, quota)

\* meteringNamespaceMetrics: a block size of zero stands for no quota at all,
\* and takes the notification size with it.
QuotaMetrics(quota) ==
  IF \E v \in First(quota["blockSize"]) : v > 0 THEN SeriesOf(QuotaTable, quota) ELSE {}

BillingTable == {
  Row("used", "", "total_size", KB),
  Row("objects", "", "total_objects", 0) }
===============================================================================
