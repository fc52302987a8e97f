-------------------------------- MODULE ProbeRun --------------------------------
(***************************************************************************)
(* One /probe scrape (internal/collector/probe.go): the requested          *)
(* collectors run in order, share the memoized answers of GetLocalZone and *)
(* GetNodes, register what they collected, and their success is reported.  *)
(* What is refused (a descriptor registered twice, a series gathered       *)
(* twice, a label value that is not UTF-8) is what client_golang refuses.  *)
(***************************************************************************)
EXTENDS Naturals, Sequences

CONSTANTS Requests,   \* what the collectors parameter asks for: sequences of names
          NotUTF8     \* the names that are not valid UTF-8: a URL can hold any bytes

DefaultCollectors == <<"cluster", "replication", "node", "perf">>
Known == {"cluster", "replication", "node", "perf", "metering"}

ASSUME RequestsAssumption ==
  /\ \A r \in Requests : r \in Seq(STRING)
  /\ NotUTF8 \cap Known = {}

\* The memoized calls, and what a call comes to.
APIs == {"localZone", "nodes"}
Results == {"ok", "err"}

\* A collector's descriptors, told apart as the one that is always there (if
\* any is) and the rest.
Descs == {"base", "rest"}

VARIABLES
  dtStats,     \* Settings.DTStatsEnabled
  request,     \* the names to run
  next,        \* the loop index
  memo,        \* what sync.OnceValues holds
  calls,       \* requests sent for each API
  report,      \* <<name, success>> for each collector that has run
  registered,  \* <<name, descriptor>> pairs in the registry
  doubled,     \* collectors whose metrics have a series twice
  vdcs,        \* vdc labels of the registered metrics
  outcome      \* running, 200, 500, or aborted by a panic

settings == <<dtStats, request>>
registry == <<registered, doubled, vdcs>>
vars == <<settings, next, memo, calls, report, registry, outcome>>

Init ==
  /\ dtStats \in BOOLEAN
  /\ request \in Requests
  /\ next = 1
  /\ memo = [a \in APIs |-> "unset"]
  /\ calls = [a \in APIs |-> 0]
  /\ report = <<>>
  /\ registered = {} /\ doubled = {} /\ vdcs = {}
  /\ outcome = "running"

-------------------------------------------------------------------------------
\* The bug of fetching anew each time.
FetchAnew(r) ==
  /\ memo' = [a \in APIs |-> IF a \in DOMAIN r THEN r[a] ELSE memo[a]]
  /\ calls' = [a \in APIs |-> IF a \in DOMAIN r THEN calls[a] + 1 ELSE calls[a]]

\* sync.OnceValues: the first use of an API sends the request, and every use
\* gets its value, or its error.  r gives the answers one step uses.
Fetch(r) ==
  /\ \A a \in DOMAIN r : memo[a] \in {"unset", r[a]}
  /\ memo' = [a \in APIs |-> IF a \in DOMAIN r THEN r[a] ELSE memo[a]]
  /\ calls' = [a \in APIs |->
                 IF a \in DOMAIN r /\ memo[a] = "unset" THEN calls[a] + 1 ELSE calls[a]]

NoFetch == UNCHANGED <<memo, calls>>

Running(name) ==
  outcome = "running" /\ next <= Len(request) /\ request[next] = name

Report(success) ==
  /\ report' = Append(report, <<request[next], success>>)
  /\ next' = next + 1
  /\ UNCHANGED settings

\* The bug of registering on the way to an error.
FailRegistered ==
  /\ Report(FALSE)
  /\ registered' = registered \cup {<<request[next], "base">>}
  /\ UNCHANGED <<doubled, vdcs, outcome>>

\* The collector returned an error: nothing of it is registered.
Fail == Report(FALSE) /\ UNCHANGED <<registry, outcome>>

\* registry.MustRegister panics on a descriptor it already has, and the panic
\* takes the whole handler with it; a collector without metrics has none.  It
\* takes metrics with a series twice (twice): gathering them is what fails.
Register(ds, labels, twice) ==
  LET mine == {request[next]} \X ds
  IN  IF mine \cap registered # {}
      THEN outcome' = "aborted" /\ UNCHANGED <<settings, next, report, registry>>
      ELSE /\ registered' = registered \cup mine
           /\ doubled' = IF twice /\ ds # {} THEN doubled \cup {request[next]} ELSE doubled
           /\ vdcs' = IF ds = {} THEN vdcs ELSE vdcs \cup labels
           /\ Report(TRUE)
           /\ UNCHANGED outcome

-------------------------------------------------------------------------------
\* collectCluster: only the local zone is needed; the nodes give a version.
ClusterFails ==
  /\ Running("cluster")
  /\ Fetch([a \in {"localZone"} |-> "err"])
  /\ Fail

ClusterRegisters ==
  /\ Running("cluster")
  /\ \E nodes \in Results :
       Fetch([a \in APIs |-> IF a = "localZone" THEN "ok" ELSE nodes])
  /\ \E rest \in SUBSET {"rest"} : Register({"base"} \cup rest, {"zone"}, FALSE)

\* collectReplication and collectMetering: one list call, then best effort.  An
\* object the API lists twice has its series twice; so have nodes with the same
\* management IP, and the Flux rows PerfFanout tells of.
Lists ==
  /\ Running("replication") \/ Running("metering")
  /\ NoFetch
  /\ Fail \/ \E ds \in SUBSET Descs, twice \in BOOLEAN : Register(ds, {}, twice)

\* collectNode: nothing when disabled, else the nodes are needed.
NodeDisabled ==
  /\ Running("node") /\ ~dtStats
  /\ NoFetch
  /\ Report(TRUE)
  /\ UNCHANGED <<registry, outcome>>

NodeFails ==
  /\ Running("node") /\ dtStats
  /\ Fetch([a \in {"nodes"} |-> "err"])
  /\ Fail

NodeRegisters ==
  /\ Running("node") /\ dtStats
  /\ Fetch([a \in {"nodes"} |-> "ok"])
  /\ \E ds \in {{}, Descs}, twice \in BOOLEAN : Register(ds, {}, twice)

\* collectPerf: without the local zone the vdc label is "unknown".
Perf ==
  /\ Running("perf")
  /\ \E lz \in Results :
       /\ Fetch([a \in {"localZone"} |-> lz])
       /\ \/ Fail
          \/ \E ds \in SUBSET Descs, twice \in BOOLEAN :
               Register(ds, {IF lz = "ok" THEN "zone" ELSE "unknown"}, twice)

\* Probe's Registry does not have the name.
RunningUnknown ==
  outcome = "running" /\ next <= Len(request) /\ request[next] \notin Known

\* The bugs of giving up on a name that is not known, and of passing over it.
UnknownAborts ==
  /\ RunningUnknown
  /\ outcome' = "500"
  /\ UNCHANGED <<settings, next, memo, calls, report, registry>>

UnknownSkipped ==
  /\ RunningUnknown
  /\ next' = next + 1
  /\ UNCHANGED <<settings, memo, calls, report, registry, outcome>>

\* It is reported as a failure ...
Unknown ==
  /\ RunningUnknown /\ request[next] \notin NotUTF8
  /\ NoFetch
  /\ Fail

\* ... unless it cannot be a label value: then MustNewConstMetric panics, and the
\* panic takes the whole handler with it.  (A known name always can.)
UnknownPanics ==
  /\ RunningUnknown /\ request[next] \in NotUTF8
  /\ outcome' = "aborted"
  /\ UNCHANGED <<settings, next, memo, calls, report, registry>>

\* Two series obs_scrape_success{collector} with the same name.
Repeated(rep) ==
  \E i, j \in 1..Len(rep) : i # j /\ rep[i][1] = rep[j][1]

\* The reports are registered and promhttp gathers: a series collected twice
\* is a 500 without metrics.
Respond ==
  /\ outcome = "running" /\ next > Len(request)
  /\ outcome' = IF Repeated(report) \/ doubled # {} THEN "500" ELSE "200"
  /\ UNCHANGED <<settings, next, memo, calls, report, registry>>

Next ==
  \/ ClusterFails \/ ClusterRegisters \/ Lists
  \/ NodeDisabled \/ NodeFails \/ NodeRegisters
  \/ Perf \/ Unknown \/ UnknownPanics \/ Respond

Spec == Init /\ [][Next]_vars

-------------------------------------------------------------------------------
\* The values the code can give each variable; the loop has reported on every
\* name it has passed.
TypeOK ==
  /\ dtStats \in BOOLEAN /\ request \in Requests
  /\ next \in 1..Len(request) + 1
  /\ memo \in [APIs -> {"unset"} \cup Results]
  /\ calls \in [APIs -> Nat]
  /\ Len(report) = next - 1
  /\ registered \subseteq Known \X Descs
  /\ doubled \subseteq {r[1] : r \in registered}
  /\ vdcs \subseteq {"zone", "unknown"}
  /\ outcome \in {"running", "200", "500", "aborted"}

\* A scrape sends GetLocalZone and GetNodes once at most, whatever collectors
\* run and however the first use ended (probe.go:47-51).
FetchedOnce == \A a \in APIs : calls[a] <= 1

\* All the metrics of a scrape carry one vdc label: perf never says "unknown"
\* next to cluster's real name (perf.go:229-232, cluster.go:75-79).
OneVdcLabel == \A u, v \in vdcs : u = v

\* A response has one report per requested name, in order, and a failed
\* collector has left no metrics in it while a successful one is never undone
\* by a later failure (probe.go:120-135).
ReportsEveryName ==
  outcome = "200" =>
    /\ Len(report) = Len(request)
    /\ \A i \in 1..Len(request) :
         /\ report[i][1] = request[i]
         /\ report[i][2] \/ \A d \in Descs : <<request[i], d>> \notin registered

AskedTwice(names) ==
  \E i, j \in 1..Len(request) : i # j /\ request[i] = request[j] /\ request[i] \in names

Unlabelable == \E i \in 1..Len(request) : request[i] \in NotUTF8

\* Whatever fails and whatever names are unknown, the scrape is answered with its
\* metrics unless client_golang refuses them, and each refusal has its own cause.
\* Only a collector asked for twice, or a name that is not UTF-8, aborts it; only a
\* name asked for twice, or an answer of the API that makes a series come twice,
\* makes it a 500; and none of these is ever answered as if nothing were wrong
\* (probe.go:142-161, node.go:67-82).
AnsweredUnlessRefused ==
  /\ outcome = "aborted" => AskedTwice(Known) \/ Unlabelable
  /\ outcome = "500" => (AskedTwice(STRING) \/ doubled # {}) /\ ~Unlabelable
  /\ outcome = "200" => ~AskedTwice(STRING) /\ doubled = {} /\ ~Unlabelable

\* probe.go:129-132: an unknown name is recorded as a failure and never fails or
\* aborts the rest of the scrape.
UnknownFailsNothingElse ==
  outcome \in {"500", "aborted"} => \A i \in 1..Len(request) : request[i] \in Known
===============================================================================
