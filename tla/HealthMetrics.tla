----------------------------- MODULE HealthMetrics -----------------------------
(***************************************************************************)
(* What the process tells of itself: HealthChecker of yma-health, which    *)
(* asks its checks one after the other, and the metrics of yma-metrics,    *)
(* counters in a registry the whole process shares and a middleware around *)
(* every request.                                                          *)
(***************************************************************************)
EXTENDS Naturals, Sequences, SequencesExt, FiniteSets

CONSTANTS
  Checks,                 (* the checks, a sequence of "db" and "redis"    *)
  Latencies,              (* how long a database may take, in ms           *)
  Requests,               (* the requests under way at once                *)
  MetricNames, Registries,
  MaxRequests             (* bound on the requests served                  *)

ASSUME HealthBounds ==
  /\ Checks \in Seq({"db", "redis"})
  /\ IsFiniteSet(Requests) /\ MaxRequests \in Nat

VARIABLES
  answers,                (* the items of the check_all under way          *)
  passed, failed,         (* history: how often a check passed and failed  *)
  health,                 (* the status it returned last                   *)
  request,                (* request[r]: "none" or "running"               *)
  total,                  (* HTTP_REQUESTS_TOTAL                           *)
  active_connections,     (* ACTIVE_CONNECTIONS                            *)
  dropped,                (* history: requests dropped before their answer *)
  registered,             (* prometheus's default registry: name -> owner  *)
  held                    (* held[g]: the names of MetricsRegistry g       *)

healthVars == <<answers, passed, failed, health, request, total,
                active_connections, dropped, registered, held>>

HealthInit ==
  /\ answers = <<>>
  /\ passed = 0
  /\ failed = 0
  /\ health = "unknown"
  /\ request = [r \in Requests |-> "none"]
  /\ total = 0
  /\ active_connections = 0
  /\ dropped = 0
  /\ registered = {}
  /\ held = [g \in Registries |-> {}]

metricVars == <<request, total, active_connections, dropped, registered, held>>

-----------------------------------------------------------------------------
(***************************************************************************)
(* The checks.  A database that is reached late has failed; redis answers  *)
(* within 3 seconds, with PONG, or has failed.                             *)
(***************************************************************************)
DatabaseCheck(reached, latency) ==
  IF reached /\ latency <= 5000 THEN "pass" ELSE "fail"

RedisCheck(reply) == IF reply = "PONG" THEN "pass" ELSE "fail"

Passes(results) == Cardinality({i \in DOMAIN results : results[i] = "pass"})

Overall(results) ==
  LET passes == Passes(results)
      fails  == Len(results) - passes
  IN  CASE results = <<>> \/ fails = 0 -> "ok"
        [] fails > 0 /\ passes > 0 -> "degraded"
        [] results # <<>> /\ passes = 0 -> "down"

\* check_all awaits the checks one by one; the system changes meanwhile.
CheckNext ==
  /\ Len(answers) < Len(Checks)
  /\ \E result \in IF Checks[Len(answers) + 1] = "db"
                   THEN {DatabaseCheck(r, l) : r \in BOOLEAN, l \in Latencies}
                   ELSE {RedisCheck(r) : r \in {"PONG", "other", "error", "timeout"}} :
       /\ answers' = Append(answers, result)
       /\ passed' = IF result = "pass" THEN passed + 1 ELSE passed
       /\ failed' = IF result = "fail" THEN failed + 1 ELSE failed
  /\ UNCHANGED <<health, metricVars>>

CheckAllReturns ==
  /\ Len(answers) = Len(Checks)
  /\ health' = Overall(answers)
  /\ UNCHANGED <<answers, passed, failed, metricVars>>

CheckAllAgain ==
  /\ health # "unknown"
  /\ answers' = <<>>
  /\ passed' = 0
  /\ failed' = 0
  /\ health' = "unknown"
  /\ UNCHANGED metricVars

-----------------------------------------------------------------------------
(***************************************************************************)
(* metrics_middleware.  A request whose future is dropped while it awaits  *)
(* next.run, for instance because its client went away, is not counted     *)
(* out again.                                                              *)
(***************************************************************************)
RequestBegins(r) ==
  /\ request[r] = "none"
  /\ total < MaxRequests
  /\ total' = total + 1
  /\ active_connections' = active_connections + 1
  /\ request' = [request EXCEPT ![r] = "running"]
  /\ UNCHANGED <<answers, passed, failed, health, dropped, registered, held>>

RequestEnds(r) ==
  /\ request[r] = "running"
  /\ active_connections' = active_connections - 1
  /\ request' = [request EXCEPT ![r] = "none"]
  /\ UNCHANGED <<answers, passed, failed, health, total, dropped, registered, held>>

RequestDropped(r) ==
  /\ request[r] = "running"
  /\ request' = [request EXCEPT ![r] = "none"]
  /\ dropped' = dropped + 1
  /\ UNCHANGED <<answers, passed, failed, health, total, active_connections,
                 registered, held>>

\* register_counter, register_gauge, register_histogram: the name is taken in
\* the process's registry first, and refused there if it is taken already.
RegisterMetric(g, name) ==
  /\ name \notin registered
  /\ registered' = registered \cup {name}
  /\ held' = [held EXCEPT ![g] = @ \cup {name}]
  /\ UNCHANGED <<answers, passed, failed, health, request, total,
                 active_connections, dropped>>

HealthNext ==
  \/ CheckNext
  \/ CheckAllReturns
  \/ CheckAllAgain
  \/ \E r \in Requests : RequestBegins(r) \/ RequestEnds(r) \/ RequestDropped(r)
  \/ \E g \in Registries, name \in MetricNames : RegisterMetric(g, name)

-----------------------------------------------------------------------------
HealthTypeOK ==
  /\ answers \in Seq({"pass", "fail"}) /\ Len(answers) <= Len(Checks)
  /\ passed \in Nat /\ failed \in Nat /\ passed + failed = Len(answers)
  /\ health \in {"unknown", "ok", "degraded", "down"}
  /\ request \in [Requests -> {"none", "running"}]
  /\ active_connections \in Nat /\ total \in Nat /\ dropped \in Nat
  /\ held \in [Registries -> SUBSET MetricNames]

\* The gauge of active connections shows the requests that are running, and
\* those that were dropped and that it goes on showing for ever; the service is
\* down only when every check failed and ok only when none did; no metric
\* belongs to two registries.
ReportsAreTrue ==
  /\ active_connections =
       Cardinality({r \in Requests : request[r] = "running"}) + dropped
  /\ health = "down" <=> health # "unknown" /\ passed = 0 /\ failed > 0
  /\ health = "ok" <=> health # "unknown" /\ failed = 0
  /\ \A g, h \in Registries : g # h => held[g] \cap held[h] = {}

(***************************************************************************)
(* What the proof in SystemProofs needs: the counts are those of the       *)
(* answers, the status is made of all of them, and a metric is held where  *)
(* it was registered only.                                                 *)
(***************************************************************************)
CountsAreRight ==
  /\ passed = Passes(answers)
  /\ health # "unknown" => health = Overall(answers) /\ Len(answers) = Len(Checks)

MetricsAreHeld ==
  /\ \A g \in Registries : held[g] \subseteq registered
  /\ \A g, h \in Registries : g # h => held[g] \cap held[h] = {}

GaugeCounts ==
  active_connections = Cardinality({r \in Requests : request[r] = "running"}) + dropped

HealthInv == HealthTypeOK /\ CountsAreRight /\ MetricsAreHeld /\ GaugeCounts

HealthSpec == HealthInit /\ [][HealthNext]_healthVars
=============================================================================
