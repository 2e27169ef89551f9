------------------------------ MODULE Telemetry ------------------------------
(***************************************************************************)
(* What a process measures of itself and what its heartbeat makes of it:   *)
(* the counters and summaries of InMemoryMetrics (and of Metrics, the same *)
(* with typed results), written by the adapter's RPC and event wrappers,   *)
(* and ServiceHeartbeatUseCase, which turns them into a health score.      *)
(*                                                                         *)
(* Durations are in units of 100 ms.  Aggregates has the use case with its *)
(* awaits and failures; here it is one step, since it judges the metrics   *)
(* it was called with.                                                     *)
(***************************************************************************)
EXTENDS Naturals, Sequences, FiniteSets, SequencesExt

CONSTANTS
  Request,     \* RPC requests being served or made at a time
  Latencies,   \* how long one may take
  MaxTimed,    \* bound: values recorded since the last reset
  MaxOthers    \* bound: what others count as success or error since then

ASSUME TelemetryAssumption == Latencies \subseteq Nat /\ {MaxTimed, MaxOthers} \subseteq Nat

(* Served: rpc.<service>.<method>; Called: rpc.client.<service>.<method>.  *)
Timer == {"served", "called"}
(* Others end their counters the same way: the bucket (kv.put.success,     *)
(* kv.put.error, kv.connect.error), the election (election.leadership      *)
(* .error) and the use cases (sticky_active.heartbeat.success, .error).    *)
(* Events are counted by type when processed, under one name when not.     *)
Counter ==
  ((Timer \cup {"others"}) \X {"success", "error", "timeout"})
    \cup {<<"events", "processed by type">>, <<"events", "errors">>}

VARIABLES
  counters,  \* of InMemoryMetrics
  summary,   \* timer -> MetricsSummary
  doing,     \* request -> where it is
  unheard,   \* history: requests served since the reset that got no answer
  health     \* ServiceAggregate.status

telemetryVars == <<counters, summary, doing, unheard, health>>

(* MetricsSummary: kept as values come.  Lowest is larger than any value.  *)
Lowest == 1000
NoValues == [count |-> 0, total |-> 0, min |-> Lowest, max |-> 0, values |-> << >>]
Smaller(a, b) == IF a < b THEN a ELSE b
Larger(a, b) == IF a > b THEN a ELSE b
AddValue(s, v) ==
  [count |-> s.count + 1, total |-> s.total + v, min |-> Smaller(s.min, v),
   max |-> Larger(s.max, v), values |-> Append(s.values, v)]

(* The value at p% of the sorted ones, or the last.                        *)
Percentile(s, p) ==
  IF s.count = 0 THEN 0
  ELSE SortSeq(s.values, <)[Smaller((p * s.count) \div 100, s.count - 1) + 1]

TelemetryTypeOK ==
  /\ counters \in [Counter -> Nat]
  /\ \A t \in Timer :
       /\ summary[t].values \in SeqOf(Latencies, MaxTimed)
       /\ {summary[t].count, summary[t].total} \subseteq Nat
       /\ summary[t].min \in Latencies \cup {Lowest} /\ summary[t].max \in Latencies \cup {0}
  /\ doing \in [Request -> {"idle", "handling", "answering", "refusing", "calling"}]
  /\ unheard \in Nat /\ health \in {"ACTIVE", "STANDBY", "UNHEALTHY"}

TelemetryInit ==
  /\ counters = [c \in Counter |-> 0] /\ summary = [t \in Timer |-> NoValues]
  /\ doing = [r \in Request |-> "idle"] /\ unheard = 0
  /\ health \in {"ACTIVE", "STANDBY"}

Timed == summary["served"].count + summary["called"].count
Go(r, place) == doing' = [doing EXCEPT ![r] = place]
Count(c) == counters' = [counters EXCEPT ![c] = @ + 1]
(* The timer's finally: whatever the outcome.                              *)
Time(t, v) == summary' = [summary EXCEPT ![t] = AddValue(@, v)]

-----------------------------------------------------------------------------
BeginRequest(r) ==
  /\ doing[r] = "idle" /\ \E place \in {"handling", "calling"} : Go(r, place)
  /\ UNCHANGED <<counters, summary, unheard, health>>

HandlerEnds(r) ==
  /\ doing[r] = "handling" /\ \E place \in {"answering", "refusing"} : Go(r, place)
  /\ UNCHANGED <<counters, summary, unheard, health>>

(* The answer is sent, then counted; where sending it fails the refusal is *)
(* sent, and where that fails too nothing is counted, but timed.           *)
Answer(r) ==
  /\ doing[r] = "answering"
  /\ \/ Go(r, "refusing") /\ UNCHANGED <<counters, summary>>
     \/ /\ Timed < MaxTimed /\ \E v \in Latencies : Time("served", v)
        /\ Go(r, "idle") /\ Count(<<"served", "success">>)
  /\ UNCHANGED <<unheard, health>>

RefuseRequest(r) ==
  /\ doing[r] = "refusing" /\ Timed < MaxTimed
  /\ Go(r, "idle") /\ \E v \in Latencies : Time("served", v)
  /\ \/ Count(<<"served", "error">>) /\ UNCHANGED unheard
     \/ unheard' = unheard + 1 /\ UNCHANGED counters
  /\ UNCHANGED health

(* call_rpc: an answer is a success whatever it says.                      *)
CallEnds(r) ==
  /\ doing[r] = "calling" /\ Timed < MaxTimed
  /\ Go(r, "idle") /\ \E v \in Latencies : Time("called", v)
  /\ \E how \in {"success", "error", "timeout"} : Count(<<"called", how>>)
  /\ UNCHANGED <<unheard, health>>

(* One of each is enough to tell them from none.                           *)
HandleEvent ==
  /\ \E c \in {<<"events", "processed by type">>, <<"events", "errors">>} :
       counters[c] = 0 /\ Count(c)
  /\ UNCHANGED <<summary, doing, unheard, health>>

(* A create of a key that exists, as each lost race for leadership, is an  *)
(* error to the bucket alone; where creating the leader key fails for      *)
(* another reason the election counts one more.                            *)
OthersCount ==
  /\ \E how \in {"success", "error"}, n \in 1 .. 2 :
       /\ how = "success" => n = 1
       /\ counters[<<"others", "success">>] + counters[<<"others", "error">>] + n <= MaxOthers
       /\ counters' = [counters EXCEPT ![<<"others", how>>] = @ + n]
  /\ UNCHANGED <<summary, doing, unheard, health>>

ResetMetrics ==
  /\ counters' = [c \in Counter |-> 0] /\ summary' = [t \in Timer |-> NoValues]
  /\ unheard' = 0
  /\ UNCHANGED <<doing, health>>

-----------------------------------------------------------------------------
(* calculate_health_score as a fraction: what ends in .success or .error   *)
(* counts, whoever counted it; timeouts do not; and "events.processed" is  *)
(* a name nothing counts under, so one failed event is all of them.        *)
Ending(how) ==
  counters[<<"served", how>>] + counters[<<"called", how>>] + counters[<<"others", how>>]
Fraction(top, bottom) == [top |-> top, bottom |-> bottom]
Rate ==
  LET good == Ending("success") bad == Ending("error")
  IN IF good + bad = 0 THEN Fraction(1, 1) ELSE Fraction(good, good + bad)
EventRate == IF counters[<<"events", "errors">>] = 0 THEN 1 ELSE 0
Penalty(t) ==
  LET p99 == Percentile(summary[t], 99)
  IN IF p99 > 10 THEN 8 ELSE IF p99 > 5 THEN 9 ELSE 10
Score ==
  Fraction(Rate.top * EventRate * Penalty("served") * Penalty("called"), Rate.bottom * 100)
(* Mutant of Healthy: half is enough.                                      *)
HealthyAtHalf == 2 * Score.top >= Score.bottom
Healthy == 2 * Score.top > Score.bottom

(* The heartbeat itself makes an unhealthy service active; then the score  *)
(* decides.  The time since the heartbeat just recorded is never too long. *)
Heartbeat ==
  /\ health' = IF ~Healthy THEN "UNHEALTHY"
               ELSE IF health = "UNHEALTHY" THEN "ACTIVE" ELSE health
  /\ UNCHANGED <<counters, summary, doing, unheard>>

TelemetryNext ==
  \/ \E r \in Request : BeginRequest(r) \/ HandlerEnds(r) \/ Answer(r)
                          \/ RefuseRequest(r) \/ CallEnds(r)
  \/ HandleEvent \/ OthersCount \/ ResetMetrics \/ Heartbeat
-----------------------------------------------------------------------------
Occurs(s, P(_)) == Cardinality({i \in DOMAIN s.values : P(s.values[i])})

(* What a summary says is what was recorded: the extremes are values that  *)
(* bound all, the average lies between them, and more than p% of the       *)
(* values are no larger than the p-th percentile, which is one of them.    *)
SummaryTells ==
  \A t \in Timer : LET s == summary[t] IN s.count > 0 =>
    /\ {s.min, s.max} \subseteq Latencies /\ s.count = Len(s.values)
    /\ s.min * s.count <= s.total /\ s.total <= s.max * s.count
    /\ \A p \in {50, 90, 99} : LET q == Percentile(s, p) IN
         /\ s.min <= q /\ q <= s.max
         /\ Occurs(s, LAMBDA v : v <= q) * 100 > p * s.count

(* Every request served since the last reset is timed once and is either a *)
(* success, an error or one nobody could be told about, also where the     *)
(* reset came while it was served.                                         *)
TimedOnce ==
  summary["served"].count =
    counters[<<"served", "success">>] + counters[<<"served", "error">>] + unheard

NoHigher(a, b) == a.top * b.bottom <= b.top * a.bottom
Failed ==
  \E who \in Timer \cup {"others"} : counters'[<<who, "error">>] > counters[<<who, "error">>]
(* A failure never improves the score, although it may have been quick, or *)
(* be one of the bucket's that took no request's time: for as long as a    *)
(* summary holds 100 values or less.                                       *)
ScoreFalls == [][Failed => NoHigher(Score', Score)]_telemetryVars

(* A heartbeat leaves a service healthy only where more was counted as     *)
(* success than as error, by whomever, or nothing, and no event failed.    *)
HealthIsEarned ==
  [][Heartbeat /\ health' # "UNHEALTHY" =>
       /\ Ending("success") > Ending("error") \/ Ending("error") = 0
       /\ counters[<<"events", "errors">>] = 0]_telemetryVars

(* A heartbeat makes a service unhealthy only where something was counted  *)
(* as an error, and not less of it than of success unless an event failed  *)
(* or answers were slow: two lost races for leadership and one success     *)
(* are enough.  Slow answers alone are not, with two methods, or three.    *)
UnhealthyHasCause ==
  [][Heartbeat /\ health' = "UNHEALTHY" =>
       \/ counters[<<"events", "errors">>] > 0
       \/ /\ Ending("error") > 0
          /\ \/ Ending("error") >= Ending("success")
             \/ \E t \in Timer : summary[t].max > 5]_telemetryVars

(* The types, the summaries, and the verdict of the heartbeat on them.     *)
TelemetrySound ==
  [](TelemetryTypeOK /\ SummaryTells /\ TimedOnce)
    /\ ScoreFalls /\ HealthIsEarned /\ UnhealthyHasCause
=============================================================================
