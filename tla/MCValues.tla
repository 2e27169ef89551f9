------------------------------ MODULE MCValues ------------------------------
(***************************************************************************)
(* What the SDK calculates and measures, for TLC: ElectionAggregate,       *)
(* Waiting, Names, ValueTypes and Telemetry.  They share no state, so each *)
(* behaviour is one of one of them: focus says which.                      *)
(***************************************************************************)
EXTENDS ElectionAggregate, Waiting, Names, ValueTypes, Telemetry

VARIABLE focus

(* Plain names, and names that make a key ambiguous.                       *)
MCName ==
  {<<"x">>, <<"X">>, <<"p">>, <<"y", Underscore, "y">>, <<"x", Underscore>>,
   <<"x", Underscore, Underscore, "y">>, <<"x", Period, "x">>}
MCReserved == <<"p">>

calculated == <<aggregateVars, waitVars, nameVars>>
valueVars == <<calculated, valueTypeVars, telemetryVars, focus>>

(* What the modules that are not in focus could begin with matters not.    *)
Init ==
  /\ focus \in {"aggregate", "retries", "failover", "names", "versions", "times",
               "telemetry"}
  /\ AggregateInit /\ WaitInit /\ NamesInit /\ TypesInit /\ TelemetryInit
  /\ focus # "retries" =>
       /\ asked = [initial |-> Default, cap |-> Default, factor |-> 2, jitter |-> 1]
       /\ from = "given"
  /\ focus # "failover" => failover = WindowsOf(50, 10, 100)
  /\ focus # "versions" => version = VersionOf(0, 0, 0)
  /\ focus # "times" => stamp = Stamp(7200, 0)
  /\ focus # "telemetry" => health = "ACTIVE"

Calculate ==
  \/ focus = "aggregate" /\ AggregateNext /\ UNCHANGED <<waitVars, nameVars>>
  \/ /\ \/ focus = "retries" /\ RetryNext
        \/ focus = "failover" /\ FailoverNext
     /\ UNCHANGED <<aggregateVars, nameVars>>
  \/ focus = "names" /\ NamesNext /\ UNCHANGED <<aggregateVars, waitVars>>

Next ==
  /\ UNCHANGED focus
  /\ \/ Calculate /\ UNCHANGED <<valueTypeVars, telemetryVars>>
     \/ /\ \/ focus = "versions" /\ VersionNext
           \/ focus = "times" /\ TimeNext
        /\ UNCHANGED <<calculated, telemetryVars>>
     \/ focus = "telemetry" /\ TelemetryNext /\ UNCHANGED <<calculated, valueTypeVars>>

Spec == Init /\ [][Next]_valueVars
=============================================================================
