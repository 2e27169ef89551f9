------------------------------ MODULE Failover ------------------------------
(***************************************************************************)
(* The SDK's second election: FailoverMonitoringUseCase gives an instance  *)
(* a HeartbeatMonitor, which polls the leader key, and an                  *)
(* ElectionCoordinator, which start-up and the application ask to take the *)
(* key.  The monitor would ask it too, but never learns of a leader: it    *)
(* treats the entry it gets from the store as a dictionary, which fails.   *)
(*                                                                         *)
(* Each call of start_monitoring makes a new pair of the two; the use case *)
(* remembers the last one.  A step runs a coroutine from an await to the   *)
(* next.  The registry record is an output that nothing here reads, so its *)
(* update is an await and no more.                                         *)
(***************************************************************************)
EXTENDS Naturals

CONSTANTS
  Instance,    \* the instances of one group
  NoOne,       \* no instance
  MaxAttempts, \* max_attempts of _run_election
  MaxFailures, \* max_consecutive_failures of _monitor_loop
  MaxStarts,   \* bound: calls of start_monitoring for an instance
  MaxTroubles  \* bound: failing calls, elections cut off by a timeout,
               \* and expiries of the leader key, taken together

ASSUME FailoverAssumption ==
  /\ NoOne \notin Instance
  /\ MaxAttempts \in Nat \ {0} /\ MaxFailures \in Nat \ {0}
  /\ MaxStarts \in Nat /\ MaxTroubles \in Nat

Pair == Instance \X (1 .. MaxStarts)
Owner(p) == p[1]

VARIABLES
  key,      \* the instance_id under the leader key, or NoOne
  main,     \* where start_monitoring or stop_monitoring is
  current,  \* the pair in _monitors and _coordinators (0: none)
  starts,   \* the pairs made so far
  told,     \* what status_callback was told last (TRUE: active)
  monitor,  \* where _monitor_loop is
  bad,      \* consecutive_failures
  election, \* where _run_election is
  attempt,  \* its attempt
  state,    \* ElectionState.state
  faults, cuts, lapses

useVars == <<main, current, starts>>
monVars == <<monitor, bad>>
eleVars == <<election, attempt, state>>
vars == <<key, told, useVars, monVars, eleVars, faults, cuts, lapses>>

MainPlace == {"down", "idle", "check", "release", "delete", "tell",
              "publish"}
MonitorPlace == {"off", "look", "rest", "ended"}
ElectionPlace == {"none", "get", "put", "status", "publish"}

TypeOK ==
  /\ key \in Instance \cup {NoOne}
  /\ main \in [Instance -> MainPlace]
  /\ current \in [Instance -> 0 .. MaxStarts]
  /\ starts \in [Instance -> 0 .. MaxStarts]
  /\ told \in [Instance -> BOOLEAN]
  /\ monitor \in [Pair -> MonitorPlace]
  /\ bad \in [Pair -> 0 .. MaxFailures]
  /\ election \in [Pair -> ElectionPlace]
  /\ attempt \in [Pair -> 1 .. MaxAttempts]
  /\ state \in [Pair -> {"IDLE", "ELECTING", "ELECTED", "FAILED"}]
  /\ {faults, cuts, lapses} \subseteq 0 .. MaxTroubles

Init ==
  /\ key = NoOne
  /\ main = [i \in Instance |-> "down"]
  /\ current = [i \in Instance |-> 0]
  /\ starts = [i \in Instance |-> 0]
  /\ told = [i \in Instance |-> FALSE]
  /\ monitor = [p \in Pair |-> "off"]
  /\ bad = [p \in Pair |-> 0]
  /\ election = [p \in Pair |-> "none"]
  /\ attempt = [p \in Pair |-> 1]
  /\ state = [p \in Pair |-> "IDLE"]
  /\ faults = 0 /\ cuts = 0 /\ lapses = 0

Settled == faults + cuts + lapses = MaxTroubles  \* no more trouble to come

(* One more call fails; one more election is cut off. *)
Fault == ~Settled /\ faults' = faults + 1
Cut == ~Settled /\ cuts' = cuts + 1

Main(i, from, to) == main[i] = from /\ main' = [main EXCEPT ![i] = to]
Monitor(p, from, to) ==
  monitor[p] = from /\ monitor' = [monitor EXCEPT ![p] = to]

The(i) == <<i, current[i]>>     \* the pair the use case remembers

-----------------------------------------------------------------------------
(* ElectionCoordinator *)

(* start_election: refused while an election of this coordinator runs.     *)
StartElection(p) ==
  /\ election[p] = "none"
  /\ election' = [election EXCEPT ![p] = "get"]
  /\ attempt' = [attempt EXCEPT ![p] = 1]
  /\ state' = [state EXCEPT ![p] = "ELECTING"]

(* The election task ends. *)
ElectionEnds(p) ==
  /\ election' = [election EXCEPT ![p] = "none"]
  /\ attempt' = [attempt EXCEPT ![p] = 1]

ElectionGoesOn(p, place) == election' = [election EXCEPT ![p] = place]

AttemptLost(p) ==
  \/ /\ attempt[p] < MaxAttempts
     /\ attempt' = [attempt EXCEPT ![p] = @ + 1]
     /\ ElectionGoesOn(p, "get")
     /\ UNCHANGED state
  \/ /\ attempt[p] = MaxAttempts
     /\ state' = [state EXCEPT ![p] = "FAILED"]
     /\ ElectionEnds(p)

AttemptWon(p) ==
  /\ state' = [state EXCEPT ![p] = "ELECTED"]
  /\ ElectionGoesOn(p, "status")
  /\ UNCHANGED attempt

(* Mutants of LookBeforeCreate: any leader is taken for this instance; none is. *)
LookAndAgree(p) ==
  /\ election[p] = "get"
  /\ \/ key # NoOne /\ AttemptWon(p)
     \/ key = NoOne /\ ElectionGoesOn(p, "put") /\ UNCHANGED <<attempt, state>>
  /\ UNCHANGED <<key, told, faults, cuts, lapses>>
LookForOthers(p) ==
  /\ election[p] = "get"
  /\ \/ key # NoOne /\ AttemptLost(p)
     \/ key = NoOne /\ ElectionGoesOn(p, "put") /\ UNCHANGED <<attempt, state>>
  /\ UNCHANGED <<key, told, faults, cuts, lapses>>

(* _try_acquire_leadership: look at the key, then create it. *)
LookBeforeCreate(p) ==
  /\ election[p] = "get"
  /\ \/ key = Owner(p) /\ AttemptWon(p) /\ UNCHANGED faults
     \/ key \in Instance \ {Owner(p)} /\ AttemptLost(p) /\ UNCHANGED faults
     \/ key = NoOne /\ ElectionGoesOn(p, "put")
        /\ UNCHANGED <<attempt, state, faults>>
     \/ Fault /\ AttemptLost(p)
  /\ UNCHANGED <<key, told, cuts, lapses>>

(* Mutant of CreateKey: a plain put. *)
OverwriteKey(p) == key' = Owner(p)

CreateKey(p) == key = NoOne /\ key' = Owner(p)

(* A create that is reported as failed may have been carried out. *)
PutLeaderKey(p) ==
  /\ election[p] = "put"
  /\ \/ CreateKey(p) /\ AttemptWon(p) /\ UNCHANGED faults
     \/ key # NoOne /\ AttemptLost(p) /\ UNCHANGED <<key, faults>>
     \/ Fault /\ AttemptLost(p) /\ (CreateKey(p) \/ UNCHANGED key)
  /\ UNCHANGED <<told, cuts, lapses>>

(* After the registry update, _on_elected tells the application. *)
TellElected(p) ==
  /\ election[p] = "status"
  /\ told' = [told EXCEPT ![Owner(p)] = TRUE]
  /\ ElectionGoesOn(p, "publish")
  /\ UNCHANGED <<key, attempt, state, faults, cuts, lapses>>

ElectedPublished(p) ==
  /\ election[p] = "publish"
  /\ ElectionEnds(p)
  /\ UNCHANGED <<key, told, state, faults, cuts, lapses>>

(* wait_for gives up after max_election_time, whatever was reached; a      *)
(* create under way then may still be carried out.                         *)
ElectionTimesOut(p) ==
  /\ election[p] # "none" /\ Cut
  /\ \/ election[p] = "put" /\ CreateKey(p)
     \/ UNCHANGED key
  /\ state' = [state EXCEPT ![p] = "FAILED"]
  /\ ElectionEnds(p)
  /\ UNCHANGED <<told, faults>>

ElectionStep(p) ==
  /\ LookBeforeCreate(p) \/ PutLeaderKey(p) \/ TellElected(p)
       \/ ElectedPublished(p)
  /\ UNCHANGED <<useVars, monVars, lapses>>

-----------------------------------------------------------------------------
(* HeartbeatMonitor *)

(* The failures of a monitor add up: what would clear them is never        *)
(* reached.                                                                *)
RoundFails(p) ==
  /\ bad' = [bad EXCEPT ![p] = @ + 1]
  /\ monitor' = [monitor EXCEPT
                   ![p] = IF bad[p] + 1 >= MaxFailures THEN "ended" ELSE "rest"]

(* A round of _monitor_loop: with no leader there is nothing to do, and    *)
(* with one, be it this very instance, .get on the entry raises.           *)
LookAtLeader(p) ==
  \/ key = NoOne /\ Monitor(p, "look", "rest") /\ UNCHANGED <<bad, faults>>
  \/ /\ monitor[p] = "look" /\ RoundFails(p)
     /\ (key # NoOne /\ UNCHANGED faults) \/ Fault

(* The next round, after heartbeat_interval or the backoff. *)
NextRound(p) == Monitor(p, "rest", "look") /\ UNCHANGED <<bad, faults>>

MonitorStep(p) ==
  /\ LookAtLeader(p) \/ NextRound(p)
  /\ UNCHANGED <<key, told, useVars, eleVars, cuts, lapses>>

-----------------------------------------------------------------------------
(* FailoverMonitoringUseCase *)

(* start_monitoring overwrites a pair that is there: _monitoring_tasks,    *)
(* which it asks, is never filled.                                         *)
StartMonitoring(i) ==
  /\ main[i] \in {"down", "idle"}
  /\ starts[i] < MaxStarts
  /\ main' = [main EXCEPT ![i] = "check"]
  /\ starts' = [starts EXCEPT ![i] = @ + 1]
  /\ current' = [current EXCEPT ![i] = starts[i] + 1]
  /\ monitor' = [monitor EXCEPT ![<<i, starts[i] + 1>>] = "look"]
  /\ UNCHANGED <<key, told, bad, eleVars, faults, cuts, lapses>>

(* check_leadership asks whether this instance leads, not whether any does;*)
(* an error counts as no.                                                  *)
InitialElection(i) ==
  /\ Main(i, "check", "idle")
  /\ \/ key = i /\ UNCHANGED <<eleVars, faults>>
     \/ /\ (key # i /\ UNCHANGED faults) \/ Fault
        /\ \/ StartElection(The(i))
           \/ election[The(i)] # "none" /\ UNCHANGED eleVars
  /\ UNCHANGED <<key, told, current, starts, monVars, cuts, lapses>>

(* trigger_manual_election. *)
ManualElection(i) ==
  /\ main[i] = "idle" /\ current[i] # 0
  /\ StartElection(The(i))
  /\ UNCHANGED <<key, told, useVars, monVars, faults, cuts, lapses>>

(* The stopped pair is dropped, with what its monitor knew. *)
Forget(i) ==
  LET p == The(i) IN
  /\ current' = [current EXCEPT ![i] = 0]
  /\ monitor' = [monitor EXCEPT ![p] = "off"]
  /\ bad' = [bad EXCEPT ![p] = 0]

Remember == UNCHANGED <<current, monVars>>

MonitorCancelled(i) ==
  LET p == The(i) IN
  /\ monitor' = [monitor EXCEPT ![p] = "ended"]
  /\ UNCHANGED <<current, bad>>

(* stop_monitoring: the monitor leaves its loop or is cancelled after two  *)
(* seconds; what it does in those two seconds it might as well have done   *)
(* before.  Then is_elected decides.  An election under way goes on.       *)
StopMonitoring(i) ==
  LET p == The(i) IN
  /\ current[i] # 0
  /\ \/ state[p] = "ELECTED" /\ Main(i, "idle", "release") /\ MonitorCancelled(i)
     \/ state[p] # "ELECTED" /\ Main(i, "idle", "idle") /\ Forget(i)
  /\ UNCHANGED <<key, told, starts, eleVars, faults, cuts, lapses>>

(* release_leadership: any error ends it. *)
ReleaseLookup(i) ==
  /\ \/ key = i /\ Main(i, "release", "delete") /\ Remember /\ UNCHANGED faults
     \/ key # i /\ Main(i, "release", "idle") /\ Forget(i) /\ UNCHANGED faults
     \/ Fault /\ Main(i, "release", "idle") /\ Forget(i)
  /\ UNCHANGED <<key, told>>

ReleaseDelete(i) ==
  /\ \/ key' = NoOne /\ Main(i, "delete", "tell") /\ Remember /\ UNCHANGED faults
     \/ /\ Fault /\ Main(i, "delete", "idle") /\ Forget(i)
        /\ key' \in {key, NoOne}
  /\ UNCHANGED told

(* _on_lost, after the registry update. *)
TellLost(i) ==
  /\ Main(i, "tell", "publish")
  /\ told' = [told EXCEPT ![i] = FALSE]
  /\ Remember /\ UNCHANGED <<key, faults>>

LostPublished(i) ==
  Main(i, "publish", "idle") /\ Forget(i) /\ UNCHANGED <<key, told, faults>>

StopStep(i) ==
  /\ ReleaseLookup(i) \/ ReleaseDelete(i) \/ TellLost(i)
       \/ LostPublished(i)
  /\ UNCHANGED <<starts, eleVars, cuts, lapses>>

-----------------------------------------------------------------------------
(* The world around *)

(* Nothing writes the leader key again after its creation, so that a       *)
(* bucket which expires keys drops it, leader alive or not.                *)
LeaderKeyExpires ==
  /\ key # NoOne /\ key' = NoOne
  /\ ~Settled /\ lapses' = lapses + 1
  /\ UNCHANGED <<told, useVars, monVars, eleVars, faults, cuts>>

Crash(i) ==
  LET Reset(f, v) == [p \in Pair |-> IF Owner(p) = i THEN v ELSE f[p]] IN
  /\ main[i] # "down"
  /\ main' = [main EXCEPT ![i] = "down"]
  /\ current' = [current EXCEPT ![i] = 0]
  /\ told' = [told EXCEPT ![i] = FALSE]
  /\ monitor' = Reset(monitor, "off") /\ bad' = Reset(bad, 0)
  /\ election' = Reset(election, "none") /\ attempt' = Reset(attempt, 1)
  /\ state' = Reset(state, "IDLE")
  /\ UNCHANGED <<key, starts, faults, cuts, lapses>>

Next ==
  \/ LeaderKeyExpires
  \/ \E p \in Pair :
       \/ ElectionStep(p) \/ MonitorStep(p)
       \/ ElectionTimesOut(p) /\ UNCHANGED <<useVars, monVars, lapses>>
  \/ \E i \in Instance :
       \/ StartMonitoring(i) \/ InitialElection(i) \/ ManualElection(i)
       \/ StopMonitoring(i) \/ StopStep(i)
       \/ Crash(i)

Spec == Init /\ [][Next]_vars

(* The event loop runs what is ready; nothing asks for a call that fails.  *)
Fairness ==
  \A p \in Pair : /\ WF_vars(MonitorStep(p) /\ UNCHANGED faults)
                  /\ WF_vars(ElectionStep(p) /\ UNCHANGED faults)

FairSpec == Spec /\ Fairness

-----------------------------------------------------------------------------
(* Properties *)

Lock == INSTANCE LeaderLock WITH holder <- key, MayLapse <- TRUE

(* The leader key implements the abstract lock.  Until it expires once, it *)
(* leaves an instance only by a release of that instance; afterwards the   *)
(* delete of release_leadership, which names no revision, may hit the next *)
(* leader's key.                                                           *)
KeyIsLock ==
  /\ Lock!LockInit
  /\ [][\/ \E i \in Instance : Lock!Acquire(i)
        \/ \E i \in Instance :
             (main[i] = "delete" \/ lapses > 0) /\ Lock!Release(i)
        \/ lapses' = lapses + 1 /\ Lock!Lapse]_key

Releasing(i) == main[i] \in {"tell", "publish"}

(* Until the key expires, an instance that was told it is active holds it  *)
(* from then until its own release has deleted it: neither the callbacks   *)
(* of elections that overlap, nor failing calls, nor an election cut off   *)
(* say active to a loser.  (A stop that overlaps an election may: its pair *)
(* is no longer the current one.)                                          *)
ActiveHoldsKey ==
  \A i \in Instance :
    told[i] /\ current[i] = 1 /\ ~Releasing(i) /\ lapses = 0 => key = i

Electing(i) == \E p \in Pair : Owner(p) = i /\ election[p] # "none"

(* A create that was carried out but reported as failed is found by the    *)
(* next attempt: an election that has yet to look at a key its instance    *)
(* owns ends with the application told, once calls no longer fail and      *)
(* unless the key expires, the election is cut off or the process crashes. *)
OwnKeyFound ==
  \A p \in Pair :
    (key = Owner(p) /\ election[p] = "get" /\ Settled)
      ~> (told[Owner(p)] \/ key # Owner(p) \/ cuts > 0 \/ main[Owner(p)] = "down")

Watching(p) == monitor[p] \notin {"off", "ended"}

(* What start_monitoring of the monitor says of it, that it "will trigger  *)
(* election if the heartbeat expires or key is deleted": a monitor that    *)
(* has come upon a leader, for one of its rounds failed and no call did,   *)
(* has the key contested when it is gone.                                  *)
LossContested ==
  \A p \in Pair :
    (/\ key = NoOne /\ bad[p] > 0 /\ faults = 0 /\ Watching(p)
     /\ election[p] = "none" /\ Settled)
      ~> (key # NoOne \/ ~Watching(p))
=============================================================================
