---------------------------- MODULE StickyActive ----------------------------
(***************************************************************************)
(* The sticky-active group of aegis_sdk: instances of a                    *)
(* SingleActiveService elect the one that may serve exclusive RPCs through *)
(* the leader key (module LeaderKey).                                      *)
(*                                                                         *)
(* Three coroutines of an instance touch its election state, each holding  *)
(* a copy of the StickyActiveElection aggregate it loaded from the bucket: *)
(*   main       start() with StickyActiveRegistrationUseCase, and stop()   *)
(*   heartbeat  StickyActiveHeartbeatUseCase                               *)
(*   monitor    StickyActiveMonitoringUseCase                              *)
(* An action runs one of them from an await to the next.  The registry     *)
(* record and the published events are outputs that none of the three      *)
(* reads back (the heartbeat only needs the record to exist), so a call to *)
(* the registry or the bus appears here as a call that may fail.           *)
(***************************************************************************)
EXTENDS LeaderKey, Naturals, FiniteSets

CONSTANTS
  HeartbeatDriven, \* something calls SingleActiveService's
                   \* _update_registry_heartbeat; no code of the package does
  MaxStarts,       \* bound: starts of one instance id (1: never restarted)
  MaxFaults,       \* bound: failed calls to the bucket, registry or bus
  MaxLag           \* bound: unread watch events when time passes

ASSUME StickyAssumption ==
  /\ HeartbeatDriven \in BOOLEAN
  /\ MaxStarts \in Nat /\ MaxFaults \in Nat /\ MaxLag \in Nat

VARIABLES
  main,        \* where start()/stop() of the instance is
  election,    \* the aggregate's status in the registration use case
  is_active,   \* SingleActiveService.is_active, what exclusive_rpc checks
  heartbeat,   \* where the heartbeat use case is
  hbElection,  \* the aggregate's status it works on
  monitor,     \* where the monitoring task is
  monElection, \* the aggregate's status it works on
  saved,       \* the status under election-state.{service}.{instance}.{group}
  starts,      \* how often the instance was started
  faults       \* calls that failed so far

mainVars == <<main, election, starts>>
hbVars == <<heartbeat, hbElection>>
monVars == <<monitor, monElection>>
vars == <<keyVars, mainVars, hbVars, monVars, is_active, saved, faults>>

-----------------------------------------------------------------------------
(* StickyActiveElection (domain/aggregates.py).  leader_instance_id is the *)
(* instance itself exactly when the status is ACTIVE, so the status alone  *)
(* decides is_leader.                                                      *)
Status == {"STANDBY", "ELECTING", "ACTIVE"}

IsLeader(status) == status = "ACTIVE"

(* start_election raises on ACTIVE and, until the election timeout (10 s)  *)
(* has passed, on ELECTING.                                                *)
MayStartElection(status) == status \in {"STANDBY", "ELECTING"}
MayRefuseElection(status) == status \in {"ELECTING", "ACTIVE"}

(* lose_election is only called once the winner is known; otherwise the    *)
(* aggregate stays ELECTING.                                               *)
LoseElection(status, winner) == IF winner # NoOne THEN "STANDBY" ELSE status

-----------------------------------------------------------------------------
MainPlace == {"down", "load", "attempt", "learn", "save", "register", "up",
              "failed", "release", "delete", "finish", "stopped"}
HeartbeatPlace == {"idle", "verify", "compare", "write", "finish"}
MonitorPlace == {"off", "watch", "wait", "stepdown", "sleep", "won", "lost",
                 "save", "failing", "dead"}

TypeOK ==
  /\ KeyType
  /\ main \in [Instance -> MainPlace]
  /\ election \in [Instance -> Status]
  /\ is_active \in [Instance -> BOOLEAN]
  /\ heartbeat \in [Instance -> HeartbeatPlace]
  /\ hbElection \in [Instance -> Status]
  /\ monitor \in [Instance -> MonitorPlace]
  /\ monElection \in [Instance -> Status]
  /\ saved \in [Instance -> Status \cup {"none"}]
  /\ starts \in [Instance -> 0 .. MaxStarts]
  /\ faults \in 0 .. MaxFaults

Init ==
  /\ KeyInit
  /\ main = [i \in Instance |-> "down"]
  /\ election = [i \in Instance |-> "STANDBY"]
  /\ is_active = [i \in Instance |-> FALSE]
  /\ heartbeat = [i \in Instance |-> "idle"]
  /\ hbElection = [i \in Instance |-> "STANDBY"]
  /\ monitor = [i \in Instance |-> "off"]
  /\ monElection = [i \in Instance |-> "STANDBY"]
  /\ saved = [i \in Instance |-> "none"]
  /\ starts = [i \in Instance |-> 0]
  /\ faults = 0

(* Moves of the main and the monitoring coroutine. *)
Main(i, from, to) == main[i] = from /\ main' = [main EXCEPT ![i] = to]
Monitor(i, from, to) ==
  monitor[i] = from /\ monitor' = [monitor EXCEPT ![i] = to]

(* One more call fails. *)
Fault == faults < MaxFaults /\ faults' = faults + 1

(* Time only passes, and services only start, while watchers keep up.      *)
WatchersKeepUp == \A i \in Instance : Len(inbox[i]) < MaxLag

(* Locals a finished coroutine leaves behind are forgotten. *)
ForgetElection(i) == election' = [election EXCEPT ![i] = "STANDBY"]
ForgetHeartbeat(i) ==
  /\ heartbeat' = [heartbeat EXCEPT ![i] = "idle"]
  /\ hbElection' = [hbElection EXCEPT ![i] = "STANDBY"]
EndMonitor(i, place) ==
  /\ monitor' = [monitor EXCEPT ![i] = place]
  /\ monElection' = [monElection EXCEPT ![i] = "STANDBY"]
  /\ CloseWatch(i)

-----------------------------------------------------------------------------
(* SingleActiveService.start                                               *)

(* super().start(): handlers are registered, the heartbeat loop begins.    *)
StartService(i) ==
  /\ main[i] \in {"down", "stopped"}
  /\ starts[i] < MaxStarts /\ WatchersKeepUp
  /\ main' = [main EXCEPT ![i] = "load"]
  /\ starts' = [starts EXCEPT ![i] = @ + 1]
  /\ UNCHANGED <<keyVars, hbVars, monVars, election, is_active, saved, faults>>

(* A restored leader counts as elected; anyone else starts an election.    *)
ElectionBegins(i, status) ==
  \/ /\ IsLeader(status)
     /\ main' = [main EXCEPT ![i] = "save"]
     /\ election' = [election EXCEPT ![i] = status]
  \/ /\ MayStartElection(status)
     /\ main' = [main EXCEPT ![i] = "attempt"]
     /\ election' = [election EXCEPT ![i] = "ELECTING"]
  \/ /\ MayRefuseElection(status) /\ ~IsLeader(status)
     /\ main' = [main EXCEPT ![i] = "failed"]
     /\ UNCHANGED election

(* The registration use case restores the aggregate or, when there is none *)
(* or it cannot be read, creates one.                                      *)
LoadElectionState(i) ==
  /\ main[i] = "load"
  /\ \E restored \in {saved[i], "none"} :
         /\ IF restored = saved[i] THEN UNCHANGED faults ELSE Fault
         /\ ElectionBegins(i, IF restored = "none" THEN "STANDBY" ELSE restored)
  /\ UNCHANGED <<keyVars, hbVars, monVars, starts, is_active, saved>>

(* attempt_leadership: an atomic create decides. *)
AttemptLeadership(i) ==
  /\ main[i] = "attempt"
  /\ \/ /\ CreateKey(i)
        /\ main' = [main EXCEPT ![i] = "save"]
        /\ election' = [election EXCEPT ![i] = "ACTIVE"]
     \/ /\ leader # NoOne
        /\ main' = [main EXCEPT ![i] = "learn"]
        /\ UNCHANGED <<keyVars, election>>
  /\ UNCHANGED <<hbVars, monVars, starts, is_active, saved, faults>>

(* The create fails with an error, whether or not the bucket carried it    *)
(* out, and start() raises.                                                *)
AttemptFails(i) ==
  /\ Main(i, "attempt", "failed") /\ Fault
  /\ CreateKey(i) \/ UNCHANGED keyVars
  /\ ForgetElection(i)
  /\ UNCHANGED <<hbVars, monVars, starts, is_active, saved>>

(* Lost: who is the leader? *)
LearnLeader(i) ==
  /\ Main(i, "learn", "save")
  /\ \E winner \in {VisibleLeader, NoOne} :
       /\ IF winner = VisibleLeader THEN UNCHANGED faults ELSE Fault
       /\ election' = [election EXCEPT ![i] = LoseElection(@, winner)]
  /\ UNCHANGED <<keyVars, hbVars, monVars, starts, is_active, saved>>

(* A failing save is logged and forgotten. *)
SaveElectionState(i) ==
  /\ Main(i, "save", "register")
  /\ \/ /\ saved' = [saved EXCEPT ![i] = election[i]]
        /\ UNCHANGED faults
     \/ Fault /\ UNCHANGED saved
  /\ UNCHANGED <<keyVars, hbVars, monVars, election, starts, is_active>>

(* Mutant of RegisterInstance: whoever got through the registration is     *)
(* taken for the leader.                                                   *)
RegisterEveryone(i) ==
  /\ Main(i, "register", "up")
  /\ is_active' = [is_active EXCEPT ![i] = TRUE]
  /\ monitor' = [monitor EXCEPT ![i] = "watch"]
  /\ ForgetElection(i)
  /\ UNCHANGED <<keyVars, hbVars, monElection, starts, saved, faults>>

(* The record is written with the outcome, the events are published,       *)
(* is_active takes the outcome and the monitoring task is created.         *)
RegisterInstance(i) ==
  /\ Main(i, "register", "up")
  /\ is_active' = [is_active EXCEPT ![i] = IsLeader(election[i])]
  /\ monitor' = [monitor EXCEPT ![i] = "watch"]
  /\ ForgetElection(i)
  /\ UNCHANGED <<keyVars, hbVars, monElection, starts, saved, faults>>

(* Registering or publishing fails and start() raises; leadership, if won, *)
(* is kept.                                                                *)
RegisterFails(i) ==
  /\ Main(i, "register", "failed") /\ Fault
  /\ ForgetElection(i)
  /\ UNCHANGED <<keyVars, hbVars, monVars, starts, is_active, saved>>

-----------------------------------------------------------------------------
(* SingleActiveService.stop                                                *)

(* The monitoring task is cancelled wherever it is. *)
StopService(i) ==
  /\ main[i] \in {"up", "failed"}
  /\ main' = [main EXCEPT ![i] = IF is_active[i] THEN "release" ELSE "finish"]
  /\ EndMonitor(i, "off")
  /\ UNCHANGED <<leader, fresh, current, hbVars, election, starts, is_active,
                 saved, faults>>

(* Mutant of ReleaseLookup: the owner is not compared.                     *)
ReleaseAnyOwner(i) ==
  /\ main[i] = "release"
  /\ main' = [main EXCEPT ![i] = "delete"]
  /\ RememberRevision(<<"release", i>>)
  /\ UNCHANGED <<hbVars, monVars, election, starts, is_active, saved, faults>>

(* release_leadership reads the key ...                                    *)
ReleaseLookup(i) ==
  /\ main[i] = "release"
  /\ \/ /\ leader = i
        /\ main' = [main EXCEPT ![i] = "delete"]
        /\ RememberRevision(<<"release", i>>)
        /\ UNCHANGED faults
     \/ /\ leader # i
        /\ main' = [main EXCEPT ![i] = "finish"]
        /\ UNCHANGED <<keyVars, faults>>
     \/ /\ Fault
        /\ main' = [main EXCEPT ![i] = "finish"]
        /\ UNCHANGED keyVars
  /\ UNCHANGED <<hbVars, monVars, election, starts, is_active, saved>>

(* ... and deletes the revision it read; any failure means "not released". *)
ReleaseDelete(i) ==
  /\ Main(i, "delete", "finish")
  /\ \/ DeleteRevision(<<"release", i>>) /\ (UNCHANGED faults \/ Fault)
     \/ <<"release", i>> \notin current /\ UNCHANGED <<keyVars, faults>>
     \/ Fault /\ UNCHANGED keyVars
  /\ UNCHANGED <<hbVars, monVars, election, starts, is_active, saved>>

(* is_active is cleared and super().stop() cancels the heartbeat, whose    *)
(* finally clause still saves its aggregate, and deregisters the instance, *)
(* ignoring a failure.                                                     *)
FinishStop(i) ==
  /\ Main(i, "finish", "stopped")
  /\ is_active' = [is_active EXCEPT ![i] = FALSE]
  /\ saved' = IF heartbeat[i] = "finish"
                THEN [saved EXCEPT ![i] = hbElection[i]] ELSE saved
  /\ ForgetHeartbeat(i)
  /\ current' = current \ Readers(i)
  /\ UNCHANGED <<leader, fresh, watching, inbox, monVars, election, starts, faults>>

(* The process dies; the bucket and the registry keep what they hold. *)
Crash(i) ==
  /\ main[i] \notin {"down", "stopped"}
  /\ main' = [main EXCEPT ![i] = "down"]
  /\ ForgetElection(i)
  /\ is_active' = [is_active EXCEPT ![i] = FALSE]
  /\ ForgetHeartbeat(i)
  /\ EndMonitor(i, "off")
  /\ current' = current \ Readers(i)
  /\ UNCHANGED <<leader, fresh, starts, saved, faults>>

-----------------------------------------------------------------------------
(* SingleActiveService._update_registry_heartbeat: the heartbeat use case  *)

(* is_active follows a failed heartbeat, and only a failed one. *)
HeartbeatResult(i, success) ==
  is_active' = [is_active EXCEPT ![i] = @ /\ success]

(* Without a saved aggregate the heartbeat has failed. *)
HeartbeatLoad(i) ==
  /\ HeartbeatDriven /\ WatchersKeepUp
  /\ main[i] \notin {"down", "stopped"} /\ heartbeat[i] = "idle"
  /\ \/ /\ saved[i] # "none"
        /\ hbElection' = [hbElection EXCEPT ![i] = saved[i]]
        /\ heartbeat' = [heartbeat EXCEPT
                           ![i] = IF IsLeader(saved[i]) THEN "verify" ELSE "finish"]
        /\ UNCHANGED <<is_active, faults>>
     \/ /\ IF saved[i] = "none" THEN UNCHANGED faults ELSE Fault
        /\ HeartbeatResult(i, FALSE)
        /\ UNCHANGED <<heartbeat, hbElection>>
  /\ UNCHANGED <<keyVars, mainVars, monVars, saved>>

(* Mutant of HeartbeatLost: nobody steps down.                             *)
HeartbeatLostUnnoticed(i) ==
  heartbeat' = [heartbeat EXCEPT ![i] = "finish"] /\ UNCHANGED hbElection

(* update_leadership returned False: step_down, and carry on. *)
HeartbeatLost(i) ==
  /\ heartbeat' = [heartbeat EXCEPT ![i] = "finish"]
  /\ hbElection' = [hbElection EXCEPT ![i] = "STANDBY"]

(* update_leadership reads the key and checks the owner ... *)
HeartbeatVerify(i) ==
  /\ heartbeat[i] = "verify"
  /\ \/ /\ leader = i
        /\ heartbeat' = [heartbeat EXCEPT ![i] = "compare"]
        /\ RememberRevision(<<"heartbeat", i>>)
        /\ UNCHANGED <<hbElection, faults>>
     \/ leader # i /\ HeartbeatLost(i) /\ UNCHANGED <<keyVars, faults>>
     \/ Fault /\ HeartbeatLost(i) /\ UNCHANGED keyVars
  /\ UNCHANGED <<mainVars, monVars, is_active, saved>>

(* ... NATSKVStore.put reads it once more and compares the revision ...    *)
HeartbeatCompare(i) ==
  /\ heartbeat[i] = "compare"
  /\ \/ /\ <<"heartbeat", i>> \in current
        /\ heartbeat' = [heartbeat EXCEPT ![i] = "write"]
        /\ UNCHANGED <<hbElection, faults>>
     \/ <<"heartbeat", i>> \notin current /\ HeartbeatLost(i) /\ UNCHANGED faults
     \/ Fault /\ HeartbeatLost(i)
  /\ current' = current \ {<<"heartbeat", i>>}
  /\ UNCHANGED <<leader, fresh, watching, inbox, mainVars, monVars,
                 is_active, saved>>

(* ... and then puts, whatever the key holds by now.                       *)
HeartbeatWrite(i) ==
  /\ heartbeat[i] = "write"
  /\ \/ /\ PutKey(i)
        /\ heartbeat' = [heartbeat EXCEPT ![i] = "finish"]
        /\ UNCHANGED <<hbElection, faults>>
     \/ Fault /\ HeartbeatLost(i) /\ (PutKey(i) \/ UNCHANGED keyVars)
  /\ UNCHANGED <<mainVars, monVars, is_active, saved>>

(* The current leader is looked up for the status in the registry record,  *)
(* the record is written and the aggregate is saved.  The heartbeat failed *)
(* if the record was missing or the registry call did; it succeeded        *)
(* otherwise, also when leadership was just found lost.                    *)
HeartbeatFinish(i) ==
  /\ heartbeat[i] = "finish"
  /\ \/ /\ HeartbeatResult(i, TRUE)
        /\ \/ saved' = [saved EXCEPT ![i] = hbElection[i]] /\ UNCHANGED faults
           \/ Fault /\ UNCHANGED saved
     \/ /\ Fault
        /\ HeartbeatResult(i, FALSE)
        /\ saved' = [saved EXCEPT ![i] = hbElection[i]]
  /\ ForgetHeartbeat(i)
  /\ UNCHANGED <<keyVars, mainVars, monVars>>

-----------------------------------------------------------------------------
(* StickyActiveMonitoringUseCase: one task per instance                    *)

StartWatch(i) ==
  /\ Monitor(i, "watch", "wait")
  /\ OpenWatch(i)
  /\ UNCHANGED <<mainVars, hbVars, monElection, is_active, saved, faults>>

(* Mutants of MonitorReaction: a leader ignores the election of another    *)
(* instance; a standby ignores the departure of the leader.                *)
ReactionOfStubborn(i, event, status) ==
  IF event = NoOne /\ ~IsLeader(status) THEN <<"sleep", status>> ELSE <<"wait", "STANDBY">>
ReactionOfIdle(i, event, status) ==
  IF event \notin {i, NoOne} THEN <<"save", "STANDBY">> ELSE <<"wait", "STANDBY">>

(* Where an event takes a task that loaded the given status: a standby     *)
(* goes for an expired key, a leader steps down for another one, and a     *)
(* standby saves what it loaded when another instance is elected.          *)
MonitorReaction(i, event, status) ==
  CASE event = NoOne /\ ~IsLeader(status)            -> <<"sleep", status>>
    [] event \notin {i, NoOne} /\ IsLeader(status)  -> <<"stepdown", "STANDBY">>
    [] event \notin {i, NoOne} /\ ~IsLeader(status) -> <<"save", status>>
    [] OTHER                                         -> <<"wait", "STANDBY">>

ReceiveEvent(i) ==
  /\ monitor[i] = "wait"
  /\ TakeEvent(i)
  /\ \/ /\ saved[i] # "none"
        /\ LET reaction == MonitorReaction(i, Head(inbox[i]), saved[i])
           IN  /\ monitor' = [monitor EXCEPT ![i] = reaction[1]]
               /\ monElection' = [monElection EXCEPT ![i] = reaction[2]]
        /\ UNCHANGED faults
     \/ /\ IF saved[i] = "none" THEN UNCHANGED faults ELSE Fault
        /\ UNCHANGED monVars
  /\ UNCHANGED <<mainVars, hbVars, is_active, saved>>

(* Another instance was elected: the callback clears is_active.            *)
MonitorStepDown(i) ==
  /\ Monitor(i, "stepdown", "save")
  /\ is_active' = [is_active EXCEPT ![i] = FALSE]
  /\ UNCHANGED <<keyVars, mainVars, hbVars, monElection, saved, faults>>

(* After the failover delay: start_election on the aggregate loaded before *)
(* it, then the atomic create.                                             *)
MonitorElect(i) ==
  /\ monitor[i] = "sleep"
  /\ MayStartElection(monElection[i])
  /\ \/ /\ CreateKey(i)
        /\ monitor' = [monitor EXCEPT ![i] = "won"]
     \/ /\ leader # NoOne
        /\ monitor' = [monitor EXCEPT ![i] = "lost"]
        /\ UNCHANGED keyVars
  /\ monElection' = [monElection EXCEPT ![i] = "ELECTING"]
  /\ UNCHANGED <<mainVars, hbVars, is_active, saved, faults>>

(* Won: the callback sets is_active.                                       *)
MonitorWon(i) ==
  /\ Monitor(i, "won", "save")
  /\ monElection' = [monElection EXCEPT ![i] = "ACTIVE"]
  /\ is_active' = [is_active EXCEPT ![i] = TRUE]
  /\ UNCHANGED <<keyVars, mainVars, hbVars, saved, faults>>

MonitorLost(i) ==
  /\ Monitor(i, "lost", "save")
  /\ \E winner \in {VisibleLeader, NoOne} :
       /\ IF winner = VisibleLeader THEN UNCHANGED faults ELSE Fault
       /\ monElection' = [monElection EXCEPT ![i] = LoseElection(@, winner)]
  /\ UNCHANGED <<keyVars, mainVars, hbVars, is_active, saved>>

MonitorSave(i) ==
  /\ Monitor(i, "save", "wait")
  /\ saved' = [saved EXCEPT ![i] = monElection[i]]
  /\ monElection' = [monElection EXCEPT ![i] = "STANDBY"]
  /\ UNCHANGED <<keyVars, mainVars, hbVars, is_active, faults>>

(* "Election already in progress": the ValueError leaves the event loop of *)
(* the task.                                                               *)
MonitorRefused(i) ==
  /\ monitor[i] = "sleep" /\ MayRefuseElection(monElection[i])
  /\ monitor' = [monitor EXCEPT ![i] = "failing"]
  /\ UNCHANGED <<keyVars, mainVars, hbVars, monElection, is_active, saved, faults>>

(* So does any failing call: the watch, which may also just end, or the    *)
(* save ...                                                                *)
MonitorFails(i) ==
  /\ monitor[i] \in {"watch", "wait", "save"} /\ Fault
  /\ monitor' = [monitor EXCEPT ![i] = "failing"]
  /\ UNCHANGED <<keyVars, mainVars, hbVars, monElection, is_active, saved>>

(* ... the create, which the bucket may have carried out all the same ...  *)
MonitorElectFails(i) ==
  /\ Monitor(i, "sleep", "failing") /\ Fault
  /\ MayStartElection(monElection[i])
  /\ CreateKey(i) \/ UNCHANGED keyVars
  /\ UNCHANGED <<mainVars, hbVars, monElection, is_active, saved>>

(* ... and the publication of the outcome, which skips the save.           *)
MonitorPublishFails(i) ==
  /\ monitor[i] \in {"stepdown", "won"} /\ Fault
  /\ monitor' = [monitor EXCEPT ![i] = "failing"]
  /\ is_active' = [is_active EXCEPT ![i] = monitor[i] = "won"]
  /\ UNCHANGED <<keyVars, mainVars, hbVars, monElection, saved>>

(* The task sleeps once and ends; it never watches again.                  *)
MonitorEnds(i) ==
  /\ monitor[i] = "failing"
  /\ EndMonitor(i, "dead")
  /\ UNCHANGED <<leader, fresh, current, mainVars, hbVars, is_active, saved, faults>>

-----------------------------------------------------------------------------
(* The environment: time passes for the lease.                             *)
Aging ==
  /\ LeaseAges /\ WatchersKeepUp
  /\ UNCHANGED <<mainVars, hbVars, monVars, is_active, saved, faults>>

Expiry ==
  /\ LeaseRunsOut /\ WatchersKeepUp
  /\ UNCHANGED <<mainVars, hbVars, monVars, is_active, saved, faults>>

MainStep(i) ==
  \/ LoadElectionState(i) \/ AttemptLeadership(i) \/ AttemptFails(i)
  \/ LearnLeader(i) \/ SaveElectionState(i)
  \/ RegisterInstance(i) \/ RegisterFails(i)
  \/ ReleaseLookup(i) \/ ReleaseDelete(i) \/ FinishStop(i)

HeartbeatStep(i) ==
  \/ HeartbeatVerify(i) \/ HeartbeatCompare(i)
  \/ HeartbeatWrite(i) \/ HeartbeatFinish(i)

MonitorStep(i) ==
  \/ StartWatch(i) \/ ReceiveEvent(i) \/ MonitorStepDown(i)
  \/ MonitorElect(i) \/ MonitorWon(i) \/ MonitorLost(i) \/ MonitorSave(i)
  \/ MonitorRefused(i) \/ MonitorFails(i) \/ MonitorElectFails(i)
  \/ MonitorPublishFails(i) \/ MonitorEnds(i)

Next ==
  \/ \E i \in Instance :
       \/ StartService(i) \/ StopService(i) \/ Crash(i)
       \/ HeartbeatLoad(i)
       \/ MainStep(i) \/ HeartbeatStep(i) \/ MonitorStep(i)
  \/ Aging
  \/ Expiry

Spec == Init /\ [][Next]_vars

(* The event loop of a live process runs every coroutine that is ready,    *)
(* the heartbeat loop (if there is one) keeps beating, a lease nobody      *)
(* refreshes ages, and the bucket drops what has expired.  Nobody has to   *)
(* start, stop or crash, and no call has to fail.                          *)
Unrefreshed == leader # NoOne /\ (~HeartbeatDriven \/ main[leader] \in {"down", "stopped"})

Fairness ==
  /\ \A i \in Instance :
       /\ WF_vars(MainStep(i) /\ UNCHANGED faults)
       /\ WF_vars((HeartbeatLoad(i) \/ HeartbeatStep(i)) /\ UNCHANGED faults)
       /\ WF_vars(MonitorStep(i) /\ UNCHANGED faults)
  /\ WF_vars(Unrefreshed /\ Aging)
  /\ WF_vars(Expiry)

FairSpec == Spec /\ Fairness

-----------------------------------------------------------------------------
(* Safety                                                                  *)

(* An instance whose is_active lets exclusive RPCs through owns the leader *)
(* key, from the election (registration or failover) until it has released *)
(* it in stop().  Promised by single_active_service.py:3-4; it needs a key *)
(* that does not expire and instance ids that are not reused.              *)
ActiveHoldsKey ==
  \A i \in Instance : is_active[i] => leader = i \/ main[i] = "finish"

(* Never two instances serve exclusive RPCs, those about to end aside.     *)
AtMostOneActive ==
  \A i, j \in Instance :
    (is_active[i] /\ is_active[j] /\ main[i] # "finish" /\ main[j] # "finish") => i = j

(* A revision that would still pass the check of kv.delete is a revision   *)
(* written by the instance that remembers it, however the key came and     *)
(* went since (release_leadership and update_leadership rely on it).       *)
RevisionOwned == \A r \in current : leader = r[2]

(* The leader key is a lock: only a free key is taken, and only its owner  *)
(* or its expiry frees it (attempt_leadership, release_leadership).        *)
Lock == INSTANCE LeaderLock WITH holder <- leader, MayLapse <- LeaseExpires
ImplementsLock == Lock!LockSpec

(* stop() never deletes a key that passed to another instance between      *)
(* release_leadership's read and its delete.                               *)
ReleaseOnlyOwn ==
  [][\A i \in Instance :
       main[i] = "delete" /\ main'[i] = "finish" => leader' = leader \/ leader = i]_vars

(* Liveness                                                                *)

(* An active instance that watches the key while another one holds it      *)
(* hears of it and stops being active or wins the key again, even if the   *)
(* other's key goes away before (_monitor_leadership, event "elected").    *)
StaleLeaderStepsDown ==
  \A i \in Instance :
    (monitor[i] = "wait" /\ is_active[i] /\ leader \notin {i, NoOne})
      ~> (~is_active[i] \/ leader = i)

(* A listening standby that has been told of the leader's departure sees to it that  *)
(* the key is taken again, unless it is stopped first                      *)
(* (_monitor_leadership, event "expired").                                 *)
StandbyTakesOver ==
  \A i \in Instance :
    (monitor[i] = "wait" /\ saved[i] = "STANDBY" /\ \E k \in DOMAIN inbox[i] : inbox[i][k] = NoOne)
      ~> (leader # NoOne \/ main[i] # "up")

(* A driven heartbeat finds out that the key is gone, which the monitor    *)
(* never tells a leader, and unless a call fails on the way the saved      *)
(* aggregate steps down (StickyActiveHeartbeatUseCase.execute).            *)
LostLeaderForgets ==
  \A i \in Instance :
    (main[i] = "up" /\ saved[i] = "ACTIVE" /\ leader # i)
      ~> (main[i] # "up" \/ saved[i] # "ACTIVE" \/ leader = i \/ faults > 0)
=============================================================================
