------------------------- MODULE StickyActiveProofs -------------------------
(***************************************************************************)
(* Theorems about StickyActive, for every group of instances and every     *)
(* value of the bounds.                                                    *)
(***************************************************************************)
EXTENDS StickyActive, TLAPS

(* The places and statuses the steps move to. *)
LEMMA Places ==
  /\ {"down", "load", "attempt", "learn", "save", "register", "up", "failed",
      "release", "delete", "finish", "stopped"} \subseteq MainPlace
  /\ {"idle", "verify", "compare", "write", "finish"} \subseteq HeartbeatPlace
  /\ {"off", "watch", "wait", "stepdown", "sleep", "won", "lost", "save",
      "failing", "dead"} \subseteq MonitorPlace
  /\ {"STANDBY", "ELECTING", "ACTIVE"} = Status
  /\ "none" \notin Status
BY DEF MainPlace, HeartbeatPlace, MonitorPlace, Status

LEMMA FaultType ==
  ASSUME faults \in 0 .. MaxFaults, Fault
  PROVE  faults' \in 0 .. MaxFaults
BY StickyAssumption DEF Fault

(* What the operations on the key do to its type. *)
LEMMA NotifyType ==
  ASSUME KeyType, NEW e \in Instance \cup {NoOne}, Notify(e)
  PROVE  /\ inbox' \in [Instance -> Seq(Instance \cup {NoOne})]
         /\ watching' \subseteq Instance
BY DEF KeyType, Notify

LEMMA PutKeyType ==
  ASSUME KeyType, NEW i \in Instance, PutKey(i)
  PROVE  KeyType'
BY NotifyType DEF KeyType, PutKey

LEMMA DeleteKeyType ==
  ASSUME KeyType, DeleteKey
  PROVE  KeyType'
BY NotifyType DEF KeyType, DeleteKey

LEMMA KeyUnchanged ==
  ASSUME KeyType, UNCHANGED keyVars
  PROVE  KeyType'
BY DEF KeyType, keyVars

LEMMA KeyEnvType ==
  ASSUME KeyType, LeaseAges \/ LeaseRunsOut
  PROVE  KeyType'
BY NotifyType DEF KeyType, LeaseAges, LeaseRunsOut

LEMMA KeyReadType ==
  ASSUME KeyType, NEW i \in Instance,
         \/ \E r \in Reader : RememberRevision(r)
         \/ OpenWatch(i)
         \/ TakeEvent(i)
         \/ CloseWatch(i) /\ current' \subseteq current /\ UNCHANGED <<leader, fresh>>
  PROVE  KeyType'
<1>1. CASE \E r \in Reader : RememberRevision(r)
  BY <1>1 DEF KeyType, RememberRevision
<1>2. CASE OpenWatch(i)
  <2>1. leader # NoOne => <<leader>> \in Seq(Instance \cup {NoOne})
    BY DEF KeyType
  <2>2. <<>> \in Seq(Instance \cup {NoOne})
    OBVIOUS
  <2> QED BY <1>2, <2>1, <2>2 DEF KeyType, OpenWatch
<1>3. CASE TakeEvent(i)
  <2>1. Tail(inbox[i]) \in Seq(Instance \cup {NoOne})
    BY <1>3 DEF KeyType, TakeEvent
  <2> QED BY <1>3, <2>1 DEF KeyType, TakeEvent
<1>4. CASE CloseWatch(i) /\ current' \subseteq current /\ UNCHANGED <<leader, fresh>>
  <2>1. <<>> \in Seq(Instance \cup {NoOne})
    OBVIOUS
  <2> QED BY <1>4, <2>1 DEF KeyType, CloseWatch
<1> QED BY <1>1, <1>2, <1>3, <1>4

LEMMA ReleaseReader ==
  ASSUME NEW i \in Instance
  PROVE  <<"release", i>> \in Reader /\ <<"heartbeat", i>> \in Reader
BY DEF Reader

LEMMA CloseType ==
  ASSUME KeyType, NEW i \in Instance, CloseWatch(i), UNCHANGED <<leader, fresh>>,
         current' \subseteq current
  PROVE  KeyType'
BY KeyReadType

(* Every step of the main coroutine but the last of stop(). *)
LEMMA MainStepType ==
  ASSUME TypeOK, NEW i \in Instance, MainStep(i), ~FinishStop(i)
  PROVE  TypeOK'
<1> USE DEF TypeOK, mainVars, hbVars, monVars
<1>1. CASE LoadElectionState(i)
  BY <1>1, KeyUnchanged, Places, FaultType DEF LoadElectionState, ElectionBegins
<1>2. CASE AttemptLeadership(i)
  BY <1>2, KeyUnchanged, PutKeyType, Places DEF AttemptLeadership, CreateKey
<1>3. CASE AttemptFails(i)
  BY <1>3, KeyUnchanged, PutKeyType, Places, FaultType DEF AttemptFails, CreateKey, Main, ForgetElection
<1>4. CASE LearnLeader(i)
  BY <1>4, KeyUnchanged, Places, FaultType DEF LearnLeader, Main, LoseElection
<1>5. CASE SaveElectionState(i)
  BY <1>5, KeyUnchanged, Places, FaultType DEF SaveElectionState, Main
<1>6. CASE RegisterInstance(i)
  BY <1>6, KeyUnchanged, Places DEF RegisterInstance, Main, IsLeader, ForgetElection
<1>7. CASE RegisterFails(i)
  BY <1>7, KeyUnchanged, Places, FaultType DEF RegisterFails, Main, ForgetElection
<1>8. CASE ReleaseLookup(i)
  BY <1>8, KeyUnchanged, KeyReadType, ReleaseReader, Places, FaultType DEF ReleaseLookup
<1>9. CASE ReleaseDelete(i)
  BY <1>9, KeyUnchanged, DeleteKeyType, Places, FaultType DEF ReleaseDelete, DeleteRevision, Main
<1> QED
  BY <1>1, <1>2, <1>3, <1>4, <1>5, <1>6, <1>7, <1>8, <1>9 DEF MainStep

LEMMA LifecycleType ==
  ASSUME TypeOK, NEW i \in Instance, StartService(i) \/ StopService(i) \/ FinishStop(i) \/ Crash(i)
  PROVE  TypeOK'
<1> USE DEF TypeOK, mainVars, hbVars, monVars
<1>1. CASE StartService(i)
  BY <1>1, KeyUnchanged, StickyAssumption, Places DEF StartService
<1>2. CASE StopService(i)
  BY <1>2, CloseType, Places DEF StopService, EndMonitor
<1>3. CASE FinishStop(i)
  BY <1>3, Places DEF FinishStop, Main, ForgetHeartbeat, KeyType
<1>4. CASE Crash(i)
  BY <1>4, CloseType, Places DEF Crash, EndMonitor, ForgetHeartbeat, ForgetElection
<1> QED
  BY <1>1, <1>2, <1>3, <1>4

LEMMA HeartbeatResultType ==
  ASSUME is_active \in [Instance -> BOOLEAN], NEW i \in Instance,
         NEW success \in BOOLEAN, HeartbeatResult(i, success)
  PROVE  is_active' \in [Instance -> BOOLEAN]
BY DEF HeartbeatResult

LEMMA HeartbeatType ==
  ASSUME TypeOK, NEW i \in Instance, HeartbeatLoad(i) \/ HeartbeatStep(i)
  PROVE  TypeOK'
<1> USE DEF TypeOK, mainVars, hbVars, monVars
<1>1. CASE HeartbeatLoad(i)
  <2>1. KeyType' /\ faults' \in 0 .. MaxFaults
    BY <1>1, KeyUnchanged, FaultType DEF HeartbeatLoad
  <2>2. is_active' \in [Instance -> BOOLEAN]
    <3>1. is_active' = is_active \/ HeartbeatResult(i, FALSE)
      BY <1>1 DEF HeartbeatLoad
    <3> QED BY <3>1, HeartbeatResultType
  <2>3. /\ heartbeat' \in [Instance -> HeartbeatPlace]
        /\ hbElection' \in [Instance -> Status]
    <3>1. CASE UNCHANGED <<heartbeat, hbElection>>
      BY <3>1
    <3>2. CASE /\ saved[i] # "none"
               /\ hbElection' = [hbElection EXCEPT ![i] = saved[i]]
               /\ heartbeat' = [heartbeat EXCEPT
                    ![i] = IF IsLeader(saved[i]) THEN "verify" ELSE "finish"]
      <4>1. saved[i] \in Status
        BY <3>2, Places
      <4>2. (IF IsLeader(saved[i]) THEN "verify" ELSE "finish") \in HeartbeatPlace
        BY DEF IsLeader, HeartbeatPlace
      <4> QED BY <3>2, <4>1, <4>2
    <3> QED BY <1>1, <3>1, <3>2 DEF HeartbeatLoad
  <2> QED BY <1>1, <2>1, <2>2, <2>3 DEF HeartbeatLoad
<1>2. CASE HeartbeatVerify(i)
  BY <1>2, KeyUnchanged, KeyReadType, ReleaseReader, Places, FaultType, ZenonT(60) DEF HeartbeatVerify, HeartbeatLost
<1>3. CASE HeartbeatCompare(i)
  <2>1. KeyType'
    BY <1>3 DEF HeartbeatCompare, KeyType
  <2>2. faults' \in 0 .. MaxFaults
    BY <1>3, FaultType DEF HeartbeatCompare
  <2>3. /\ heartbeat' \in [Instance -> HeartbeatPlace]
        /\ hbElection' \in [Instance -> Status]
    BY <1>3, Places DEF HeartbeatCompare, HeartbeatLost
  <2> QED BY <1>3, <2>1, <2>2, <2>3 DEF HeartbeatCompare
<1>4. CASE HeartbeatWrite(i)
  BY <1>4, KeyUnchanged, PutKeyType, Places, FaultType DEF HeartbeatWrite, HeartbeatLost
<1>5. CASE HeartbeatFinish(i)
  BY <1>5, KeyUnchanged, Places, FaultType DEF HeartbeatFinish, HeartbeatResult, ForgetHeartbeat
<1> QED
  BY <1>1, <1>2, <1>3, <1>4, <1>5 DEF HeartbeatStep

LEMMA MonitorType ==
  ASSUME TypeOK, NEW i \in Instance, MonitorStep(i)
  PROVE  TypeOK'
<1> USE DEF TypeOK, mainVars, hbVars, monVars
<1>1. CASE StartWatch(i)
  BY <1>1, KeyReadType, Places DEF StartWatch, Monitor
<1>2. CASE ReceiveEvent(i)
  BY <1>2, KeyReadType, Places, FaultType DEF ReceiveEvent, MonitorReaction
<1>3. CASE MonitorStepDown(i)
  BY <1>3, KeyUnchanged, Places DEF MonitorStepDown, Monitor
<1>4. CASE MonitorElect(i)
  BY <1>4, KeyUnchanged, PutKeyType, Places DEF MonitorElect, CreateKey
<1>5. CASE MonitorWon(i)
  BY <1>5, KeyUnchanged, Places DEF MonitorWon, Monitor
<1>6. CASE MonitorLost(i)
  BY <1>6, KeyUnchanged, Places, FaultType DEF MonitorLost, Monitor, LoseElection
<1>7. CASE MonitorSave(i)
  BY <1>7, KeyUnchanged, Places DEF MonitorSave, Monitor
<1>8. CASE MonitorRefused(i)
  BY <1>8, KeyUnchanged, Places DEF MonitorRefused
<1>9. CASE MonitorFails(i)
  BY <1>9, KeyUnchanged, Places, FaultType DEF MonitorFails
<1>10. CASE MonitorElectFails(i)
  BY <1>10, KeyUnchanged, PutKeyType, Places, FaultType DEF MonitorElectFails, CreateKey, Monitor
<1>11. CASE MonitorPublishFails(i)
  BY <1>11, KeyUnchanged, Places, FaultType DEF MonitorPublishFails
<1>12. CASE MonitorEnds(i)
  BY <1>12, CloseType, Places DEF MonitorEnds, EndMonitor
<1> QED
  BY <1>1, <1>2, <1>3, <1>4, <1>5, <1>6, <1>7, <1>8, <1>9, <1>10, <1>11, <1>12 DEF MonitorStep

LEMMA EnvironmentType ==
  ASSUME TypeOK, Aging \/ Expiry
  PROVE  TypeOK'
BY KeyEnvType DEF TypeOK, Aging, Expiry, mainVars, hbVars, monVars

(* Every variable keeps its type, whatever fails, crashes and restarts.    *)
THEOREM TypeCorrect == Spec => []TypeOK
<1>1. Init => TypeOK
  <2>1. <<>> \in Seq(Instance \cup {NoOne})
    OBVIOUS
  <2>2. KeyInit => KeyType
    BY <2>1 DEF KeyInit, KeyType
  <2>3. 0 \in 0 .. MaxStarts /\ 0 \in 0 .. MaxFaults
    BY StickyAssumption
  <2> QED BY <2>2, <2>3, Places DEF Init, TypeOK
<1>2. TypeOK /\ [Next]_vars => TypeOK'
  <2> SUFFICES ASSUME TypeOK, [Next]_vars
               PROVE  TypeOK'
    OBVIOUS
  <2>1. ASSUME NEW i \in Instance, StartService(i) \/ StopService(i) \/ Crash(i)
        PROVE  TypeOK'
    BY <2>1, LifecycleType
  <2>2. ASSUME NEW i \in Instance, HeartbeatLoad(i) \/ HeartbeatStep(i)
        PROVE  TypeOK'
    BY <2>2, HeartbeatType
  <2>3. ASSUME NEW i \in Instance, MainStep(i)
        PROVE  TypeOK'
    BY <2>3, MainStepType, LifecycleType
  <2>4. ASSUME NEW i \in Instance, MonitorStep(i)
        PROVE  TypeOK'
    BY <2>4, MonitorType
  <2>5. CASE Aging \/ Expiry
    BY <2>5, EnvironmentType
  <2>6. CASE UNCHANGED vars
    BY <2>6, KeyUnchanged DEF TypeOK, vars, mainVars, hbVars, monVars
  <2> QED BY <2>1, <2>2, <2>3, <2>4, <2>5, <2>6 DEF Next
<1> QED BY <1>1, <1>2, PTL DEF Spec

-----------------------------------------------------------------------------
(* What a step does to the leader key.  The owner stays and no revision    *)
(* becomes current, or a caller reads the key of its own instance; a free  *)
(* key is taken; a heartbeat puts; a release deletes the revision it read; *)
(* the lease runs out.                                                     *)
NothingReleased == \A j \in Instance : ~(main[j] = "delete" /\ main'[j] = "finish")

KeyKept == leader' = leader /\ current' \subseteq current
KeyRead ==
  /\ leader' = leader
  /\ \E r \in Reader : leader = r[2] /\ current' = current \cup {r}
KeyTaken ==
  /\ leader = NoOne /\ leader' \in Instance /\ current' = {}
  /\ NothingReleased
KeyRewritten ==
  /\ \E i \in Instance : heartbeat[i] = "write" /\ leader' = i
  /\ current' = {} /\ NothingReleased
KeyGivenUp ==
  \E i \in Instance :
    /\ <<"release", i>> \in current /\ main[i] = "delete"
    /\ main' = [main EXCEPT ![i] = "finish"]
    /\ leader' = NoOne /\ current' = {}
KeyLapsed ==
  /\ LeaseExpires /\ leader # NoOne /\ leader' = NoOne /\ current' = {}
  /\ NothingReleased

KeyMove == KeyKept \/ KeyRead \/ KeyTaken \/ KeyRewritten \/ KeyGivenUp \/ KeyLapsed

LEMMA CreateTakes ==
  ASSUME NEW i \in Instance, CreateKey(i), NothingReleased
  PROVE  KeyTaken
BY DEF CreateKey, PutKey, KeyTaken

LEMMA OwnRead ==
  ASSUME NEW r \in Reader, leader = r[2], RememberRevision(r)
  PROVE  KeyRead
BY DEF RememberRevision, KeyRead

LEMMA MainKeyMove ==
  ASSUME TypeOK, NEW i \in Instance, MainStep(i)
  PROVE  KeyMove
<1> USE DEF TypeOK
<1>1. CASE LoadElectionState(i)
  BY <1>1 DEF LoadElectionState, keyVars, KeyMove, KeyKept
<1>2. CASE AttemptLeadership(i)
  <2>1. CASE CreateKey(i)
    BY <1>2, <2>1, CreateTakes DEF AttemptLeadership, KeyMove, NothingReleased
  <2>2. CASE UNCHANGED keyVars
    BY <2>2 DEF keyVars, KeyMove, KeyKept
  <2> QED BY <1>2, <2>1, <2>2 DEF AttemptLeadership
<1>3. CASE AttemptFails(i)
  <2>1. CASE CreateKey(i)
    BY <1>3, <2>1, CreateTakes DEF AttemptFails, Main, KeyMove, NothingReleased
  <2>2. CASE UNCHANGED keyVars
    BY <2>2 DEF keyVars, KeyMove, KeyKept
  <2> QED BY <1>3, <2>1, <2>2 DEF AttemptFails
<1>4. CASE LearnLeader(i) \/ SaveElectionState(i) \/ RegisterInstance(i) \/ RegisterFails(i)
  BY <1>4 DEF LearnLeader, SaveElectionState, RegisterInstance, RegisterFails,
              keyVars, KeyMove, KeyKept
<1>5. CASE ReleaseLookup(i)
  <2>1. CASE leader = i /\ RememberRevision(<<"release", i>>)
    BY <2>1, ReleaseReader, OwnRead DEF KeyMove
  <2>2. CASE UNCHANGED keyVars
    BY <2>2 DEF keyVars, KeyMove, KeyKept
  <2> QED BY <1>5, <2>1, <2>2 DEF ReleaseLookup
<1>6. CASE ReleaseDelete(i)
  <2>1. CASE DeleteRevision(<<"release", i>>)
    BY <1>6, <2>1 DEF ReleaseDelete, Main, DeleteRevision, DeleteKey, KeyMove, KeyGivenUp
  <2>2. CASE UNCHANGED keyVars
    BY <2>2 DEF keyVars, KeyMove, KeyKept
  <2> QED BY <1>6, <2>1, <2>2 DEF ReleaseDelete
<1>7. CASE FinishStop(i)
  BY <1>7 DEF FinishStop, KeyMove, KeyKept
<1> QED BY <1>1, <1>2, <1>3, <1>4, <1>5, <1>6, <1>7 DEF MainStep

LEMMA LifecycleKeyMove ==
  ASSUME NEW i \in Instance, StartService(i) \/ StopService(i) \/ Crash(i)
  PROVE  KeyMove
BY DEF StartService, StopService, Crash, keyVars, KeyMove, KeyKept

LEMMA HeartbeatKeyMove ==
  ASSUME TypeOK, NEW i \in Instance, HeartbeatLoad(i) \/ HeartbeatStep(i)
  PROVE  KeyMove
<1>1. CASE HeartbeatLoad(i) \/ HeartbeatFinish(i)
  BY <1>1 DEF HeartbeatLoad, HeartbeatFinish, keyVars, KeyMove, KeyKept
<1>2. CASE HeartbeatVerify(i)
  <2>1. CASE leader = i /\ RememberRevision(<<"heartbeat", i>>)
    BY <2>1, ReleaseReader, OwnRead DEF KeyMove
  <2>2. CASE UNCHANGED keyVars
    BY <2>2 DEF keyVars, KeyMove, KeyKept
  <2> QED BY <1>2, <2>1, <2>2 DEF HeartbeatVerify
<1>3. CASE HeartbeatCompare(i)
  BY <1>3 DEF HeartbeatCompare, KeyMove, KeyKept
<1>4. CASE HeartbeatWrite(i)
  <2>1. CASE PutKey(i)
    BY <1>4, <2>1 DEF HeartbeatWrite, mainVars, PutKey, KeyMove, KeyRewritten, NothingReleased
  <2>2. CASE UNCHANGED keyVars
    BY <2>2 DEF keyVars, KeyMove, KeyKept
  <2> QED BY <1>4, <2>1, <2>2 DEF HeartbeatWrite
<1> QED BY <1>1, <1>2, <1>3, <1>4 DEF HeartbeatStep

LEMMA MonitorKeyMove ==
  ASSUME TypeOK, NEW i \in Instance, MonitorStep(i)
  PROVE  KeyMove
<1>1. CASE CreateKey(i) /\ (MonitorElect(i) \/ MonitorElectFails(i))
  BY <1>1, CreateTakes DEF MonitorElect, MonitorElectFails, mainVars, KeyMove, NothingReleased
<1>2. CASE UNCHANGED keyVars
  BY <1>2 DEF keyVars, KeyMove, KeyKept
<1>3. CASE StartWatch(i) \/ ReceiveEvent(i) \/ MonitorEnds(i)
  BY <1>3 DEF StartWatch, OpenWatch, ReceiveEvent, TakeEvent, MonitorEnds, KeyMove, KeyKept
<1> QED
  BY <1>1, <1>2, <1>3 DEF MonitorStep, MonitorStepDown, MonitorElect, MonitorWon, MonitorLost,
     MonitorSave, MonitorRefused, MonitorFails, MonitorElectFails, MonitorPublishFails

LEMMA StepKeyMove ==
  ASSUME TypeOK, [Next]_vars
  PROVE  KeyMove
<1>1. CASE Aging
  BY <1>1 DEF Aging, LeaseAges, KeyMove, KeyKept
<1>2. CASE Expiry
  BY <1>2 DEF Expiry, LeaseRunsOut, mainVars, KeyMove, KeyLapsed, NothingReleased
<1>3. CASE UNCHANGED vars
  BY <1>3 DEF vars, keyVars, KeyMove, KeyKept
<1> QED
  BY <1>1, <1>2, <1>3, MainKeyMove, LifecycleKeyMove, HeartbeatKeyMove, MonitorKeyMove DEF Next

(* A revision that would pass the check of kv.delete was written by the    *)
(* instance that remembers it: release_leadership deletes no foreign key.  *)
THEOREM RevisionsAreOwned == Spec => []RevisionOwned
<1>1. Init => RevisionOwned
  BY DEF Init, KeyInit, RevisionOwned
<1>2. TypeOK /\ RevisionOwned /\ [Next]_vars => RevisionOwned'
  BY StepKeyMove DEF RevisionOwned, KeyMove, KeyKept, KeyRead, KeyTaken, KeyRewritten,
     KeyGivenUp, KeyLapsed
<1> QED BY <1>1, <1>2, TypeCorrect, PTL DEF Spec

(* stop() never deletes a key that passed to another instance between      *)
(* release_leadership's read and its delete.                               *)
THEOREM ReleasesOnlyOwn == Spec => ReleaseOnlyOwn
<1> DEFINE Safe == \A i \in Instance :
             main[i] = "delete" /\ main'[i] = "finish" => leader' = leader \/ leader = i
<1>1. TypeOK /\ RevisionOwned /\ [Next]_vars => [Safe]_vars
  <2> SUFFICES ASSUME TypeOK, RevisionOwned, [Next]_vars,
                      NEW i \in Instance, main[i] = "delete", main'[i] = "finish",
                      leader' # leader
               PROVE  leader = i
    OBVIOUS
  <2>1. KeyGivenUp
    BY StepKeyMove DEF KeyMove, KeyKept, KeyRead, KeyTaken, KeyRewritten, KeyLapsed,
       NothingReleased
  <2>2. <<"release", i>> \in current
    BY <2>1 DEF KeyGivenUp, TypeOK
  <2> QED BY <2>2 DEF RevisionOwned
<1> QED BY <1>1, TypeCorrect, RevisionsAreOwned, PTL DEF Spec, ReleaseOnlyOwn

-----------------------------------------------------------------------------
(* Nothing invokes the heartbeat of SingleActiveService, so nothing puts   *)
(* the key once it exists.                                                 *)
NoHeartbeat == \A i \in Instance : heartbeat[i] = "idle"

LEMMA HeartbeatStaysIdle ==
  ASSUME ~HeartbeatDriven, TypeOK, NoHeartbeat, [Next]_vars
  PROVE  NoHeartbeat'
<1> USE DEF TypeOK, NoHeartbeat, hbVars
<1>1. ASSUME NEW i \in Instance, StartService(i) \/ StopService(i) \/ Crash(i)
      PROVE  NoHeartbeat'
  BY <1>1 DEF StartService, StopService, Crash, ForgetHeartbeat
<1>2. ASSUME NEW i \in Instance, HeartbeatLoad(i) \/ HeartbeatStep(i)
      PROVE  FALSE
  BY <1>2 DEF HeartbeatLoad, HeartbeatStep, HeartbeatVerify, HeartbeatCompare,
              HeartbeatWrite, HeartbeatFinish
<1>3. ASSUME NEW i \in Instance, MainStep(i)
      PROVE  NoHeartbeat'
  BY <1>3 DEF MainStep, LoadElectionState, AttemptLeadership, AttemptFails, LearnLeader,
     SaveElectionState, RegisterInstance, RegisterFails, ReleaseLookup, ReleaseDelete,
     FinishStop, ForgetHeartbeat
<1>4. ASSUME NEW i \in Instance, MonitorStep(i)
      PROVE  NoHeartbeat'
  BY <1>4 DEF MonitorStep, StartWatch, ReceiveEvent, MonitorStepDown, MonitorElect, MonitorWon,
     MonitorLost, MonitorSave, MonitorRefused, MonitorFails, MonitorElectFails,
     MonitorPublishFails, MonitorEnds
<1>5. CASE Aging \/ Expiry \/ UNCHANGED vars
  BY <1>5 DEF Aging, Expiry, vars
<1> QED BY <1>1, <1>2, <1>3, <1>4, <1>5 DEF Next

(* As long as no heartbeat writes it, the leader key is a lock, whatever   *)
(* fails, crashes, restarts and expires: create and delete-with-revision   *)
(* are enough for mutual exclusion, check-then-put is what breaks it.      *)
THEOREM KeyIsLock == ASSUME ~HeartbeatDriven PROVE Spec => ImplementsLock
<1> DEFINE Inv == TypeOK /\ RevisionOwned /\ NoHeartbeat
<1>1. Init => Lock!LockInit
  BY DEF Init, KeyInit, Lock!LockInit
<1>2. Inv /\ [Next]_vars => [Lock!LockNext]_leader
  <2> SUFFICES ASSUME Inv, [Next]_vars, leader' # leader
               PROVE  Lock!LockNext
    OBVIOUS
  <2>1. KeyTaken \/ KeyGivenUp \/ KeyLapsed
    BY StepKeyMove DEF KeyMove, KeyKept, KeyRead, KeyRewritten, NoHeartbeat
  <2>2. CASE KeyTaken
    BY <2>2 DEF KeyTaken, Lock!LockNext, Lock!Acquire
  <2>3. CASE KeyGivenUp
    BY <2>3 DEF KeyGivenUp, RevisionOwned, Lock!LockNext, Lock!Release
  <2>4. CASE KeyLapsed
    BY <2>4 DEF KeyLapsed, Lock!LockNext, Lock!Lapse
  <2> QED BY <2>1, <2>2, <2>3, <2>4
<1>3. Init => NoHeartbeat
  BY DEF Init, NoHeartbeat
<1>4. TypeOK /\ NoHeartbeat /\ [Next]_vars => NoHeartbeat'
  BY HeartbeatStaysIdle
<1> QED
  BY <1>1, <1>2, <1>3, <1>4, TypeCorrect, RevisionsAreOwned, PTL
     DEF Spec, ImplementsLock, Lock!LockSpec

-----------------------------------------------------------------------------
(* Mutual exclusion.  ActiveHoldsKey is not inductive: who becomes active  *)
(* depends on the outcome its coroutine carries from the create to the     *)
(* flag, and an instance id that starts afresh finds no saved aggregate.   *)
Unstarted ==
  \A i \in Instance : starts[i] = 0 => main[i] = "down" /\ saved[i] = "none"
FirstLoad == \A i \in Instance : main[i] = "load" => saved[i] = "none"
Monitored == \A i \in Instance : monitor[i] # "off" => main[i] = "up"
Contending ==
  \A i \in Instance : main[i] \in {"attempt", "learn"} => election[i] = "ELECTING"
Elected ==
  \A i \in Instance :
    (main[i] \in {"save", "register"} /\ election[i] = "ACTIVE") \/ monitor[i] = "won"
      => leader = i

FirstLife == Unstarted /\ FirstLoad /\ Monitored /\ Contending /\ NoHeartbeat
ExclusiveInv == FirstLife /\ Elected /\ ActiveHoldsKey

LEMMA MainFirstLife ==
  ASSUME MaxStarts = 1, TypeOK, FirstLife, NEW i \in Instance,
         StartService(i) \/ StopService(i) \/ Crash(i) \/ MainStep(i)
  PROVE  (Unstarted /\ FirstLoad /\ Monitored /\ Contending)'
<1> USE DEF TypeOK, FirstLife, Unstarted, FirstLoad, Monitored, Contending, NoHeartbeat,
            mainVars, hbVars, monVars, Main
<1>1. CASE StartService(i)
  BY <1>1 DEF StartService
<1>2. CASE StopService(i)
  BY <1>2 DEF StopService, EndMonitor
<1>3. CASE Crash(i)
  BY <1>3 DEF Crash, EndMonitor, ForgetElection
<1>4. CASE LoadElectionState(i)
  BY <1>4 DEF LoadElectionState, ElectionBegins, IsLeader, MayRefuseElection
<1>5. CASE AttemptLeadership(i)
  BY <1>5 DEF AttemptLeadership
<1>6. CASE AttemptFails(i) \/ RegisterFails(i)
  BY <1>6 DEF AttemptFails, RegisterFails, ForgetElection
<1>7. CASE LearnLeader(i)
  BY <1>7 DEF LearnLeader
<1>8. CASE SaveElectionState(i)
  BY <1>8 DEF SaveElectionState
<1>9. CASE RegisterInstance(i)
  BY <1>9 DEF RegisterInstance, ForgetElection
<1>10. CASE ReleaseLookup(i)
  BY <1>10 DEF ReleaseLookup
<1>11. CASE ReleaseDelete(i)
  BY <1>11 DEF ReleaseDelete
<1>12. CASE FinishStop(i)
  BY <1>12 DEF FinishStop
<1> QED
  BY <1>1, <1>2, <1>3, <1>4, <1>5, <1>6, <1>7, <1>8, <1>9, <1>10, <1>11, <1>12 DEF MainStep

LEMMA MonitorFirstLife ==
  ASSUME TypeOK, FirstLife, NEW i \in Instance, MonitorStep(i)
  PROVE  (Unstarted /\ FirstLoad /\ Monitored /\ Contending)'
<1> USE DEF TypeOK, FirstLife, Unstarted, FirstLoad, Monitored, Contending, mainVars, monVars,
            Monitor
<1>1. UNCHANGED mainVars
  BY DEF MonitorStep, StartWatch, ReceiveEvent, MonitorStepDown, MonitorElect, MonitorWon,
     MonitorLost, MonitorSave, MonitorRefused, MonitorFails, MonitorElectFails,
     MonitorPublishFails, MonitorEnds
<1>2. monitor[i] # "off"
  BY DEF MonitorStep, StartWatch, ReceiveEvent, MonitorStepDown, MonitorElect, MonitorWon,
     MonitorLost, MonitorSave, MonitorRefused, MonitorFails, MonitorElectFails,
     MonitorPublishFails, MonitorEnds
<1>3. \A j \in Instance \ {i} : monitor'[j] = monitor[j] /\ saved'[j] = saved[j]
  BY DEF MonitorStep, StartWatch, ReceiveEvent, MonitorStepDown, MonitorElect, MonitorWon,
     MonitorLost, MonitorSave, MonitorRefused, MonitorFails, MonitorElectFails,
     MonitorPublishFails, MonitorEnds, EndMonitor
<1> QED BY <1>1, <1>2, <1>3

LEMMA FirstLifeKept ==
  ASSUME ~HeartbeatDriven, MaxStarts = 1, TypeOK, FirstLife, [Next]_vars
  PROVE  FirstLife'
<1>1. NoHeartbeat'
  BY HeartbeatStaysIdle DEF FirstLife
<1>2. ASSUME NEW i \in Instance, HeartbeatLoad(i) \/ HeartbeatStep(i)
      PROVE  FALSE
  BY <1>2 DEF FirstLife, NoHeartbeat, HeartbeatLoad, HeartbeatStep, HeartbeatVerify,
     HeartbeatCompare, HeartbeatWrite, HeartbeatFinish
<1>3. CASE Aging \/ Expiry \/ UNCHANGED vars
  BY <1>1, <1>3 DEF Aging, Expiry, vars, mainVars, monVars, FirstLife, Unstarted, FirstLoad,
     Monitored, Contending
<1> QED BY <1>1, <1>2, <1>3, MainFirstLife, MonitorFirstLife DEF Next, FirstLife

(* The key leaves its owner only through the owner's own release.          *)
LEMMA OwnerKept ==
  ASSUME ~LeaseExpires, TypeOK, RevisionOwned, NoHeartbeat, [Next]_vars,
         NEW j \in Instance, leader = j
  PROVE  leader' = j \/ (main[j] = "delete" /\ main'[j] = "finish")
<1>1. CASE KeyGivenUp
  BY <1>1 DEF KeyGivenUp, RevisionOwned, TypeOK
<1> QED
  BY <1>1, StepKeyMove, KeyAssumption
     DEF KeyMove, KeyKept, KeyRead, KeyTaken, KeyRewritten, KeyLapsed, NoHeartbeat

(* The outcome of an election that a coroutine carries.                    *)
Carries(j) ==
  (main[j] \in {"save", "register"} /\ election[j] = "ACTIVE") \/ monitor[j] = "won"

LEMMA MainCarries ==
  ASSUME TypeOK, FirstLife, NEW i \in Instance, NEW j \in Instance,
         StartService(i) \/ StopService(i) \/ Crash(i) \/ MainStep(i), Carries(j)'
  PROVE  Carries(j) \/ leader' = j
<1> USE DEF TypeOK, FirstLife, FirstLoad, Contending, Carries, Main, monVars
<1>1. CASE StartService(i) \/ StopService(i) \/ Crash(i)
  BY <1>1 DEF StartService, StopService, Crash, EndMonitor, ForgetElection
<1>2. CASE LoadElectionState(i)
  BY <1>2 DEF LoadElectionState, ElectionBegins, IsLeader
<1>3. CASE AttemptLeadership(i)
  BY <1>3 DEF AttemptLeadership, CreateKey, PutKey
<1>4. CASE LearnLeader(i)
  BY <1>4 DEF LearnLeader, LoseElection
<1>5. CASE SaveElectionState(i)
  BY <1>5 DEF SaveElectionState
<1>6. CASE AttemptFails(i) \/ RegisterInstance(i) \/ RegisterFails(i)
  BY <1>6 DEF AttemptFails, RegisterInstance, RegisterFails, ForgetElection
<1>7. CASE ReleaseLookup(i) \/ ReleaseDelete(i) \/ FinishStop(i)
  BY <1>7 DEF ReleaseLookup, ReleaseDelete, FinishStop
<1> QED BY <1>1, <1>2, <1>3, <1>4, <1>5, <1>6, <1>7 DEF MainStep

LEMMA MonitorCarries ==
  ASSUME TypeOK, NEW i \in Instance, NEW j \in Instance, MonitorStep(i), Carries(j)'
  PROVE  Carries(j) \/ leader' = j
<1> USE DEF TypeOK, Carries, Monitor, mainVars, monVars
<1>1. CASE MonitorElect(i)
  BY <1>1 DEF MonitorElect, CreateKey, PutKey
<1>2. CASE ReceiveEvent(i)
  BY <1>2 DEF ReceiveEvent, MonitorReaction
<1>3. CASE StartWatch(i) \/ MonitorStepDown(i) \/ MonitorWon(i) \/ MonitorLost(i)
           \/ MonitorSave(i)
  BY <1>3 DEF StartWatch, MonitorStepDown, MonitorWon, MonitorLost, MonitorSave
<1>4. CASE MonitorRefused(i) \/ MonitorFails(i) \/ MonitorElectFails(i)
           \/ MonitorPublishFails(i) \/ MonitorEnds(i)
  BY <1>4 DEF MonitorRefused, MonitorFails, MonitorElectFails, MonitorPublishFails,
     MonitorEnds, EndMonitor
<1> QED BY <1>1, <1>2, <1>3, <1>4 DEF MonitorStep

LEMMA ElectedKept ==
  ASSUME ~LeaseExpires, TypeOK, RevisionOwned, FirstLife, Elected, [Next]_vars
  PROVE  Elected'
<1> SUFFICES ASSUME NEW j \in Instance, Carries(j)'
             PROVE  leader' = j
  BY DEF Elected, Carries
<1>1. Carries(j) \/ leader' = j
  <2>1. ASSUME NEW i \in Instance, HeartbeatLoad(i) \/ HeartbeatStep(i)
        PROVE  Carries(j)
    BY <2>1 DEF FirstLife, NoHeartbeat, HeartbeatLoad, HeartbeatStep, HeartbeatVerify,
       HeartbeatCompare, HeartbeatWrite, HeartbeatFinish, Carries, mainVars, monVars
  <2>2. CASE Aging \/ Expiry \/ UNCHANGED vars
    BY <2>2 DEF Aging, Expiry, vars, mainVars, monVars, Carries
  <2> QED BY <2>1, <2>2, MainCarries, MonitorCarries DEF Next
<1>2. CASE Carries(j)
  <2>1. leader = j
    BY <1>2 DEF Elected, Carries
  <2>2. main[j] # "delete"
    BY <1>2 DEF Carries, FirstLife, Monitored
  <2> QED BY <2>1, <2>2, OwnerKept DEF FirstLife
<1> QED BY <1>1, <1>2

(* Who is active after a step was active before it, and is not on the way  *)
(* out of stop(), or becomes active as the owner of the key.               *)
LEMMA ActiveStep ==
  ASSUME ~HeartbeatDriven, TypeOK, FirstLife, Elected, [Next]_vars,
         NEW j \in Instance, is_active'[j]
  PROVE  \/ is_active[j] /\ (main[j] = "finish" => main'[j] = "finish")
         \/ leader' = j
<1> USE DEF TypeOK
<1>1. ASSUME NEW i \in Instance, StartService(i) \/ StopService(i) \/ Crash(i)
      PROVE  is_active[j] /\ (main[j] = "finish" => main'[j] = "finish")
  BY <1>1 DEF StartService, StopService, Crash
<1>2. ASSUME NEW i \in Instance, MainStep(i), ~RegisterInstance(i)
      PROVE  is_active[j] /\ (main[j] = "finish" => main'[j] = "finish")
  BY <1>2 DEF MainStep, LoadElectionState, ElectionBegins, AttemptLeadership, AttemptFails,
     LearnLeader, SaveElectionState, RegisterFails, ReleaseLookup, ReleaseDelete, FinishStop, Main
<1>3. ASSUME NEW i \in Instance, RegisterInstance(i)
      PROVE  \/ is_active[j] /\ (main[j] = "finish" => main'[j] = "finish")
             \/ leader' = j
  BY <1>3 DEF RegisterInstance, Main, IsLeader, Elected, keyVars
<1>4. ASSUME NEW i \in Instance, HeartbeatLoad(i) \/ HeartbeatStep(i)
      PROVE  FALSE
  BY <1>4 DEF FirstLife, NoHeartbeat, HeartbeatLoad, HeartbeatStep, HeartbeatVerify,
     HeartbeatCompare, HeartbeatWrite, HeartbeatFinish
<1>5. ASSUME NEW i \in Instance, MonitorStep(i)
      PROVE  \/ is_active[j] /\ (main[j] = "finish" => main'[j] = "finish")
             \/ leader' = j
  <2>1. CASE MonitorWon(i) \/ MonitorPublishFails(i)
    BY <2>1 DEF MonitorWon, MonitorPublishFails, Monitor, Elected, keyVars, mainVars
  <2>2. CASE MonitorStepDown(i)
    BY <2>2 DEF MonitorStepDown, mainVars
  <2>3. CASE UNCHANGED <<is_active, main>>
    BY <2>3
  <2> QED
    BY <1>5, <2>1, <2>2, <2>3 DEF MonitorStep, StartWatch, ReceiveEvent, MonitorElect, MonitorLost,
       MonitorSave, MonitorRefused, MonitorFails, MonitorElectFails, MonitorEnds, mainVars
<1>6. CASE Aging \/ Expiry \/ UNCHANGED vars
  BY <1>6 DEF Aging, Expiry, vars, mainVars
<1> QED BY <1>1, <1>2, <1>3, <1>4, <1>5, <1>6 DEF Next

LEMMA ActiveKept ==
  ASSUME ~LeaseExpires, ~HeartbeatDriven, TypeOK, RevisionOwned, FirstLife, Elected,
         ActiveHoldsKey, [Next]_vars
  PROVE  ActiveHoldsKey'
<1> SUFFICES ASSUME NEW j \in Instance, is_active'[j], leader' # j
             PROVE  main'[j] = "finish"
  BY DEF ActiveHoldsKey
<1>1. is_active[j] /\ (main[j] = "finish" => main'[j] = "finish")
  BY ActiveStep
<1>2. leader = j \/ main[j] = "finish"
  BY <1>1 DEF ActiveHoldsKey
<1> QED BY <1>1, <1>2, OwnerKept DEF FirstLife

(* In a bucket whose keys do not expire, and with instance ids used once,  *)
(* an instance that serves exclusive RPCs owns the leader key until it has *)
(* released it; so at most one instance serves them, those about to leave  *)
(* stop() aside.                                                           *)
THEOREM ActiveOwnsKey ==
  ASSUME ~LeaseExpires, ~HeartbeatDriven, MaxStarts = 1
  PROVE  Spec => []ActiveHoldsKey
<1>1. Init => ExclusiveInv
  BY DEF Init, ExclusiveInv, FirstLife, Unstarted, FirstLoad, Monitored, Contending,
     NoHeartbeat, Elected, ActiveHoldsKey
<1>2. TypeOK /\ RevisionOwned /\ ExclusiveInv /\ [Next]_vars => ExclusiveInv'
  BY FirstLifeKept, ElectedKept, ActiveKept DEF ExclusiveInv
<1>3. ExclusiveInv => ActiveHoldsKey
  BY DEF ExclusiveInv
<1> QED BY <1>1, <1>2, <1>3, TypeCorrect, RevisionsAreOwned, PTL DEF Spec

THEOREM OneActive ==
  ASSUME ~LeaseExpires, ~HeartbeatDriven, MaxStarts = 1
  PROVE  Spec => []AtMostOneActive
<1>1. TypeOK /\ ActiveHoldsKey => AtMostOneActive
  BY DEF ActiveHoldsKey, AtMostOneActive
<1> QED BY <1>1, TypeCorrect, ActiveOwnsKey, PTL

=============================================================================
