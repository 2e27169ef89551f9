-------------------------- MODULE InstanceRecords ---------------------------
(***************************************************************************)
(* The records of service instances in the bucket: written by the heartbeat*)
(* of each instance, removed by its deregistration or by the script that   *)
(* cleans up stale entries, and read, key by key, by the monitor API and   *)
(* by the discovery of the SDK.                                            *)
(*                                                                         *)
(* A tick is a heartbeat period.  No record expires by itself: a record's  *)
(* TTL option is not passed on to the bucket.                              *)
(***************************************************************************)
EXTENDS Naturals, FiniteSets

CONSTANTS
  Inst,          \* the instances of a service
  NoRecord,      \* a key that is not there
  Stale,         \* the age above which a record is stale, in ticks
  MaxCleans,     \* bound: runs of the cleanup script
  MaxRecordFaults  \* bound: reads that fail

ASSUME RecordAssumption == Stale \in Nat \ {0} /\ MaxCleans \in Nat /\ MaxRecordFaults \in Nat

MaxAge == Stale + 1
(* STANDBY is read as ACTIVE by every reader.                              *)
RecordStatus == {"ACTIVE", "UNHEALTHY"}
Reading == {"idle", "monitor", "discovery", "script"}

VARIABLES
  record,     \* the record of an instance: its status and age
  up,         \* the instance: up, crashed, or off
  beat,       \* its heartbeat: due, or waits for the next
  gone,       \* history: ticks since it crashed
  reader,     \* who is reading, or idle
  unread,     \* the keys it has still to get
  answer,     \* the records it takes
  absent,     \* history: not fit to be shown at some moment of this reading
  expired,    \* history: crashed too long ago when the reading began
  slipped,    \* history: a read of this reading failed
  doomed,     \* the keys the script will delete
  cleans, recordFaults

recordVars == <<record, up, beat, gone, reader, unread, answer, absent,
                expired, slipped, doomed, cleans, recordFaults>>
readingVars == <<reader, unread, answer, expired, slipped>>
scriptVars == <<doomed, cleans>>

Record == [status : RecordStatus, age : 0 .. MaxAge]

RecordTypeOK ==
  /\ record \in [Inst -> Record \cup {NoRecord}]
  /\ up \in [Inst -> {"up", "crashed", "off"}]
  /\ beat \in [Inst -> {"waits", "due"}]
  /\ gone \in [Inst -> 0 .. MaxAge]
  /\ reader \in Reading /\ {unread, answer} \subseteq SUBSET Inst
  /\ {absent, expired, doomed} \subseteq SUBSET Inst
  /\ slipped \in BOOLEAN
  /\ cleans \in 0 .. MaxCleans /\ recordFaults \in 0 .. MaxRecordFaults

RecordInit ==
  /\ record = [i \in Inst |-> NoRecord] /\ up = [i \in Inst |-> "off"]
  /\ beat = [i \in Inst |-> "waits"] /\ gone = [i \in Inst |-> 0]
  /\ reader = "idle" /\ unread = {} /\ answer = {}
  /\ absent = {} /\ expired = {} /\ slipped = FALSE
  /\ doomed = {} /\ cleans = 0 /\ recordFaults = 0

Kept(i) == record[i] # NoRecord
Older(a) == IF a < MaxAge THEN a + 1 ELSE a

-----------------------------------------------------------------------------
(* Who takes which record *)

(* The monitor's staleness filter.                                         *)
Fresh(r) == r.age <= Stale

(* The discovery looks at the status alone, never at the age.              *)
Healthy(r) == r.status # "UNHEALTHY"

(* The script takes records that are stale, unhealthy, or without a TTL    *)
(* mark: nats.py never sets the mark on a read, so it takes them all.      *)
Takes(who, r) == CASE who = "monitor" -> Fresh(r)
                   [] who = "discovery" -> Healthy(r)
                   [] OTHER -> TRUE

Fit(r) == r # NoRecord /\ Takes(reader', r)

-----------------------------------------------------------------------------
(* The instances *)

(* What a change of the records does to the reading under way: who is not  *)
(* fit to be shown any more is noted.                                      *)
Noting == absent' = IF reader = "idle" THEN {}
                    ELSE absent \cup {i \in Inst : ~Fit(record'[i])}

Start(i) ==
  /\ up[i] = "off" /\ ~Kept(i) /\ up' = [up EXCEPT ![i] = "up"]
  /\ record' = [record EXCEPT ![i] = [status |-> "ACTIVE", age |-> 0]]
  /\ UNCHANGED <<beat, gone, readingVars, scriptVars, recordFaults>> /\ Noting

(* Mutant of Beat: a record that was lost is not written again.      *)
BeatUpdates(i) ==
  /\ up[i] = "up" /\ beat[i] = "due" /\ beat' = [beat EXCEPT ![i] = "waits"]
  /\ record' = [record EXCEPT ![i] = IF Kept(i) THEN [@ EXCEPT !.age = 0] ELSE NoRecord]
  /\ UNCHANGED <<up, gone, readingVars, scriptVars, recordFaults>> /\ Noting

(* update_heartbeat puts the record whether its get found one or not, so   *)
(* get and put are one step.                                               *)
Beat(i) ==
  /\ up[i] = "up" /\ beat[i] = "due" /\ beat' = [beat EXCEPT ![i] = "waits"]
  /\ \E s \in RecordStatus :
       record' = [record EXCEPT ![i] = [status |-> s, age |-> 0]]
  /\ UNCHANGED <<up, gone, readingVars, scriptVars, recordFaults>> /\ Noting

(* Its successor has an identifier of its own.                             *)
Crash(i) ==
  /\ up[i] = "up" /\ up' = [up EXCEPT ![i] = "crashed"]
  /\ beat' = [beat EXCEPT ![i] = "waits"] /\ gone' = [gone EXCEPT ![i] = 0]
  /\ UNCHANGED <<record, readingVars, absent, scriptVars, recordFaults>>

(* stop cancels the heartbeat before it deregisters.                       *)
Deregister(i) ==
  /\ up[i] = "up" /\ up' = [up EXCEPT ![i] = "off"]
  /\ beat' = [beat EXCEPT ![i] = "waits"]
  /\ record' = [record EXCEPT ![i] = NoRecord]
  /\ UNCHANGED <<gone, readingVars, scriptVars, recordFaults>> /\ Noting

(* A period passes; bound: a heartbeat takes less than a period.           *)
Tick ==
  /\ \A i \in Inst : beat[i] = "waits"
  /\ beat' = [i \in Inst |-> IF up[i] = "up" THEN "due" ELSE "waits"]
  /\ record' = [i \in Inst |-> IF Kept(i) THEN [record[i] EXCEPT !.age = Older(@)]
                               ELSE NoRecord]
  /\ gone' = [i \in Inst |-> IF up[i] = "crashed" THEN Older(gone[i]) ELSE gone[i]]
  /\ UNCHANGED <<up, readingVars, scriptVars, recordFaults>> /\ Noting

-----------------------------------------------------------------------------
(* The readers *)

(* keys: all keys at one moment; when it fails, and for the monitor when   *)
(* there is none, there is nothing to read.                                *)
BeginReading(who) ==
  /\ reader = "idle" /\ reader' = who
  /\ who = "script" => cleans < MaxCleans /\ doomed = {}
  /\ unread' = {i \in Inst : Kept(i)} /\ answer' = {} /\ slipped' = FALSE
  /\ absent' = {i \in Inst : ~Fit(record[i])}
  /\ expired' = {i \in Inst : up[i] = "crashed" /\ gone[i] > Stale}
  /\ UNCHANGED <<record, up, beat, gone, scriptVars, recordFaults>>

(* Mutant of ReadOne: the loop ends at a key that is not to be taken.      *)
ReadOneOrStop(i) ==
  /\ reader # "idle" /\ i \in unread
  /\ LET took == Kept(i) /\ Takes(reader, record[i]) IN
     /\ unread' = IF took THEN unread \ {i} ELSE {}
     /\ answer' = IF took THEN answer \cup {i} ELSE answer
  /\ UNCHANGED <<record, up, beat, gone, reader, absent, expired, slipped, scriptVars, recordFaults>>

(* get of one key: a key that went meanwhile, or whose get fails, is left  *)
(* out of the answer.                                                      *)
ReadOne(i) ==
  /\ reader # "idle" /\ i \in unread /\ unread' = unread \ {i}
  /\ \/ /\ answer' = IF Kept(i) /\ Takes(reader, record[i]) THEN answer \cup {i}
                     ELSE answer
        /\ UNCHANGED <<slipped, recordFaults>>
     \/ /\ recordFaults < MaxRecordFaults /\ recordFaults' = recordFaults + 1
        /\ slipped' = TRUE /\ UNCHANGED answer
  /\ UNCHANGED <<record, up, beat, gone, reader, absent, expired, scriptVars>>

EndReading ==
  /\ reader # "idle" /\ unread = {} /\ reader' = "idle"
  /\ IF reader = "script" THEN doomed' = answer /\ cleans' = cleans + 1
     ELSE UNCHANGED scriptVars
  /\ answer' = {} /\ absent' = {} /\ expired' = {} /\ slipped' = FALSE
  /\ UNCHANGED <<record, up, beat, gone, unread, recordFaults>>

(* The script deletes what it listed, whatever has become of it since.     *)
ScriptDeletes(i) ==
  /\ i \in doomed /\ doomed' = doomed \ {i}
  /\ record' = [record EXCEPT ![i] = NoRecord]
  /\ UNCHANGED <<up, gone, beat, readingVars, cleans, recordFaults>> /\ Noting

InstanceStep(i) == Start(i) \/ Beat(i) \/ Crash(i) \/ Deregister(i)

RecordNext ==
  \/ Tick \/ EndReading
  \/ \E who \in Reading \ {"idle"} : BeginReading(who)
  \/ \E i \in Inst : InstanceStep(i) \/ ReadOne(i) \/ ScriptDeletes(i)

RecordSpec == RecordInit /\ [][RecordNext]_recordVars

(* An instance that is up goes on beating, and time goes on.               *)
RecordFairness ==
  WF_recordVars(Tick) /\ \A i \in Inst : WF_recordVars(Beat(i))

-----------------------------------------------------------------------------
(* Properties *)

(* An instance that had been dead for longer than the threshold when a     *)
(* listing of the monitor began is not in it.                              *)
DeadIsNotShown == reader = "monitor" => answer \cap expired = {}

(* An instance with a record fit to be shown during the whole of a reading *)
(* is in its answer, though the reading is many calls between which the    *)
(* instances write.                                                        *)
LiveIsShown ==
  reader # "idle" /\ unread = {} /\ ~slipped => Inst \ absent \subseteq answer

(* The types, and what a listing shows.                                    *)
ListingSound == RecordTypeOK /\ DeadIsNotShown /\ LiveIsShown

(* The script deletes the records of living instances too; an instance     *)
(* that stays up has a record again and again all the same.                *)
RecordComesBack ==
  \A i \in Inst : <>[](up[i] = "up") => []<>Kept(i)
=============================================================================
