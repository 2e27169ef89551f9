------------------------- MODULE ElectionAggregate --------------------------
(***************************************************************************)
(* The aggregate StickyActiveElection with its clock: what the methods     *)
(* accept in which state, which events they record, and how the configured *)
(* seconds decide when a silent leader counts as failed.  StickyActive     *)
(* models the use cases that call these methods, without seconds.          *)
(*                                                                         *)
(* A tick is a second.  The leader this instance follows writes its        *)
(* heartbeat every BeatOf(ttl) seconds; a heartbeat arrives at once or is  *)
(* lost.                                                                   *)
(***************************************************************************)
EXTENDS Naturals, Sequences

CONSTANTS
  Self, Other,   \* this instance's id, the ids of the others
  NoOne,         \* no leader known
  MaxTtl,        \* bound: leader_ttl_seconds configured
  MaxEvents      \* bound: events not committed yet

ASSUME AggregateAssumption ==
  Self \notin Other /\ NoOne \notin Other \cup {Self} /\ MaxTtl \in Nat /\ MaxEvents \in Nat

Timeout == 10        \* election_timeout_seconds, which nobody configures
RepositoryTtl == 5   \* the repository judges with a service of its own
Never == Timeout + 1 \* a time that was not set
Second == 0 .. Timeout

VARIABLES
  ttl,       \* leader_ttl_seconds, 0 before the aggregate exists
  status, leader,
  seen,      \* seconds since last_leader_heartbeat, or Never
  tried,     \* seconds since last_election_attempt, or Never
  events,    \* the events not committed yet
  told,      \* history: the status the committed events amount to
  sent,      \* seconds since the leader followed wrote its heartbeat
  lost       \* how many of its heartbeats in a row were lost

ballot == <<status, leader>>
clock == <<seen, tried>>
beats == <<sent, lost>>
aggregateVars == <<ttl, ballot, clock, events, told, beats>>

AggregateTypeOK ==
  /\ ttl \in 0 .. MaxTtl
  /\ status \in {"STANDBY", "ELECTING", "ACTIVE"}
  /\ leader \in Other \cup {Self, NoOne}
  /\ seen \in 0 .. Never /\ tried \in 0 .. Never
  /\ events \in Seq({"started", "won", "lost", "stepped down", "other"})
  /\ told \in {"STANDBY", "ELECTING", "ACTIVE"}
  /\ sent \in Second /\ lost \in Nat

(* max(1, ttl // 3): the heartbeat interval the registration derives.      *)
(* Mutant of BeatOf: half of the ttl, rounded up.                         *)
BeatHalved(t) == IF t < 3 THEN 1 ELSE (t + 1) \div 2
BeatOf(t) == IF t < 3 THEN 1 ELSE t \div 3

(* The constructor, on every path by which a ttl arrives there.            *)
TtlAccepted(t) == t >= 1 /\ BeatOf(t) < t /\ Timeout > t

AggregateInit ==
  /\ ttl = 0 /\ status = "STANDBY" /\ leader = NoOne
  /\ seen = Never /\ tried = Never
  /\ events = <<>> /\ told = "STANDBY" /\ sent = 0 /\ lost = 0

IsLeader == status = "ACTIVE" /\ leader = Self

Record(e) == Len(events) < MaxEvents /\ events' = Append(events, e)

Create(t) ==
  /\ ttl = 0 /\ TtlAccepted(t)
  /\ ttl' = t /\ Record("other")
  /\ UNCHANGED <<ballot, clock, told, beats>>

(* From ELECTING only when the last attempt has timed out.                 *)
StartElection ==
  /\ ttl # 0 /\ status # "ACTIVE"
  /\ status = "ELECTING" => tried = Never \/ tried >= Timeout
  /\ status' = "ELECTING" /\ tried' = 0 /\ Record("started")
  /\ UNCHANGED <<ttl, leader, seen, told, beats>>

WinElection ==
  /\ status = "ELECTING"
  /\ status' = "ACTIVE" /\ leader' = Self /\ seen' = 0 /\ Record("won")
  /\ UNCHANGED <<ttl, tried, told, beats>>

LoseElection(w) ==
  /\ status = "ELECTING"
  /\ status' = "STANDBY" /\ leader' = w /\ seen' = 0 /\ lost' = 0
  /\ Record("lost")
  /\ UNCHANGED <<ttl, tried, told, sent>>

UpdateHeartbeat ==
  /\ IsLeader
  /\ seen' = 0 /\ Record("other")
  /\ UNCHANGED <<ttl, ballot, tried, told, beats>>

(* The heartbeat of a leader arrives: observe_leader_heartbeat records no  *)
(* event.                                                                  *)
ObserveHeartbeat(l) ==
  /\ ttl # 0 /\ ~IsLeader
  /\ leader' = l /\ seen' = 0 /\ sent' = 0 /\ lost' = 0
  /\ UNCHANGED <<ttl, status, tried, events, told>>

LoseHeartbeat ==
  /\ ttl # 0 /\ sent = BeatOf(ttl) /\ lost < 3
  /\ sent' = 0 /\ lost' = lost + 1
  /\ UNCHANGED <<ttl, ballot, clock, events, told>>

StepDown ==
  /\ status = "ACTIVE"
  /\ status' = "STANDBY" /\ leader' = NoOne /\ Record("stepped down")
  /\ UNCHANGED <<ttl, clock, told, beats>>

HandleExpired ==
  /\ ttl # 0 /\ ~IsLeader
  /\ leader' = NoOne /\ seen' = Never /\ Record("other")
  /\ UNCHANGED <<ttl, status, tried, told, beats>>

(* What the events recorded so far make of a status.                       *)
Meaning == [started |-> "ELECTING", won |-> "ACTIVE", lost |-> "STANDBY"]
After(s, e) ==
  CASE e \in DOMAIN Meaning -> Meaning[e]
    [] e = "stepped down" -> "STANDBY"
    [] OTHER -> s
Replayed ==
  LET f[n \in 0 .. Len(events)] == IF n = 0 THEN told ELSE After(f[n - 1], events[n])
  IN f[Len(events)]

(* The use case has saved the aggregate and published its events.          *)
Commit ==
  /\ events # <<>>
  /\ told' = Replayed /\ events' = <<>>
  /\ UNCHANGED <<ttl, ballot, clock, beats>>

(* Rebuilt from the record saved last; its own initialisation event is     *)
(* cleared.                                                                *)
Reload ==
  /\ ttl # 0
  /\ events' = <<>> /\ told' = status
  /\ UNCHANGED <<ttl, ballot, clock, beats>>

Older(s) == IF s >= Timeout THEN s ELSE s + 1

Tick ==
  /\ ttl # 0 /\ sent < BeatOf(ttl)
  /\ seen' = Older(seen) /\ tried' = Older(tried) /\ sent' = sent + 1
  /\ UNCHANGED <<ttl, ballot, events, told, lost>>

AggregateNext ==
  \/ \E t \in 1 .. MaxTtl : Create(t)
  \/ StartElection \/ WinElection \/ UpdateHeartbeat \/ StepDown \/ HandleExpired
  \/ \E w \in Other : LoseElection(w) \/ ObserveHeartbeat(w)
  \/ LoseHeartbeat \/ Commit \/ Reload \/ Tick

AggregateSpec == AggregateInit /\ [][AggregateNext]_aggregateVars
-----------------------------------------------------------------------------
(* The judges: the aggregate, the repository, and HeartbeatStatus, which   *)
(* is unhealthy at the very last moment of the lease.                      *)
DetectFailure == ~IsLeader /\ (seen = Never \/ seen > ttl)
RepositoryExpired == seen # Never /\ seen > RepositoryTtl
StatusHealthy == seen # Never /\ ttl > seen

(* An ACTIVE aggregate names itself as the leader, so is_leader, which     *)
(* both compares, and the many checks of status alone agree.               *)
ActiveLeads == status = "ACTIVE" => leader = Self

(* Events tell the whole story: whoever replays what is committed and what *)
(* is recorded since knows the status.                                     *)
EventsTell == Replayed = status

(* Whatever lifetime is configured and accepted, a leader that writes its  *)
(* heartbeats on time is not found dead by a follower that misses one of   *)
(* them, nor by the two judges that are stricter, the repository with a    *)
(* lifetime of its own and HeartbeatStatus, when none is missed.           *)
NoFalseAlarm ==
  leader \in Other /\ seen # Never =>
    /\ lost <= 1 => ~DetectFailure
    /\ lost = 0 => StatusHealthy /\ ~RepositoryExpired

(* The types, and that status, leader, events and judges agree.            *)
BallotSound == AggregateTypeOK /\ ActiveLeads /\ EventsTell /\ NoFalseAlarm
=============================================================================
