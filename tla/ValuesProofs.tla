---------------------------- MODULE ValuesProofs ----------------------------
(***************************************************************************)
(* Theorems about ElectionAggregate, Waiting, Names and ValueTypes: the    *)
(* elections of the aggregate and what its events tell, how long calls and *)
(* elections wait, the keys and subjects composed of names, and what the   *)
(* value objects calculate; for every set of instances, names, durations,  *)
(* factors and jitters, and every bound.                                   *)
(***************************************************************************)
EXTENDS ElectionAggregate, Waiting, Names, ValueTypes, Integers, SequenceTheorems, Recursion, TLAPS

-----------------------------------------------------------------------------
(* ElectionAggregate                                                       *)

(* What the constructor accepts leaves room for one lost heartbeat, and is *)
(* short enough for the repository's five seconds.                         *)
LEMMA BeatsFit ==
  ASSUME NEW t \in Nat, TtlAccepted(t)
  PROVE  /\ BeatOf(t) \in 1 .. 3
         /\ BeatOf(t) < t
         /\ BeatOf(t) + BeatOf(t) <= t
<1>1. /\ t >= 1 /\ t < 10
      /\ BeatOf(t) < t
  BY DEF TtlAccepted, Timeout
<1>2. BeatOf(t) = IF t < 3 THEN 1 ELSE t \div 3
  BY DEF BeatOf
<1>3. CASE t < 3
  BY <1>1, <1>2, <1>3
<1>4. CASE t >= 3
  <2>1. BeatOf(t) = t \div 3
    BY <1>2, <1>4
  <2>2. t \div 3 \in Nat /\ 3 * (t \div 3) <= t /\ t < 3 * (t \div 3) + 3
    OBVIOUS
  <2>3. QED
    BY <1>1, <1>4, <2>1, <2>2
<1>5. QED
  BY <1>3, <1>4

(* The age of a sign of life grows up to the bound.                        *)
LEMMA OlderType ==
  \A s \in 0 .. Never :
    /\ Older(s) \in 0 .. Never /\ Older(s) <= s + 1
    /\ Older(s) = Never <=> s = Never
BY DEF Older, Never, Timeout

(* The types, without the events, and the clocks: how old the sign of life *)
(* of a leader is depends on when it was written and on how many were lost *)
(* since.                                                                  *)
Kept ==
  /\ ttl \in 0 .. MaxTtl
  /\ status \in {"STANDBY", "ELECTING", "ACTIVE"}
  /\ leader \in Other \cup {Self, NoOne}
  /\ seen \in 0 .. Never /\ tried \in 0 .. Never
  /\ sent \in Second /\ lost \in Nat
  /\ ttl # 0 => TtlAccepted(ttl) /\ sent <= BeatOf(ttl)
  /\ ttl = 0 => status = "STANDBY" /\ leader = NoOne /\ sent = 0
SignOfLife ==
  leader \in Other /\ seen # Never =>
    /\ lost = 0 => seen <= sent
    /\ lost = 1 => seen <= sent + BeatOf(ttl)
BallotInv == Kept /\ ActiveLeads /\ SignOfLife

(* The invariant holds at first.                                           *)
LEMMA BallotInit == AggregateInit => BallotInv
BY AggregateAssumption
   DEF AggregateInit, BallotInv, Kept, ActiveLeads, SignOfLife, Never, Timeout, Second

(* Every step keeps what is kept of the heartbeats.                        *)
LEMMA KeptStep ==
  ASSUME BallotInv, [AggregateNext]_aggregateVars
  PROVE  Kept'
<1> USE AggregateAssumption DEF BallotInv, Kept
<1>1. ASSUME NEW t \in 1 .. MaxTtl, Create(t) PROVE Kept'
  <2>1. t \in Nat /\ t # 0 /\ TtlAccepted(t) /\ sent = 0
    BY <1>1 DEF Create
  <2>2. sent <= BeatOf(t)
    BY <2>1, BeatsFit
  <2>3. QED
    BY <1>1, <2>1, <2>2 DEF Create, ballot, clock, beats
<1>2. CASE StartElection
  BY <1>2 DEF StartElection, beats, Never, Timeout
<1>3. CASE WinElection
  BY <1>3 DEF WinElection, beats, Never, Timeout
<1>4. CASE UpdateHeartbeat
  BY <1>4 DEF UpdateHeartbeat, ballot, beats, Never, Timeout
<1>5. CASE StepDown
  BY <1>5 DEF StepDown, clock, beats
<1>6. CASE HandleExpired
  BY <1>6 DEF HandleExpired, beats, Never, Timeout
<1>7. ASSUME NEW w \in Other, LoseElection(w) PROVE Kept'
  BY <1>7 DEF LoseElection, Never, Timeout
<1>8. ASSUME NEW w \in Other, ObserveHeartbeat(w) PROVE Kept'
  BY <1>8, BeatsFit DEF ObserveHeartbeat, Never, Timeout, Second
<1>9. CASE LoseHeartbeat
  BY <1>9, BeatsFit DEF LoseHeartbeat, ballot, clock, Second, Timeout
<1>10. CASE Commit
  BY <1>10 DEF Commit, ballot, clock, beats
<1>11. CASE Reload
  BY <1>11 DEF Reload, ballot, clock, beats
<1>12. CASE Tick
  BY <1>12, OlderType, BeatsFit DEF Tick, ballot, Second, Timeout
<1>13. CASE UNCHANGED aggregateVars
  BY <1>13 DEF aggregateVars, ballot, clock, beats
<1>14. QED
  BY <1>1, <1>2, <1>3, <1>4, <1>5, <1>6, <1>7, <1>8, <1>9, <1>10, <1>11, <1>12, <1>13
     DEF AggregateNext

(* Every step keeps the active one the leader.                             *)
LEMMA ActiveLeadsStep ==
  ASSUME BallotInv, [AggregateNext]_aggregateVars
  PROVE  ActiveLeads'
BY DEF BallotInv, ActiveLeads, AggregateNext, Create, StartElection, WinElection,
       UpdateHeartbeat, StepDown, HandleExpired, LoseElection, ObserveHeartbeat,
       LoseHeartbeat, Commit, Reload, Tick, IsLeader, aggregateVars, ballot, clock, beats

(* Every step keeps the sign of life.                                      *)
LEMMA SignOfLifeStep ==
  ASSUME BallotInv, [AggregateNext]_aggregateVars
  PROVE  SignOfLife'
<1> USE AggregateAssumption DEF BallotInv, Kept, SignOfLife
<1>1. ASSUME NEW t \in 1 .. MaxTtl, Create(t) PROVE SignOfLife'
  BY <1>1 DEF Create, ballot, clock, beats
<1>2. CASE WinElection \/ StepDown \/ HandleExpired
  BY <1>2 DEF WinElection, StepDown, HandleExpired
<1>3. CASE UpdateHeartbeat
  BY <1>3 DEF UpdateHeartbeat, IsLeader, ballot
<1>4. ASSUME NEW w \in Other, LoseElection(w) \/ ObserveHeartbeat(w) PROVE SignOfLife'
  BY <1>4 DEF LoseElection, ObserveHeartbeat, Second
<1>5. CASE LoseHeartbeat
  BY <1>5, BeatsFit DEF LoseHeartbeat, ballot, clock, Second
<1>6. CASE Tick
  BY <1>6, OlderType, BeatsFit DEF Tick, ballot, Second
<1>7. CASE StartElection \/ Commit \/ Reload \/ UNCHANGED aggregateVars
  BY <1>7 DEF StartElection, Commit, Reload, aggregateVars, ballot, clock, beats
<1>8. QED
  BY <1>1, <1>2, <1>3, <1>4, <1>5, <1>6, <1>7 DEF AggregateNext

(* The invariant holds always.                                             *)
LEMMA BallotStays == AggregateSpec => []BallotInv
<1>1. BallotInv /\ [AggregateNext]_aggregateVars => BallotInv'
  BY KeptStep, ActiveLeadsStep, SignOfLifeStep DEF BallotInv
<1>2. QED
  BY <1>1, BallotInit, PTL DEF AggregateSpec

(* is_leader, which compares the status and the leader, and the checks of  *)
(* the status alone agree, whatever is called when.                        *)
THEOREM ActiveIsLeader == AggregateSpec => []ActiveLeads
BY BallotStays, PTL DEF BallotInv

(* No lifetime that the constructor accepts, however large the bound on    *)
(* what may be configured, makes a follower declare a punctual leader dead *)
(* over one lost heartbeat, or the stricter judges over none.              *)
THEOREM PunctualLeaderIsAlive == AggregateSpec => []NoFalseAlarm
<1>1. BallotInv => NoFalseAlarm
  <2> SUFFICES ASSUME BallotInv, leader \in Other, seen # Never PROVE
        /\ lost <= 1 => ~DetectFailure
        /\ lost = 0 => StatusHealthy /\ ~RepositoryExpired
    BY DEF NoFalseAlarm
  <2>1. ttl # 0 /\ ttl \in Nat
    BY AggregateAssumption DEF BallotInv, Kept
  <2>2. BeatOf(ttl) \in 1 .. 3 /\ BeatOf(ttl) < ttl /\ BeatOf(ttl) + BeatOf(ttl) <= ttl
    BY <2>1, BeatsFit DEF BallotInv, Kept
  <2>3. lost = 0 => seen <= BeatOf(ttl)
    BY <2>1, <2>2 DEF BallotInv, Kept, SignOfLife, Second
  <2>4. lost = 1 => seen <= BeatOf(ttl) + BeatOf(ttl)
    BY <2>1, <2>2 DEF BallotInv, Kept, SignOfLife, Second
  <2>5. lost <= 1 => seen <= ttl
    BY <2>1, <2>2, <2>3, <2>4 DEF BallotInv, Kept
  <2>6. QED
    BY <2>1, <2>2, <2>3, <2>5
       DEF BallotInv, Kept, DetectFailure, StatusHealthy, RepositoryExpired, RepositoryTtl
<1>2. QED
  BY <1>1, BallotStays, PTL

Event == {"started", "won", "lost", "stepped down", "other"}
Ballot == {"STANDBY", "ELECTING", "ACTIVE"}

(* What a list of events makes of a status.                                *)
ReplayOf(s, t) ==
  LET f[n \in 0 .. Len(s)] == IF n = 0 THEN t ELSE After(f[n - 1], s[n])
  IN f[Len(s)]

(* What each event makes of a status.                                      *)
LEMMA AfterIs ==
  \A s \in Ballot :
    /\ After(s, "started") = "ELECTING" /\ After(s, "won") = "ACTIVE"
    /\ After(s, "lost") = "STANDBY" /\ After(s, "stepped down") = "STANDBY"
    /\ After(s, "other") = s
<1>1. DOMAIN Meaning = {"started", "won", "lost"}
  BY DEF Meaning
<1>2. QED
  BY <1>1 DEF After, Meaning

(* It makes a status of a status.                                          *)
LEMMA AfterType ==
  ASSUME NEW s \in Ballot, NEW e \in Event
  PROVE  After(s, e) \in Ballot
BY AfterIs DEF Event, Ballot

StepsOf(s) == [p \in (1 .. Len(s)) \X Ballot |-> After(p[2], s[p[1]])]

(* The recursion that replays a list of events has a solution.             *)
LEMMA ReplaySolved ==
  ASSUME NEW s \in Seq(Event), NEW t \in Ballot
  PROVE  \E g \in [0 .. Len(s) -> Ballot] :
           Solves(g, Len(s), t, StepsOf(s)) /\ ReplayOf(s, t) = g[Len(s)]
<1> DEFINE f[n \in 0 .. Len(s)] == IF n = 0 THEN t ELSE After(f[n - 1], s[n])
<1>1. Len(s) \in Nat /\ \A i \in 1 .. Len(s) : s[i] \in Event
  BY LenProperties, ElementOfSeq
<1>2. StepsOf(s) \in [(1 .. Len(s)) \X Ballot -> Ballot]
  <2> SUFFICES ASSUME NEW k \in 1 .. Len(s), NEW b \in Ballot PROVE After(b, s[k]) \in Ballot
    BY DEF StepsOf
  <2>1. QED
    BY <1>1, AfterType
<1>3. \A k \in 1 .. Len(s), b \in Ballot : StepsOf(s)[<<k, b>>] = After(b, s[k])
  BY DEF StepsOf
<1>4. PICK g \in [0 .. Len(s) -> Ballot] : Solves(g, Len(s), t, StepsOf(s))
  BY <1>1, <1>2, RecursionSolved
<1>5. g = [n \in 0 .. Len(s) |-> IF n = 0 THEN t ELSE After(g[n - 1], s[n])]
  <2>1. \A n \in 0 .. Len(s) : n = 0 \/ (n \in 1 .. Len(s) /\ n # 0 /\ n - 1 \in 0 .. Len(s))
    BY <1>1
  <2>2. \A n \in 0 .. Len(s) : g[n] = IF n = 0 THEN t ELSE After(g[n - 1], s[n])
    BY <1>3, <1>4, <2>1 DEF Solves
  <2>3. QED
    BY <1>4, <2>2
<1>6. f = [n \in 0 .. Len(s) |-> IF n = 0 THEN t ELSE After(f[n - 1], s[n])]
  BY <1>5, Zenon
<1>7. ReplayOf(s, t) = f[Len(s)]
  BY DEF ReplayOf
<1> HIDE DEF f
<1>8. /\ f[0] = t /\ f \in [0 .. Len(s) -> Ballot]
      /\ Solves(f, Len(s), t, StepsOf(s))
  <2>1. 0 \in 0 .. Len(s)
        /\ \A n \in 1 .. Len(s) : n \in 0 .. Len(s) /\ n # 0 /\ n - 1 \in 0 .. Len(s)
    BY <1>1
  <2>2. \A n \in 0 .. Len(s) : f[n] = IF n = 0 THEN t ELSE After(f[n - 1], s[n])
    BY <1>6
  <2>3. f[0] = t /\ \A n \in 1 .. Len(s) : f[n] = After(f[n - 1], s[n])
    BY <2>1, <2>2
  <2> DEFINE typed == {n \in Nat : n <= Len(s) => f[n] \in Ballot}
  <2>4. 0 \in typed
    BY <2>3
  <2>5. ASSUME NEW n \in Nat, n \in typed PROVE n + 1 \in typed
    <3> SUFFICES ASSUME n + 1 <= Len(s) PROVE f[n + 1] \in Ballot
      OBVIOUS
    <3>1. n + 1 \in 1 .. Len(s) /\ (n + 1) - 1 = n /\ n <= Len(s)
      BY <1>1
    <3>2. f[n] \in Ballot /\ f[n + 1] = After(f[n], s[n + 1]) /\ s[n + 1] \in Event
      BY <1>1, <2>3, <2>5, <3>1
    <3>3. QED
      BY <3>2, AfterType
  <2> HIDE DEF typed
  <2>6. Nat \subseteq typed
    BY <2>4, <2>5, InductiveSet
  <2>7. \A n \in 0 .. Len(s) : f[n] \in Ballot
    BY <2>6 DEF typed
  <2>8. f \in [0 .. Len(s) -> Ballot]
    BY <1>6, <2>7
  <2>9. Solves(f, Len(s), t, StepsOf(s))
    BY <1>3, <2>1, <2>3, <2>7 DEF Solves
  <2>10. QED
    BY <2>3, <2>8, <2>9
<1>9. QED
  BY <1>7, <1>8

(* One event more: what the list made of the status, and the event of that.*)
LEMMA ReplayAppended ==
  ASSUME NEW s \in Seq(Event), NEW t \in Ballot, NEW e \in Event
  PROVE  ReplayOf(Append(s, e), t) = After(ReplayOf(s, t), e)
<1> DEFINE r == Append(s, e)
<1> DEFINE m == Len(s)
<1>1. /\ r \in Seq(Event) /\ Len(r) = m + 1 /\ m \in Nat
      /\ r[m + 1] = e /\ \A k \in 1 .. m : r[k] = s[k]
  BY AppendProperties, LenProperties
<1>2. PICK f \in [0 .. m -> Ballot] : Solves(f, m, t, StepsOf(s)) /\ ReplayOf(s, t) = f[m]
  BY ReplaySolved
<1> HIDE DEF r
<1>3. PICK g \in [0 .. Len(r) -> Ballot] :
        Solves(g, Len(r), t, StepsOf(r)) /\ ReplayOf(r, t) = g[Len(r)]
  BY <1>1, ReplaySolved
<1> HIDE DEF m
<1>4. Solves(g, m, t, StepsOf(r))
  <2>1. \A k \in 1 .. m : k \in 1 .. m + 1
    BY <1>1
  <2>2. QED
    BY <1>1, <1>3, <2>1 DEF Solves
<1>5. SameSteps(StepsOf(s), StepsOf(r), f, m)
  <2> SUFFICES ASSUME NEW k \in 1 .. m
               PROVE  StepsOf(s)[<<k, f[k - 1]>>] = StepsOf(r)[<<k, f[k - 1]>>]
    BY DEF SameSteps
  <2>1. k - 1 \in 0 .. m /\ k \in 1 .. Len(r) /\ k \in 1 .. Len(s)
    BY <1>1 DEF m
  <2>2. f[k - 1] \in Ballot
    BY <1>2, <2>1
  <2>3. QED
    BY <1>1, <2>1, <2>2 DEF StepsOf
<1>6. f[m] = g[m]
  <2>1. m \in 0 .. m
    BY <1>1
  <2>2. m \in Nat /\ Solves(f, m, t, StepsOf(s)) /\ Solves(g, m, t, StepsOf(r))
    BY <1>1, <1>2, <1>4
  <2>3. \A k \in 0 .. m : f[k] = g[k]
    BY <1>5, <2>2, RecursionUnique
  <2>4. QED
    BY <2>1, <2>3
<1>7. g[m + 1] = After(g[m], e)
  <2>1. m + 1 \in 1 .. Len(r) /\ (m + 1) - 1 = m /\ m \in 0 .. Len(r)
    BY <1>1
  <2>2. g[m + 1] = StepsOf(r)[<<m + 1, g[m]>>] /\ g[m] \in Ballot
    BY <1>3, <2>1 DEF Solves
  <2>3. StepsOf(r)[<<m + 1, g[m]>>] = After(g[m], r[m + 1])
    BY <2>1, <2>2 DEF StepsOf
  <2>4. QED
    BY <1>1, <2>2, <2>3
<1>8. QED
  BY <1>1, <1>2, <1>3, <1>6, <1>7 DEF r

(* Nothing to replay.                                                      *)
LEMMA ReplayNothing ==
  ASSUME NEW t \in Ballot
  PROVE  ReplayOf(<<>>, t) = t
<1>1. <<>> \in Seq(Event) /\ Len(<<>>) = 0
  OBVIOUS
<1>2. PICK g \in [0 .. 0 -> Ballot] : Solves(g, 0, t, StepsOf(<<>>)) /\ ReplayOf(<<>>, t) = g[0]
  BY <1>1, ReplaySolved
<1>3. QED
  BY <1>2 DEF Solves

Told == /\ events \in Seq(Event) /\ told \in Ballot /\ status \in Ballot
        /\ ReplayOf(events, told) = status

(* The events tell the status at first.                                    *)
LEMMA ToldInit == AggregateInit => Told
BY ReplayNothing DEF AggregateInit, Told, Ballot

(* One event recorded, and the status it amounts to.                       *)
LEMMA ToldRecorded ==
  ASSUME Told, NEW e \in Event, Record(e), told' = told, status' = After(status, e)
  PROVE  Told'
<1>1. events' = Append(events, e)
  BY DEF Record
<1>2. events' \in Seq(Event)
  BY <1>1, AppendProperties DEF Told
<1>3. ReplayOf(events', told') = After(ReplayOf(events, told), e)
  BY <1>1, ReplayAppended DEF Told
<1>4. QED
  BY <1>2, <1>3, AfterType DEF Told

(* And go on telling it.                                                   *)
LEMMA ToldStep ==
  ASSUME Told, [AggregateNext]_aggregateVars
  PROVE  Told'
<1>1. status \in Ballot
  BY DEF Told
<1>2. ASSUME NEW t \in 1 .. MaxTtl, Create(t) PROVE Told'
  <2>1. Record("other") /\ told' = told /\ status' = status
    BY <1>2 DEF Create, ballot
  <2>2. QED
    BY <1>1, <2>1, AfterIs, ToldRecorded DEF Event
<1>3. CASE StartElection
  <2>1. Record("started") /\ told' = told /\ status' = "ELECTING"
    BY <1>3 DEF StartElection
  <2>2. QED
    BY <1>1, <2>1, AfterIs, ToldRecorded DEF Event
<1>4. CASE WinElection
  <2>1. Record("won") /\ told' = told /\ status' = "ACTIVE"
    BY <1>4 DEF WinElection
  <2>2. QED
    BY <1>1, <2>1, AfterIs, ToldRecorded DEF Event
<1>5. ASSUME NEW w \in Other, LoseElection(w) PROVE Told'
  <2>1. Record("lost") /\ told' = told /\ status' = "STANDBY"
    BY <1>5 DEF LoseElection
  <2>2. QED
    BY <1>1, <2>1, AfterIs, ToldRecorded DEF Event
<1>6. CASE UpdateHeartbeat \/ HandleExpired
  <2>1. Record("other") /\ told' = told /\ status' = status
    BY <1>6 DEF UpdateHeartbeat, HandleExpired, ballot
  <2>2. QED
    BY <1>1, <2>1, AfterIs, ToldRecorded DEF Event
<1>7. CASE StepDown
  <2>1. Record("stepped down") /\ told' = told /\ status' = "STANDBY"
    BY <1>7 DEF StepDown
  <2>2. QED
    BY <1>1, <2>1, AfterIs, ToldRecorded DEF Event
<1>8. CASE Commit \/ Reload
  <2>1. events' = <<>> /\ status' = status /\ told' = status
    <3>1. Replayed = ReplayOf(events, told)
      BY DEF Replayed, ReplayOf
    <3>2. QED
      BY <1>8, <3>1 DEF Commit, Reload, ballot, Told
  <2>2. QED
    BY <1>1, <2>1, ReplayNothing DEF Told
<1>9. ASSUME events' = events, told' = told, status' = status PROVE Told'
  BY <1>9 DEF Told
<1>10. ASSUME NEW w \in Other, ObserveHeartbeat(w) PROVE Told'
  BY <1>9, <1>10 DEF ObserveHeartbeat
<1>11. CASE LoseHeartbeat \/ Tick \/ UNCHANGED aggregateVars
  BY <1>9, <1>11 DEF LoseHeartbeat, Tick, aggregateVars, ballot
<1>12. QED
  BY <1>2, <1>3, <1>4, <1>5, <1>6, <1>7, <1>8, <1>10, <1>11 DEF AggregateNext

(* Events, status, leader and judges agree.                                *)
THEOREM BallotIsSound == AggregateSpec => []BallotSound
<1>1. BallotInv /\ Told => AggregateTypeOK /\ ActiveLeads /\ EventsTell
  <2>1. Replayed = ReplayOf(events, told)
    BY DEF Replayed, ReplayOf
  <2>2. QED
    BY <2>1 DEF BallotInv, Kept, Told, AggregateTypeOK, EventsTell, Event, Ballot
<1>2. AggregateSpec => []Told
  BY ToldInit, ToldStep, PTL DEF AggregateSpec
<1>3. QED
  BY <1>1, <1>2, BallotStays, PunctualLeaderIsAlive, PTL DEF BallotSound

-----------------------------------------------------------------------------
(* Waiting                                                                 *)

(* A power is the one before, multiplied.                                  *)
LEMMA PowerIs ==
  ASSUME NEW x \in Nat, NEW n \in Nat
  PROVE  /\ Power(x, n) \in Nat /\ Power(x, 0) = 1
         /\ Power(x, 1) = x /\ Power(x, 2) = x * x
<1> DEFINE step(m) == [p \in (1 .. m) \X Nat |-> x * p[2]]
<1>1. ASSUME NEW m \in Nat
      PROVE  \E g \in [0 .. m -> Nat] :
               /\ g[0] = 1 /\ \A k \in 1 .. m : g[k] = x * g[k - 1]
               /\ Power(x, m) = g[m]
  <2> DEFINE f[k \in 0 .. m] == IF k = 0 THEN 1 ELSE x * f[k - 1]
  <2>1. step(m) \in [(1 .. m) \X Nat -> Nat]
    OBVIOUS
  <2>2. \A k \in 1 .. m, v \in Nat : step(m)[<<k, v>>] = x * v
    OBVIOUS
  <2> HIDE DEF step
  <2>3. PICK g \in [0 .. m -> Nat] : Solves(g, m, 1, step(m))
    BY <2>1, RecursionSolved
  <2>4. g[0] = 1 /\ \A k \in 1 .. m : g[k] = x * g[k - 1]
    <3>1. \A k \in 1 .. m : k - 1 \in 0 .. m
      OBVIOUS
    <3>2. QED
      BY <2>2, <2>3, <3>1 DEF Solves
  <2>5. g = [k \in 0 .. m |-> IF k = 0 THEN 1 ELSE x * g[k - 1]]
    <3>1. \A k \in 0 .. m : k = 0 \/ (k \in 1 .. m /\ k # 0)
      OBVIOUS
    <3>2. \A k \in 0 .. m : g[k] = IF k = 0 THEN 1 ELSE x * g[k - 1]
      BY <2>4, <3>1
    <3>3. QED
      BY <3>2
  <2>6. f = [k \in 0 .. m |-> IF k = 0 THEN 1 ELSE x * f[k - 1]]
    BY <2>5, Zenon
  <2>7. Power(x, m) = f[m]
    BY DEF Power
  <2> HIDE DEF f
  <2>8. f[0] = 1 /\ \A k \in 1 .. m : f[k] = x * f[k - 1]
    <3>1. 0 \in 0 .. m /\ \A k \in 1 .. m : k \in 0 .. m /\ k # 0
      OBVIOUS
    <3>2. \A k \in 0 .. m : f[k] = IF k = 0 THEN 1 ELSE x * f[k - 1]
      BY <2>6
    <3>3. QED
      BY <3>1, <3>2
  <2> DEFINE typed == {k \in Nat : k <= m => f[k] \in Nat}
  <2>9. 0 \in typed
    BY <2>8
  <2>10. ASSUME NEW k \in Nat, k \in typed PROVE k + 1 \in typed
    <3> SUFFICES ASSUME k + 1 <= m PROVE f[k + 1] \in Nat
      OBVIOUS
    <3>1. k + 1 \in 1 .. m /\ (k + 1) - 1 = k /\ f[k] \in Nat
      BY <2>10
    <3>2. f[k + 1] = x * f[k]
      BY <2>8, <3>1
    <3>3. QED
      BY <3>1, <3>2
  <2> HIDE DEF typed
  <2>11. Nat \subseteq typed
    BY <2>9, <2>10, InductiveSet
  <2>12. \A k \in 0 .. m : f[k] \in Nat
    BY <2>11 DEF typed
  <2>13. f \in [0 .. m -> Nat]
    BY <2>6, <2>12
  <2>14. QED
    BY <2>7, <2>8, <2>13
<1> HIDE DEF step
<1>2. Power(x, n) \in Nat
  <2>1. PICK g \in [0 .. n -> Nat] : Power(x, n) = g[n]
    BY <1>1
  <2>2. n \in 0 .. n
    OBVIOUS
  <2>3. QED
    BY <2>1, <2>2
<1>3. Power(x, 0) = 1
  BY <1>1
<1>4. Power(x, 1) = x
  <2>1. PICK g \in [0 .. 1 -> Nat] :
          g[0] = 1 /\ (\A k \in 1 .. 1 : g[k] = x * g[k - 1]) /\ Power(x, 1) = g[1]
    BY <1>1
  <2>2. g[1] = x * g[1 - 1] /\ 1 - 1 = 0
    BY <2>1
  <2>3. QED
    BY <2>1, <2>2
<1>5. Power(x, 2) = x * x
  <2>1. PICK g \in [0 .. 2 -> Nat] :
          g[0] = 1 /\ (\A k \in 1 .. 2 : g[k] = x * g[k - 1]) /\ Power(x, 2) = g[2]
    BY <1>1
  <2>2. 1 \in 1 .. 2 /\ 2 \in 1 .. 2 /\ 1 - 1 = 0 /\ 2 - 1 = 1
    OBVIOUS
  <2>3. g[1] = x * g[0] /\ g[2] = x * g[1]
    BY <2>1, <2>2
  <2>4. QED
    BY <2>1, <2>3
<1>6. QED
  BY <1>2, <1>3, <1>4, <1>5

(* The jitter is no more than what it is added to.                         *)
LEMMA JitterFits ==
  ASSUME NEW b \in Nat, NEW j \in 0 .. 10
  PROVE  (b * j) \div 10 \in Nat /\ (b * j) \div 10 <= b
<1>1. b * j \in Nat /\ b * j <= 10 * b
  OBVIOUS
<1>2. \A m \in Nat : m <= 10 * b => m \div 10 \in Nat /\ m \div 10 <= b
  OBVIOUS
<1>3. QED
  BY <1>1, <1>2

(* Between an attempt and the next there is at most twice the maximum.     *)
LEMMA PausesFit ==
  ASSUME WaitTypeOK, NEW n \in Nat, NEW d \in Pauses(n)
  PROVE  d \in Nat /\ d <= 2 * policy.cap
<1>1. /\ policy.initial \in Nat /\ policy.cap \in Nat /\ policy.factor \in Nat
      /\ policy.jitter \in 0 .. 10
  BY WaitingAssumption DEF WaitTypeOK, Duration
<1>2. CASE n = 0
  BY <1>1, <1>2 DEF Pauses
<1>3. CASE n # 0
  <2>1. n - 1 \in Nat
    BY <1>3
  <2>2. Power(policy.factor, n - 1) \in Nat
    BY <1>1, <2>1, PowerIs
  <2>3. policy.initial * Power(policy.factor, n - 1) \in Nat
    BY <1>1, <2>2
  <2>4. Base(n) \in Nat /\ Base(n) <= policy.cap
    BY <1>1, <2>3 DEF Base
  <2>5. Jitter(Base(n)) \in Nat /\ Jitter(Base(n)) <= Base(n)
    BY <1>1, <2>4, JitterFits DEF Jitter
  <2>6. d \in {Base(n), Base(n) + Jitter(Base(n)), Base(n) - Jitter(Base(n))}
    BY <1>3 DEF Pauses
  <2>7. QED
    BY <1>1, <2>4, <2>5, <2>6
<1>4. QED
  BY <1>2, <1>3

(* What an election without slow calls has used up before each attempt.    *)
UsedBefore(n) == CASE n = 0 -> 0 [] n = 1 -> 5 [] OTHER -> 35
Unhurried ==
  /\ phase \in {"healthy", "detecting", "delaying"} => round = 0
  /\ phase = "electing" /\ ~slow => began <= spent /\ spent <= began + UsedBefore(round)

WaitInv == WaitTypeOK /\ ConfigConverts /\ WaitBounded /\ ElectionFits /\ Unhurried

(* The types, as far as numbers are concerned.                             *)
LEMMA Numbers ==
  ASSUME WaitTypeOK
  PROVE  /\ attempt \in 0 .. MaxRetries /\ MaxRetries \in Nat /\ Slow \in Nat /\ round \in 0 .. 3
         /\ pause \in Nat /\ waited \in Nat /\ spent \in Nat /\ began \in Nat
         /\ policy.cap \in Nat
         /\ failover.detection \in Nat /\ failover.delay \in Nat /\ failover.limit \in Nat
         /\ failover \in Preset => failover.limit >= 100
<1>1. /\ attempt \in 0 .. MaxRetries /\ MaxRetries \in Nat /\ Slow \in Nat /\ round \in 0 .. 3
      /\ pause \in Nat /\ waited \in Nat /\ spent \in Nat /\ began \in Nat
  BY WaitingAssumption DEF WaitTypeOK, Duration
<1>2. policy.cap \in Nat
  BY DEF WaitTypeOK, Duration
<1>3. CASE failover \in Preset
  BY <1>1, <1>2, <1>3 DEF Preset, WindowsOf
<1>4. CASE failover \in Tight /\ failover \notin Preset
  <2>1. Windows \subseteq Nat
    BY WaitingAssumption
  <2>2. QED
    BY <1>1, <1>2, <1>4, <2>1 DEF Tight
<1>5. QED
  BY <1>3, <1>4 DEF WaitTypeOK

(* What no step changes keeps its type, the rest must be numbers.          *)
LEMMA TypesStay ==
  ASSUME WaitTypeOK, asked' = asked, policy' = policy, from' = from, failover' = failover,
         attempt' \in 0 .. MaxRetries, pause' \in Nat, waited' \in Nat, spent' \in Nat,
         began' \in Nat, round' \in 0 .. 3, slow' \in BOOLEAN,
         phase' \in {"healthy", "detecting", "delaying", "electing", "over", "timed out"}
  PROVE  WaitTypeOK'
<1>1. asked' \in Given /\ policy' \in [initial : Duration, cap : Duration, factor : Factors, jitter : Jitters]
      /\ from' \in {"given", "converted", "refused"} /\ failover' \in Preset \cup Tight
  BY DEF WaitTypeOK
<1>2. {pause', waited', spent', began'} \subseteq Nat
  OBVIOUS
<1>3. QED
  BY <1>1, <1>2, Zenon DEF WaitTypeOK, Duration

(* The invariant holds at first.                                           *)
LEMMA WaitInitInv == WaitInit => WaitInv
<1> SUFFICES ASSUME WaitInit PROVE WaitInv
  OBVIOUS
<1>1. asked \in Given /\ policy = Policy(asked)
  BY DEF WaitInit
<1>2. policy \in [initial : Duration, cap : Duration, factor : Factors, jitter : Jitters]
  BY <1>1, WaitingAssumption DEF Given, Policy, Or, Duration
<1>3. WaitTypeOK
  <2>1. attempt \in 0 .. MaxRetries
    BY WaitingAssumption DEF WaitInit
  <2>2. /\ pause \in Nat /\ waited \in Nat /\ spent \in Nat /\ began \in Nat /\ round \in 0 .. 3
        /\ failover \in Preset \cup Tight /\ phase = "healthy" /\ slow \in BOOLEAN
    <3>1. pause = 0 /\ waited = 0 /\ spent = 0 /\ began = 0 /\ round = 0 /\ phase = "healthy"
      BY DEF WaitInit
    <3>2. slow = FALSE
      BY DEF WaitInit
    <3>3. failover \in Preset \cup Tight
      BY Zenon DEF WaitInit
    <3>4. slow \in BOOLEAN
      BY <3>2, Zenon
    <3>5. pause \in Nat /\ waited \in Nat /\ spent \in Nat /\ began \in Nat /\ round \in 0 .. 3
      BY <3>1
    <3>6. QED
      BY <3>1, <3>3, <3>4, <3>5, Zenon
  <2>3. from \in {"given", "converted", "refused"}
    BY DEF WaitInit
  <2>4. QED
    BY <1>1, <1>2, <2>1, <2>2, <2>3 DEF WaitTypeOK, Duration
<1>4. ConfigConverts
  <2> SUFFICES ASSUME asked.cap # Default, ConfigAccepted(asked) PROVE PolicyAccepted(policy)
    BY DEF WaitInit, ConfigConverts
  <2>1. /\ policy.initial = Or(asked.initial, 10) /\ policy.cap = asked.cap
        /\ policy.initial \in Nat /\ policy.initial # Default /\ policy.cap # Default
    BY <1>1, <1>2, WaitingAssumption DEF Policy, Or, Duration
  <2>2. policy.initial >= 1 /\ policy.initial <= 1000
    <3>1. CASE asked.initial = Default
      BY <2>1, <3>1 DEF Or
    <3>2. CASE asked.initial # Default
      <4>1. asked.initial \in 1 .. 1000
        BY <3>2 DEF ConfigAccepted
      <4>2. policy.initial = asked.initial
        BY <2>1, <3>2 DEF Or
      <4>3. QED
        BY <4>1, <4>2, SMTT(60)
    <3>3. QED
      BY <3>1, <3>2
  <2>3. policy.cap > policy.initial
    BY <2>1 DEF ConfigAccepted
  <2>4. QED
    BY <2>1, <2>2, <2>3 DEF PolicyAccepted, Or
<1>5. WaitBounded /\ ElectionFits /\ Unhurried
  BY <1>2 DEF WaitInit, WaitBounded, ElectionFits, Unhurried, Duration
<1>6. QED
  BY <1>3, <1>4, <1>5 DEF WaitInv

(* An attempt fails, and the call pauses or ends.                          *)
LEMMA FailAttemptStays ==
  ASSUME WaitInv, FailAttempt
  PROVE  WaitInv'
<1>1. /\ attempt < MaxRetries /\ attempt' = attempt + 1
      /\ asked' = asked /\ policy' = policy /\ from' = from /\ failover' = failover
      /\ phase' = phase /\ round' = round /\ spent' = spent /\ began' = began /\ slow' = slow
  BY DEF FailAttempt, failoverVars
<1>2. PICK d \in Pauses(attempt) : pause' = d /\ waited' = waited + d
  BY DEF FailAttempt
<1>3. /\ attempt \in Nat /\ waited \in Nat /\ MaxRetries \in Nat /\ attempt \in 0 .. MaxRetries
      /\ policy.cap \in Nat /\ waited <= 2 * policy.cap * attempt
  BY Numbers DEF WaitInv, WaitBounded
<1>4. d \in Nat /\ d <= 2 * policy.cap
  BY <1>3, PausesFit DEF WaitInv
<1>5. WaitTypeOK'
  <2>1. attempt' \in 0 .. MaxRetries /\ pause' \in Nat /\ waited' \in Nat
    BY <1>1, <1>2, <1>3, <1>4
  <2>2. slow' \in BOOLEAN /\ phase' \in {"healthy", "detecting", "delaying", "electing", "over", "timed out"}
    BY <1>1 DEF WaitInv, WaitTypeOK
  <2>3. QED
    BY <1>1, <2>1, <2>2, Numbers, TypesStay DEF WaitInv
<1>6. WaitBounded'
  <2>1. \A c, n, w, e \in Nat : w <= 2 * c * n /\ e <= 2 * c => w + e <= 2 * c * (n + 1)
    <3>1. \A c, n \in Nat : 2 * c * (n + 1) = 2 * c * n + 2 * c
      OBVIOUS
    <3>2. \A c, n \in Nat : 2 * c * n \in Nat /\ 2 * c \in Nat
      OBVIOUS
    <3>3. QED
      BY <3>1, <3>2
  <2>2. QED
    BY <1>1, <1>2, <1>3, <1>4, <2>1 DEF WaitBounded
<1>7. QED
  BY <1>1, <1>5, <1>6 DEF WaitInv, ConfigConverts, ElectionFits, Unhurried

(* Before an election.                                                     *)
LEMMA BeforeElectionStays ==
  ASSUME WaitInv, Notice \/ Recheck \/ BeginElection
  PROVE  WaitInv'
<1>1. /\ asked' = asked /\ policy' = policy /\ from' = from /\ attempt' = attempt
      /\ pause' = pause /\ waited' = waited /\ failover' = failover /\ round' = round
      /\ slow' = slow
  BY DEF Notice, Recheck, BeginElection, retryVars
<1>2. /\ spent \in Nat /\ began \in Nat
      /\ failover.detection \in Nat /\ failover.delay \in Nat
  BY Numbers DEF WaitInv
<1>3. /\ spent' \in Nat /\ began' \in Nat
      /\ \/ phase' \in {"healthy", "detecting", "delaying"} /\ round = 0
         \/ phase' = "electing" /\ round = 0 /\ spent' = began'
  BY <1>2 DEF Notice, Recheck, BeginElection, WaitInv, Unhurried
<1>4. WaitTypeOK'
  <2>1. slow' \in BOOLEAN /\ attempt' \in 0 .. MaxRetries /\ pause' \in Nat /\ waited' \in Nat
        /\ round' \in 0 .. 3
    BY <1>1, Numbers DEF WaitInv, WaitTypeOK
  <2>2. phase' \in {"healthy", "detecting", "delaying", "electing", "over", "timed out"}
    BY <1>3
  <2>3. QED
    BY <1>1, <1>3, <2>1, <2>2, TypesStay DEF WaitInv
<1>5. ElectionFits' /\ Unhurried'
  <2>1. phase' # "timed out"
    BY <1>3
  <2>2. phase' = "electing" => began' <= spent' /\ spent' <= began' + UsedBefore(round')
    BY <1>1, <1>3 DEF UsedBefore
  <2>3. phase' \in {"healthy", "detecting", "delaying"} => round' = 0
    BY <1>1, <1>3
  <2>4. QED
    BY <2>1, <2>2, <2>3 DEF ElectionFits, Unhurried
<1>6. QED
  BY <1>1, <1>4, <1>5 DEF WaitInv, ConfigConverts, WaitBounded

(* A few units more than a moment within the limit are within it.          *)
LEMMA WithinLimit ==
  ASSUME NEW m \in Nat, NEW b \in Nat, NEW l \in Nat, l >= 100,
         m <= b + 5 \/ m <= b + 35 \/ m <= b + 85
  PROVE  ~(m - b > l)
OBVIOUS

(* An attempt at the election.                                             *)
LEMMA ElectStays ==
  ASSUME WaitInv, Elect
  PROVE  WaitInv'
<1>1. /\ asked' = asked /\ policy' = policy /\ from' = from /\ attempt' = attempt
      /\ pause' = pause /\ waited' = waited /\ failover' = failover /\ began' = began
      /\ phase = "electing" /\ round < 3 /\ round \in 0 .. 3
  BY DEF Elect, retryVars, WaitInv, WaitTypeOK
<1> DEFINE now(d, call) == spent + d + call
<1> DEFINE late(d, call) == now(d, call) - began > failover.limit
<1>2. PICK d \in ElectionPauses(round), call \in {1, 5, Slow} :
        /\ slow' = (slow \/ call = Slow)
        /\ spent' = IF late(d, call) THEN began + failover.limit ELSE now(d, call)
        /\ round' = IF late(d, call) THEN round ELSE round + 1
        /\ \/ late(d, call) /\ phase' = "timed out"
           \/ ~late(d, call) /\ phase' = "over"
           \/ ~late(d, call) /\ phase' = IF round = 2 THEN "over" ELSE "electing"
  BY DEF Elect
<1>3. /\ spent \in Nat /\ began \in Nat /\ failover.limit \in Nat /\ Slow \in Nat
      /\ failover \in Preset => failover.limit >= 100
  BY Numbers DEF WaitInv
<1>4. \/ round = 0 /\ d = 0
      \/ round = 1 /\ d \in {20, 25}
      \/ round = 2 /\ d \in {40, 45}
  <2>1. Power(2, 1) = 2 /\ Power(2, 2) = 4
    BY PowerIs
  <2>2. round = 0 \/ round = 1 \/ round = 2
    BY <1>1
  <2>3. QED
    BY <2>1, <2>2 DEF ElectionPauses
<1>5. d \in Nat /\ call \in Nat
  BY <1>3, <1>4
<1>6. now(d, call) \in Nat /\ spent' \in Nat /\ round' \in 0 .. 3
  <2>1. now(d, call) \in Nat /\ began + failover.limit \in Nat
    BY <1>3, <1>5
  <2> HIDE DEF now, late
  <2>2. round' = round \/ round' = round + 1
    BY <1>2
  <2>3. spent' = now(d, call) \/ spent' = began + failover.limit
    BY <1>2
  <2>4. QED
    BY <1>1, <2>1, <2>2, <2>3
<1>7. WaitTypeOK'
  <2>1. slow' \in BOOLEAN
    BY <1>2
  <2>2. phase' \in {"over", "timed out", "electing"}
    BY <1>2
  <2>3. QED
    <3>1. attempt' \in 0 .. MaxRetries /\ pause' \in Nat /\ waited' \in Nat /\ began' \in Nat
      BY <1>1, Numbers DEF WaitInv
    <3>2. phase' \in {"healthy", "detecting", "delaying", "electing", "over", "timed out"}
      BY <2>2
    <3> HIDE DEF now, late
    <3>3. QED
      BY <1>1, <1>6, <2>1, <3>1, <3>2, TypesStay DEF WaitInv
<1>8. ASSUME ~slow'
      PROVE  /\ began <= now(d, call)
             /\ now(d, call) <= began + (IF round = 0 THEN 5 ELSE IF round = 1 THEN 35 ELSE 85)
  <2>1. ~slow /\ call \in {1, 5}
    BY <1>2, <1>8
  <2>2. began <= spent /\ spent <= began + UsedBefore(round)
    BY <1>1, <2>1 DEF WaitInv, Unhurried
  <2>3. QED
    BY <1>3, <1>4, <2>1, <2>2 DEF UsedBefore
<1>9. ElectionFits'
  <2> SUFFICES ASSUME phase' = "timed out", ~slow', failover \in Preset PROVE FALSE
    BY <1>1 DEF ElectionFits
  <2>1. now(d, call) - began > failover.limit
    BY <1>2
  <2> DEFINE n == now(d, call)
  <2>2. n \in Nat /\ n <= began + (IF round = 0 THEN 5 ELSE IF round = 1 THEN 35 ELSE 85)
    BY <1>6, <1>8
  <2>3. n - began > failover.limit /\ failover.limit >= 100 /\ began \in Nat
        /\ failover.limit \in Nat
    BY <1>3, <2>1
  <2> HIDE DEF n
  <2>4. n <= began + 5 \/ n <= began + 35 \/ n <= began + 85
    BY <2>2
  <2>5. QED
    BY <2>2, <2>3, <2>4, WithinLimit
<1>10. Unhurried'
  <2>1. phase' \notin {"healthy", "detecting", "delaying"}
    BY <1>2
  <2>2. ASSUME phase' = "electing", ~slow'
        PROVE  began' <= spent' /\ spent' <= began' + UsedBefore(round')
    <3>1. /\ spent' = now(d, call) /\ round' = round + 1 /\ round \in {0, 1}
      BY <1>1, <1>2, <2>2
    <3>2. QED
      BY <1>1, <1>8, <2>2, <3>1 DEF UsedBefore
  <2>3. QED
    BY <2>1, <2>2 DEF Unhurried
<1>11. QED
  BY <1>1, <1>7, <1>9, <1>10 DEF WaitInv, ConfigConverts, WaitBounded

(* Accepted configurations convert, no call pauses longer than its policy  *)
(* says, and no election under a preset policy is cut off unless the       *)
(* bucket is slow: for every set of durations, factors and jitters.        *)
THEOREM WaitsAreBounded == WaitSpec => []WaitsSound
<1>1. WaitInv /\ [RetryNext \/ FailoverNext]_waitVars => WaitInv'
  <2>1. ASSUME WaitInv, UNCHANGED waitVars PROVE WaitInv'
    <3>1. /\ asked' = asked /\ policy' = policy /\ from' = from /\ attempt' = attempt
          /\ pause' = pause /\ waited' = waited /\ failover' = failover /\ phase' = phase
          /\ round' = round /\ spent' = spent /\ began' = began /\ slow' = slow
      BY <2>1 DEF waitVars, retryVars, failoverVars
    <3>2. slow \in BOOLEAN
          /\ phase \in {"healthy", "detecting", "delaying", "electing", "over", "timed out"}
      BY <2>1 DEF WaitInv, WaitTypeOK
    <3>3. WaitTypeOK'
      BY <2>1, <3>1, <3>2, Numbers, TypesStay DEF WaitInv
    <3>4. QED
      BY <2>1, <3>1, <3>3 DEF WaitInv, ConfigConverts, WaitBounded, ElectionFits, Unhurried
  <2>2. QED
    BY <2>1, FailAttemptStays, BeforeElectionStays, ElectStays DEF RetryNext, FailoverNext
<1>2. WaitInv => WaitsSound
  BY DEF WaitInv, WaitsSound
<1>3. QED
  BY <1>1, <1>2, WaitInitInv, PTL DEF WaitSpec

-----------------------------------------------------------------------------
(* Names                                                                   *)

(* A text is made of characters and of words that stand for some.          *)
Char == STRING \cup {Underscore, Period, "x", "rpc", "events", "commands", "service",
                     "callback", "cancel"}

(* A name is a text that is not empty.                                     *)
LEMMA NameIs ==
  ASSUME NEW s \in Name
  PROVE  s \in Seq(Char) /\ Len(s) \in Nat /\ Len(s) >= 1 /\ DOMAIN s = 1 .. Len(s)
<1>1. s \in Seq(STRING) /\ s # <<>> /\ STRING \subseteq Char
  BY NamesAssumption DEF Char
<1>2. s \in Seq(Char)
  BY <1>1, SeqMonotonic, Zenon
<1>3. Len(s) \in Nat /\ DOMAIN s = 1 .. Len(s)
  BY <1>2, LenProperties, Zenon
<1>4. Len(s) # 0
  BY <1>1, <1>2, EmptySeq, Zenon
<1>5. QED
  BY <1>2, <1>3, <1>4

(* What stands where in two texts with a separator between them.           *)
KeyOf(k, s, i) ==
  /\ k \in Seq(Char) /\ Len(k) = Len(s) + 2 + Len(i)
  /\ \A j \in 1 .. Len(s) : k[j] = s[j]
  /\ k[Len(s) + 1] = Underscore /\ k[Len(s) + 2] = Underscore
  /\ \A j \in 1 .. Len(i) : k[Len(s) + 2 + j] = i[j]

(* A registry key is a service, a separator and an instance.               *)
LEMMA KeyIs ==
  ASSUME NEW s \in Seq(Char), NEW i \in Seq(Char)
  PROVE  Len(s) \in Nat /\ Len(i) \in Nat /\ KeyOf(MakeKey(s, i), s, i)
<1> DEFINE k == MakeKey(s, i)
<1>1. Len(s) \in Nat /\ Len(i) \in Nat
  BY LenProperties
<1>2. /\ Separator \in Seq(Char) /\ Len(Separator) = 2
      /\ Separator[1] = Underscore /\ Separator[2] = Underscore
  <2>1. Underscore \in Char
    BY DEF Char
  <2>2. QED
    BY <2>1 DEF Separator
<1> DEFINE t == s \o Separator
<1>3. /\ t \in Seq(Char) /\ Len(t) = Len(s) + 2
      /\ \A j \in 1 .. Len(s) + 2 : t[j] = IF j <= Len(s) THEN s[j] ELSE Separator[j - Len(s)]
  <2>1. /\ t \in Seq(Char) /\ Len(t) = Len(s) + Len(Separator)
        /\ \A j \in 1 .. Len(s) + Len(Separator) :
             t[j] = IF j <= Len(s) THEN s[j] ELSE Separator[j - Len(s)]
    BY <1>2, ConcatProperties, Zenon
  <2>2. QED
    BY <1>2, <2>1, Zenon
<1>4. k = t \o i
  BY DEF MakeKey
<1> HIDE DEF t, k
<1>5. /\ k \in Seq(Char) /\ Len(k) = Len(s) + 2 + Len(i)
      /\ \A j \in 1 .. Len(s) + 2 + Len(i) : k[j] = IF j <= Len(s) + 2 THEN t[j] ELSE i[j - (Len(s) + 2)]
  <2>1. /\ k \in Seq(Char) /\ Len(k) = Len(t) + Len(i)
        /\ \A j \in 1 .. Len(t) + Len(i) : k[j] = IF j <= Len(t) THEN t[j] ELSE i[j - Len(t)]
    BY <1>3, <1>4, ConcatProperties, Zenon
  <2>2. QED
    BY <1>3, <2>1, Zenon
<1>6. \A j \in 1 .. Len(s) : k[j] = s[j]
  BY <1>1, <1>3, <1>5
<1>7. k[Len(s) + 1] = Underscore /\ k[Len(s) + 2] = Underscore
  <2>1. /\ Len(s) + 1 \in 1 .. Len(s) + 2 /\ Len(s) + 2 \in 1 .. Len(s) + 2
        /\ (Len(s) + 1) - Len(s) = 1 /\ (Len(s) + 2) - Len(s) = 2
        /\ ~(Len(s) + 1 <= Len(s)) /\ ~(Len(s) + 2 <= Len(s))
        /\ Len(s) + 1 \in 1 .. Len(s) + 2 + Len(i) /\ Len(s) + 2 \in 1 .. Len(s) + 2 + Len(i)
    BY <1>1
  <2>2. t[Len(s) + 1] = Underscore /\ t[Len(s) + 2] = Underscore
    BY <1>2, <1>3, <2>1
  <2>3. QED
    BY <1>1, <1>5, <2>1, <2>2
<1>8. ASSUME NEW j \in 1 .. Len(i) PROVE k[Len(s) + 2 + j] = i[j]
  <2>1. /\ Len(s) + 2 + j \in 1 .. Len(s) + 2 + Len(i) /\ ~(Len(s) + 2 + j <= Len(s) + 2)
        /\ (Len(s) + 2 + j) - (Len(s) + 2) = j
    BY <1>1
  <2>2. QED
    BY <1>5, <2>1
<1>9. QED
  BY <1>1, <1>5, <1>6, <1>7, <1>8 DEF KeyOf, k

(* What begins with a text and a separator.                                *)
LEMMA PrefixIs ==
  ASSUME NEW s \in Seq(Char), NEW k \in Seq(Char)
  PROVE  IsPrefix(s \o Separator, k) <=>
           /\ Len(s) + 2 <= Len(k) /\ \A j \in 1 .. Len(s) : k[j] = s[j]
           /\ k[Len(s) + 1] = Underscore /\ k[Len(s) + 2] = Underscore
<1> DEFINE t == s \o Separator
<1>1. Len(s) \in Nat /\ Len(k) \in Nat /\ \A j \in 1 .. Len(k) : k[j] \in Char
  BY LenProperties, ElementOfSeq
<1>2. /\ Separator \in Seq(Char) /\ Len(Separator) = 2
      /\ Separator[1] = Underscore /\ Separator[2] = Underscore
  <2>1. Underscore \in Char
    BY DEF Char
  <2>2. QED
    BY <2>1 DEF Separator
<1>3. /\ t \in Seq(Char) /\ Len(t) = Len(s) + 2
      /\ \A j \in 1 .. Len(s) + 2 : t[j] = IF j <= Len(s) THEN s[j] ELSE Separator[j - Len(s)]
  <2>1. /\ t \in Seq(Char) /\ Len(t) = Len(s) + Len(Separator)
        /\ \A j \in 1 .. Len(s) + Len(Separator) :
             t[j] = IF j <= Len(s) THEN s[j] ELSE Separator[j - Len(s)]
    BY <1>2, ConcatProperties, Zenon
  <2>2. QED
    BY <1>2, <2>1, Zenon
<1>4. \A j \in 1 .. Len(t) : t[j] \in Char
  BY <1>3, ElementOfSeq
<1> HIDE DEF t
<1>5. /\ \A j \in 1 .. Len(s) : t[j] = s[j]
      /\ t[Len(s) + 1] = Underscore /\ t[Len(s) + 2] = Underscore
  <2>1. /\ Len(s) + 1 \in 1 .. Len(s) + 2 /\ Len(s) + 2 \in 1 .. Len(s) + 2
        /\ (Len(s) + 1) - Len(s) = 1 /\ (Len(s) + 2) - Len(s) = 2
        /\ ~(Len(s) + 1 <= Len(s)) /\ ~(Len(s) + 2 <= Len(s))
        /\ \A j \in 1 .. Len(s) : j \in 1 .. Len(s) + 2 /\ j <= Len(s)
    BY <1>1
  <2>2. QED
    BY <1>2, <1>3, <2>1
<1>6. Len(t) <= Len(k) =>
        (SubSeq(t, 1, Len(t)) = SubSeq(k, 1, Len(t)) <=> \A j \in 1 .. Len(t) : t[j] = k[j])
  <2> SUFFICES ASSUME Len(t) <= Len(k)
               PROVE  SubSeq(t, 1, Len(t)) = SubSeq(k, 1, Len(t))
                        <=> \A j \in 1 .. Len(t) : t[j] = k[j]
    OBVIOUS
  <2> DEFINE a == SubSeq(t, 1, Len(t))
             b == SubSeq(k, 1, Len(t))
             n == Len(t)
  <2>1. n \in Int /\ n >= 2 /\ 1 \in Int /\ \A j \in 1 .. n : j \in 1 .. Len(k)
    BY <1>1, <1>3
  <2>2. /\ a \in Seq(Char) /\ Len(a) = n /\ \A j \in 1 .. n - 1 + 1 : a[j] = t[1 + j - 1]
        /\ b \in Seq(Char) /\ Len(b) = n /\ \A j \in 1 .. n - 1 + 1 : b[j] = k[1 + j - 1]
    <3>1. \A j \in 1 .. n : k[j] \in Char
      BY <1>1, <2>1
    <3> HIDE DEF n
    <3>2. /\ a \in Seq(Char) /\ Len(a) = (IF 1 <= n THEN n - 1 + 1 ELSE 0)
          /\ \A j \in 1 .. n - 1 + 1 : a[j] = t[1 + j - 1]
      BY <1>4, <2>1, SubSeqProperties DEF n
    <3>3. /\ b \in Seq(Char) /\ Len(b) = (IF 1 <= n THEN n - 1 + 1 ELSE 0)
          /\ \A j \in 1 .. n - 1 + 1 : b[j] = k[1 + j - 1]
      BY <2>1, <3>1, SubSeqProperties DEF n
    <3>4. QED
      BY <2>1, <3>2, <3>3
  <2> HIDE DEF a, b, n
  <2>3. /\ \A j \in 1 .. n : a[j] = t[j] /\ b[j] = k[j]
    <3>1. \A j \in 1 .. n : j \in 1 .. n - 1 + 1 /\ 1 + j - 1 = j
      BY <2>1
    <3>2. QED
      BY <2>2, <3>1
  <2>4. a = b <=> \A j \in 1 .. n : a[j] = b[j]
    BY <2>2, SeqEqual
  <2>5. QED
    BY <2>3, <2>4 DEF a, b, n
<1>7. (\A j \in 1 .. Len(t) : t[j] = k[j]) <=>
        (\A j \in 1 .. Len(s) : k[j] = s[j]) /\ k[Len(s) + 1] = Underscore /\ k[Len(s) + 2] = Underscore
  <2>1. \A j \in 1 .. Len(t) : j \in 1 .. Len(s) \/ j = Len(s) + 1 \/ j = Len(s) + 2
    BY <1>1, <1>3
  <2>2. /\ \A j \in 1 .. Len(s) : j \in 1 .. Len(t)
        /\ Len(s) + 1 \in 1 .. Len(t) /\ Len(s) + 2 \in 1 .. Len(t)
    BY <1>1, <1>3
  <2>3. QED
    BY <1>5, <2>1, <2>2
<1>8. QED
  BY <1>3, <1>6, <1>7 DEF IsPrefix, t

-----------------------------------------------------------------------------
(* Where a text is cut: inside every separator, or just before it.         *)
LEMMA RunStarts ==
  ASSUME NEW s \in Seq(Char), NEW q \in 1 .. Len(s), s[q] = Underscore
  PROVE  \E j \in 1 .. q : Run(s, j, q)
<1> DEFINE T == {j \in 1 .. q : \A i \in j .. q : s[i] = Underscore}
<1>1. Len(s) \in Nat /\ q \in Nat /\ q >= 1
  BY LenProperties
<1>2. q \in T /\ T \subseteq Nat
  BY <1>1
<1>3. PICK j \in T : \A m \in T : j <= m
  BY <1>2, LeastNumber
<1>4. ASSUME j # 1, s[j - 1] = Underscore PROVE FALSE
  <2>1. j - 1 \in 1 .. q /\ \A i \in j - 1 .. q : i = j - 1 \/ i \in j .. q
    BY <1>1, <1>4
  <2>2. j - 1 \in T
    BY <1>4, <2>1
  <2>3. j <= j - 1
    BY <1>3, <2>2, Zenon
  <2>4. QED
    BY <1>1, <2>3
<1>5. QED
  BY <1>4 DEF Run

(* Where two underscores follow each other, a separator is cut: there, or *)
(* one character earlier.                                                  *)
LEMMA CutNear ==
  ASSUME NEW s \in Seq(Char), NEW q \in 1 .. Len(s) - 1, s[q] = Underscore, s[q + 1] = Underscore
  PROVE  q \in Cuts(s) \/ q - 1 \in Cuts(s)
<1>1. Len(s) \in Nat /\ q \in Nat /\ q \in 1 .. Len(s)
  BY LenProperties
<1>2. PICK j \in 1 .. q : Run(s, j, q)
  BY <1>1, RunStarts
<1>3. CASE (q - j) % 2 = 0
  BY <1>2, <1>3 DEF Cuts
<1>4. CASE (q - j) % 2 # 0
  <2>1. j \in 1 .. q - 1 /\ q - 1 \in 1 .. Len(s) - 1 /\ (q - 1) + 1 = q
    BY <1>1, <1>4
  <2>2. ((q - 1) - j) % 2 = 0
    BY <1>1, <1>4, <2>1
  <2>3. Run(s, j, q - 1)
    <3>1. \A i \in j .. q - 1 : i \in j .. q
      BY <1>1
    <3>2. QED
      BY <1>2, <3>1 DEF Run
  <2>4. QED
    BY <2>1, <2>2, <2>3 DEF Cuts
<1>5. QED
  BY <1>3, <1>4

(* What is cut is a separator.                                             *)
LEMMA CutIsSeparator ==
  ASSUME NEW s \in Seq(Char), NEW q \in Cuts(s)
  PROVE  q \in 1 .. Len(s) - 1 /\ s[q] = Underscore /\ s[q + 1] = Underscore
<1>1. Len(s) \in Nat
  BY LenProperties
<1>2. QED
  BY <1>1 DEF Cuts, Run

(* The ends of a set of cuts.                                              *)
LEMMA LastCut ==
  ASSUME NEW s \in Seq(Char), Cuts(s) # {}
  PROVE  Max(Cuts(s)) \in Cuts(s) /\ \A q \in Cuts(s) : q <= Max(Cuts(s))
<1> DEFINE T == {Len(s) - q : q \in Cuts(s)}
<1>1. Len(s) \in Nat /\ \A q \in Cuts(s) : q \in 1 .. Len(s) - 1
  BY LenProperties, CutIsSeparator
<1>2. T \subseteq Nat /\ T # {}
  BY <1>1
<1>3. PICK n \in T : \A m \in T : n <= m
  BY <1>2, LeastNumber
<1>4. PICK k \in Cuts(s) : n = Len(s) - k
  OBVIOUS
<1>5. ASSUME NEW q \in Cuts(s) PROVE q <= k
  <2>1. n <= Len(s) - q
    BY <1>3
  <2>2. QED
    BY <1>1, <1>4, <2>1
<1> HIDE DEF T
<1>6. \E x \in Cuts(s) : \A y \in Cuts(s) : x >= y
  <2>1. \A y \in Cuts(s) : k >= y
    BY <1>1, <1>5
  <2>2. QED
    BY <2>1
<1>7. Max(Cuts(s)) \in Cuts(s) /\ \A y \in Cuts(s) : Max(Cuts(s)) >= y
  BY <1>6, Zenon DEF Max
<1>8. QED
  BY <1>1, <1>7

(* The last part is a text, and has no separator.                          *)
LEMMA LastPartIs ==
  ASSUME NEW s \in Seq(Char)
  PROVE  LastPart(s) \in Seq(Char) /\ ~HasSeparator(LastPart(s))
<1>1. /\ Len(s) \in Nat /\ DOMAIN s = 1 .. Len(s)
      /\ \A j \in 1 .. Len(s) : s[j] \in Char
  BY LenProperties, ElementOfSeq
<1>2. CASE Cuts(s) = {}
  <2>1. LastPart(s) = s
    BY <1>2 DEF LastPart
  <2>2. ASSUME NEW k \in DOMAIN s, k > 1, s[k - 1] = Underscore, s[k] = Underscore PROVE FALSE
    <3>1. k - 1 \in 1 .. Len(s) - 1 /\ (k - 1) + 1 = k
      BY <1>1, <2>2
    <3>2. QED
      BY <1>2, <2>2, <3>1, CutNear
  <2>3. QED
    BY <2>1, <2>2 DEF HasSeparator
<1>3. CASE Cuts(s) # {}
  <2> DEFINE m == Max(Cuts(s))
             p == SubSeq(s, m + 2, Len(s))
  <2>1. m \in Cuts(s) /\ \A q \in Cuts(s) : q <= m
    BY <1>3, LastCut
  <2> HIDE DEF m
  <2>2. m \in 1 .. Len(s) - 1
    BY <2>1, CutIsSeparator
  <2>3. m + 2 \in Int /\ Len(s) \in Int /\ \A j \in m + 2 .. Len(s) : s[j] \in Char
    BY <1>1, <2>2
  <2>4. /\ p \in Seq(Char)
        /\ Len(p) = (IF m + 2 <= Len(s) THEN Len(s) - (m + 2) + 1 ELSE 0)
        /\ \A j \in 1 .. Len(s) - (m + 2) + 1 : p[j] = s[(m + 2) + j - 1]
    BY <2>3, SubSeqProperties
  <2> HIDE DEF p
  <2>5. DOMAIN p = 1 .. Len(p) /\ Len(p) = Len(s) - (m + 1)
    <3>1. DOMAIN p = 1 .. Len(p)
      BY <2>4, LenProperties
    <3>2. m \in Int /\ Len(s) \in Int /\ m <= Len(s) - 1
      BY <1>1, <2>2
    <3>3. Len(p) = IF m + 2 <= Len(s) THEN Len(s) - (m + 2) + 1 ELSE 0
      BY <2>4
    <3>4. Len(p) = Len(s) - (m + 1)
      BY <3>2, <3>3
    <3>5. QED
      BY <3>1, <3>4
  <2>6. ASSUME NEW k \in DOMAIN p, k > 1, p[k - 1] = Underscore, p[k] = Underscore PROVE FALSE
    <3>1. /\ k \in 1 .. Len(s) - (m + 2) + 1 /\ k - 1 \in 1 .. Len(s) - (m + 2) + 1
          /\ (m + 2) + k - 1 = (m + k) + 1 /\ (m + 2) + (k - 1) - 1 = m + k
          /\ m + k \in 1 .. Len(s) - 1 /\ k \in Nat /\ m \in Nat
      BY <1>1, <2>2, <2>5, <2>6
    <3>2. s[m + k] = Underscore /\ s[(m + k) + 1] = Underscore
      BY <2>4, <2>6, <3>1
    <3>3. m + k \in Cuts(s) \/ (m + k) - 1 \in Cuts(s)
      BY <3>1, <3>2, CutNear
    <3>4. QED
      BY <2>1, <2>6, <3>1, <3>3, SMTT(60)
  <2>7. LastPart(s) = p
    BY <1>3 DEF LastPart, p, m
  <2>8. QED
    BY <2>4, <2>6, <2>7 DEF HasSeparator
<1>4. QED
  BY <1>2, <1>3

-----------------------------------------------------------------------------
(* A key of two names is first cut after the first of them, if that has no *)
(* separator and does not end like one.                                    *)
LEMMA FirstSeparator ==
  ASSUME NEW s \in Seq(Char), NEW i \in Seq(Char), NEW k, KeyOf(k, s, i),
         Len(s) >= 1, ~HasSeparator(s), s[Len(s)] # Underscore,
         NEW q \in 1 .. Len(k) - 1, k[q] = Underscore, k[q + 1] = Underscore
  PROVE  /\ q >= Len(s) + 1
         /\ Len(i) >= 1 /\ i[1] # Underscore /\ ~HasSeparator(i) => q = Len(s) + 1
<1>1. /\ k \in Seq(Char) /\ Len(s) \in Nat /\ Len(i) \in Nat /\ Len(k) = Len(s) + 2 + Len(i)
      /\ \A j \in 1 .. Len(s) : k[j] = s[j]
      /\ \A j \in 1 .. Len(i) : k[Len(s) + 2 + j] = i[j]
  BY LenProperties DEF KeyOf
<1>2. DOMAIN s = 1 .. Len(s) /\ DOMAIN i = 1 .. Len(i)
  BY LenProperties
<1>3. q # Len(s)
  <2>1. Len(s) \in 1 .. Len(s)
    BY <1>1
  <2>2. k[Len(s)] # Underscore
    BY <1>1, <2>1
  <2>3. QED
    BY <2>2
<1>4. ~(q < Len(s))
  <2> SUFFICES ASSUME q < Len(s) PROVE FALSE
    OBVIOUS
  <2>1. q \in 1 .. Len(s) /\ q + 1 \in 1 .. Len(s) /\ q + 1 > 1 /\ (q + 1) - 1 = q
    BY <1>1
  <2>2. s[q] = Underscore /\ s[q + 1] = Underscore
    BY <1>1, <2>1
  <2>3. QED
    BY <1>2, <2>1, <2>2 DEF HasSeparator
<1>5. ASSUME Len(i) >= 1, i[1] # Underscore, ~HasSeparator(i) PROVE q = Len(s) + 1
  <2>1. q # Len(s) + 2
    <3>1. 1 \in 1 .. Len(i) /\ (Len(s) + 2) + 1 = Len(s) + 2 + 1
      BY <1>1, <1>5
    <3>2. k[(Len(s) + 2) + 1] = i[1]
      BY <1>1, <3>1
    <3>3. QED
      BY <1>5, <3>2
  <2>2. ~(q > Len(s) + 2)
    <3> SUFFICES ASSUME q > Len(s) + 2 PROVE FALSE
      OBVIOUS
    <3> DEFINE j == q - (Len(s) + 2)
    <3>1. /\ j \in 1 .. Len(i) /\ j + 1 \in 1 .. Len(i) /\ j + 1 > 1 /\ (j + 1) - 1 = j
          /\ Len(s) + 2 + j = q /\ Len(s) + 2 + (j + 1) = q + 1
      BY <1>1
    <3> HIDE DEF j
    <3>2. i[j] = Underscore /\ i[j + 1] = Underscore
      BY <1>1, <3>1
    <3>3. QED
      BY <1>2, <1>5, <3>1, <3>2 DEF HasSeparator
  <2>3. QED
    BY <1>1, <1>3, <1>4, <2>1, <2>2
<1>6. QED
  BY <1>1, <1>3, <1>4, <1>5

(* A key of plain names comes apart into them.                             *)
LEMMA KeyComesApart ==
  ASSUME NEW s \in Seq(Char), NEW i \in Seq(Char), NEW k, KeyOf(k, s, i),
         Len(s) >= 1, ~HasSeparator(s), s[Len(s)] # Underscore,
         Len(i) >= 1, ~HasSeparator(i), i[1] # Underscore
  PROVE  FirstPart(k) = s /\ LastPart(k) = i
<1> DEFINE n == Len(s)
<1>1. /\ k \in Seq(Char) /\ n \in Nat /\ Len(i) \in Nat /\ Len(k) = n + 2 + Len(i)
      /\ \A j \in 1 .. n : k[j] = s[j]
      /\ k[n + 1] = Underscore /\ k[n + 2] = Underscore
      /\ \A j \in 1 .. Len(i) : k[n + 2 + j] = i[j]
  BY LenProperties DEF KeyOf
<1>2. \A j \in 1 .. Len(k) : k[j] \in Char
  BY <1>1, ElementOfSeq
<1>3. \A q \in Cuts(k) : q = n + 1
  <2> SUFFICES ASSUME NEW q \in Cuts(k) PROVE q = n + 1
    OBVIOUS
  <2>1. q \in 1 .. Len(k) - 1 /\ k[q] = Underscore /\ k[q + 1] = Underscore
    BY <1>1, CutIsSeparator
  <2>2. QED
    BY <2>1, FirstSeparator
<1>4. n + 1 \in Cuts(k)
  <2>1. n + 1 \in 1 .. Len(k) - 1 /\ (n + 1) + 1 = n + 2 /\ (n + 1) - 1 = n
    BY <1>1
  <2>2. k[n + 1] = Underscore /\ k[(n + 1) + 1] = Underscore
    BY <1>1, <2>1
  <2>3. n + 1 \in Cuts(k) \/ n \in Cuts(k)
    BY <1>1, <2>1, <2>2, CutNear
  <2>4. QED
    BY <1>1, <1>3, <2>3
<1>5. Cuts(k) = {n + 1}
  BY <1>3, <1>4
<1>6. Min(Cuts(k)) = n + 1 /\ Max(Cuts(k)) = n + 1
  BY <1>1, <1>5 DEF Min, Max
<1> HIDE DEF n
<1>7. FirstPart(k) = SubSeq(k, 1, n)
  <2>1. (n + 1) - 1 = n
    BY <1>1
  <2>2. QED
    BY <1>5, <1>6, <2>1 DEF FirstPart
<1>8. LastPart(k) = SubSeq(k, n + 3, Len(k))
  <2>1. (n + 1) + 2 = n + 3
    BY <1>1
  <2>2. QED
    BY <1>5, <1>6, <2>1 DEF LastPart
<1>9. SubSeq(k, 1, n) = s
  <2> DEFINE a == SubSeq(k, 1, n)
  <2>1. 1 \in Int /\ n \in Int /\ \A j \in 1 .. n : k[j] \in Char
    BY <1>1, <1>2
  <2>2. /\ a \in Seq(Char) /\ Len(a) = (IF 1 <= n THEN n - 1 + 1 ELSE 0)
        /\ \A j \in 1 .. n - 1 + 1 : a[j] = k[1 + j - 1]
    BY <2>1, SubSeqProperties
  <2> HIDE DEF a
  <2>3. Len(a) = n /\ \A j \in 1 .. n : j \in 1 .. n - 1 + 1 /\ 1 + j - 1 = j
    BY <1>1, <2>2 DEF n
  <2>4. \A j \in 1 .. n : a[j] = s[j]
    BY <1>1, <2>2, <2>3
  <2>5. QED
    BY <2>2, <2>3, <2>4, SeqEqual DEF a, n
<1>10. SubSeq(k, n + 3, Len(k)) = i
  <2> DEFINE b == SubSeq(k, n + 3, Len(k))
             l == Len(k)
  <2>1. n + 3 \in Int /\ l \in Int /\ \A j \in n + 3 .. l : k[j] \in Char
    BY <1>1, <1>2
  <2>2. /\ b \in Seq(Char) /\ Len(b) = (IF n + 3 <= l THEN l - (n + 3) + 1 ELSE 0)
        /\ \A j \in 1 .. l - (n + 3) + 1 : b[j] = k[(n + 3) + j - 1]
    BY <2>1, SubSeqProperties
  <2> HIDE DEF b
  <2>3. /\ Len(b) = Len(i)
        /\ \A j \in 1 .. Len(i) : j \in 1 .. l - (n + 3) + 1 /\ (n + 3) + j - 1 = n + 2 + j
    BY <1>1, <2>2
  <2>4. \A j \in 1 .. Len(i) : b[j] = i[j]
    BY <1>1, <2>2, <2>3
  <2>5. QED
    BY <2>2, <2>3, <2>4, SeqEqual DEF b
<1>11. QED
  BY <1>7, <1>8, <1>9, <1>10

(* A key that could be of a plain name and something without separators is *)
(* of that name, if the name it was made of does not end like a separator. *)
LEMMA KeyIsOf ==
  ASSUME NEW s \in Seq(Char), NEW i \in Seq(Char),
         NEW t \in Seq(Char), NEW u \in Seq(Char), NEW k, KeyOf(k, s, i), KeyOf(k, t, u),
         Len(s) >= 1, ~HasSeparator(s), s[Len(s)] # Underscore, ~HasSeparator(i),
         Len(t) >= 1, t[Len(t)] # Underscore
  PROVE  t = s
<1> DEFINE n == Len(s)
           m == Len(t)
<1>1. /\ k \in Seq(Char) /\ n \in Nat /\ Len(i) \in Nat /\ Len(k) = n + 2 + Len(i)
      /\ \A j \in 1 .. n : k[j] = s[j]
      /\ k[n + 1] = Underscore /\ k[n + 2] = Underscore
      /\ \A j \in 1 .. Len(i) : k[n + 2 + j] = i[j]
  BY LenProperties DEF KeyOf
<1>2. /\ m \in Nat /\ Len(u) \in Nat /\ Len(k) = m + 2 + Len(u)
      /\ \A j \in 1 .. m : k[j] = t[j]
      /\ k[m + 1] = Underscore /\ k[m + 2] = Underscore
  BY LenProperties DEF KeyOf
<1>3. m >= n
  <2>1. m + 1 \in 1 .. Len(k) - 1 /\ (m + 1) + 1 = m + 2
    BY <1>2
  <2>2. m + 1 >= n + 1
    BY <1>2, <2>1, FirstSeparator
  <2>3. QED
    BY <1>1, <1>2, <2>2
<1> HIDE DEF n, m
<1>4. m # n + 1 /\ m # n + 2
  <2>1. t[m] # Underscore /\ m \in 1 .. m
    BY <1>2 DEF m
  <2>2. k[m] # Underscore
    BY <1>2, <2>1
  <2>3. QED
    BY <1>1, <1>2, <2>2
<1>5. ~(m > n + 2)
  <2> SUFFICES ASSUME m > n + 2 PROVE FALSE
    OBVIOUS
  <2> DEFINE j == m + 1 - (n + 2)
  <2>1. /\ j \in 1 .. Len(i) /\ j + 1 \in 1 .. Len(i) /\ j + 1 > 1 /\ (j + 1) - 1 = j
        /\ n + 2 + j = m + 1 /\ n + 2 + (j + 1) = m + 2
    <3>1. m + 2 <= n + 2 + Len(i)
      BY <1>1, <1>2
    <3>2. QED
      BY <1>1, <1>2, <3>1
  <2> HIDE DEF j
  <2>2. i[j] = Underscore /\ i[j + 1] = Underscore
    BY <1>1, <1>2, <2>1
  <2>3. j + 1 \in DOMAIN i
    BY <2>1, LenProperties
  <2>4. QED
    BY <2>1, <2>2, <2>3 DEF HasSeparator
<1>6. m = n
  <2>1. m \in Nat /\ n \in Nat
    BY <1>1, <1>2
  <2>2. QED
    BY <1>3, <1>4, <1>5, <2>1
<1>7. \A j \in 1 .. n : t[j] = s[j]
  BY <1>1, <1>2, <1>6
<1>8. QED
  BY <1>6, <1>7, SeqEqual DEF m, n

-----------------------------------------------------------------------------
(* Two texts without a full stop before their first one are the same.      *)
DottedOf(k, a, g) ==
  /\ Len(k) = Len(a) + 1 + Len(g)
  /\ \A j \in 1 .. Len(a) : k[j] = a[j]
  /\ k[Len(a) + 1] = Period
  /\ \A j \in 1 .. Len(g) : k[Len(a) + 1 + j] = g[j]

(* Two texts joined by a full stop are that.                               *)
LEMMA DottedIs ==
  ASSUME NEW a \in Seq(Char), NEW g \in Seq(Char)
  PROVE  (a \o Dot) \o g \in Seq(Char) /\ DottedOf((a \o Dot) \o g, a, g)
<1> DEFINE t == a \o Dot
           k == t \o g
<1>1. Len(a) \in Nat /\ Len(g) \in Nat
  BY LenProperties
<1>2. Dot \in Seq(Char) /\ Len(Dot) = 1 /\ Dot[1] = Period
  <2>1. Period \in Char
    BY DEF Char
  <2>2. QED
    BY <2>1 DEF Dot
<1>3. /\ t \in Seq(Char) /\ Len(t) = Len(a) + 1
      /\ \A j \in 1 .. Len(a) + 1 : t[j] = IF j <= Len(a) THEN a[j] ELSE Dot[j - Len(a)]
  <2>1. /\ t \in Seq(Char) /\ Len(t) = Len(a) + Len(Dot)
        /\ \A j \in 1 .. Len(a) + Len(Dot) : t[j] = IF j <= Len(a) THEN a[j] ELSE Dot[j - Len(a)]
    BY <1>2, ConcatProperties, Zenon
  <2>2. QED
    BY <1>2, <2>1, Zenon
<1> HIDE DEF t
<1>4. /\ k \in Seq(Char) /\ Len(k) = Len(a) + 1 + Len(g)
      /\ \A j \in 1 .. Len(a) + 1 + Len(g) : k[j] = IF j <= Len(a) + 1 THEN t[j] ELSE g[j - (Len(a) + 1)]
  <2> HIDE DEF k
  <2>1. k = t \o g
    BY DEF k
  <2>2. /\ t \o g \in Seq(Char) /\ Len(t \o g) = Len(t) + Len(g)
        /\ \A j \in 1 .. Len(t) + Len(g) : (t \o g)[j] = IF j <= Len(t) THEN t[j] ELSE g[j - Len(t)]
    <3>1. t \in Seq(Char)
      BY <1>3
    <3>2. QED
      BY <3>1, ConcatProperties, Zenon
  <2>3. QED
    BY <1>3, <2>1, <2>2, Zenon
<1> HIDE DEF k
<1>5. \A j \in 1 .. Len(a) : k[j] = a[j]
  BY <1>1, <1>3, <1>4
<1>6. k[Len(a) + 1] = Period
  <2>1. /\ Len(a) + 1 \in 1 .. Len(a) + 1 /\ (Len(a) + 1) - Len(a) = 1
        /\ ~(Len(a) + 1 <= Len(a)) /\ Len(a) + 1 <= Len(a) + 1
        /\ Len(a) + 1 \in 1 .. Len(a) + 1 + Len(g)
    BY <1>1
  <2>2. t[Len(a) + 1] = Period
    BY <1>2, <1>3, <2>1
  <2>3. QED
    BY <1>4, <2>1, <2>2
<1>7. ASSUME NEW j \in 1 .. Len(g) PROVE k[Len(a) + 1 + j] = g[j]
  <2>1. /\ Len(a) + 1 + j \in 1 .. Len(a) + 1 + Len(g) /\ ~(Len(a) + 1 + j <= Len(a) + 1)
        /\ (Len(a) + 1 + j) - (Len(a) + 1) = j
    BY <1>1
  <2>2. QED
    BY <1>4, <2>1
<1>8. QED
  BY <1>4, <1>5, <1>6, <1>7 DEF DottedOf, k, t

(* A key is joined at its first full stop: it tells the text before it, if *)
(* that has none, and the rest.                                            *)
LEMMA CutAtDot ==
  ASSUME NEW a \in Seq(Char), NEW g \in Seq(Char), NEW b \in Seq(Char), NEW h \in Seq(Char),
         ~Has(a, Period), ~Has(b, Period), NEW k, DottedOf(k, a, g), DottedOf(k, b, h)
  PROVE  a = b /\ g = h
<1>1. /\ Len(a) \in Nat /\ Len(b) \in Nat /\ Len(g) \in Nat /\ Len(h) \in Nat
      /\ DOMAIN a = 1 .. Len(a) /\ DOMAIN b = 1 .. Len(b)
  BY LenProperties
<1>2. ~(Len(a) < Len(b))
  <2> SUFFICES ASSUME Len(a) < Len(b) PROVE FALSE
    OBVIOUS
  <2>1. Len(a) + 1 \in 1 .. Len(b)
    BY <1>1
  <2>2. b[Len(a) + 1] = Period
    BY <2>1 DEF DottedOf
  <2>3. QED
    BY <1>1, <2>1, <2>2 DEF Has
<1>3. ~(Len(b) < Len(a))
  <2> SUFFICES ASSUME Len(b) < Len(a) PROVE FALSE
    OBVIOUS
  <2>1. Len(b) + 1 \in 1 .. Len(a)
    BY <1>1
  <2>2. a[Len(b) + 1] = Period
    BY <2>1 DEF DottedOf
  <2>3. QED
    BY <1>1, <2>1, <2>2 DEF Has
<1>4. Len(a) = Len(b)
  <2>1. Len(a) \in Nat /\ Len(b) \in Nat
    BY <1>1
  <2>2. QED
    BY <1>2, <1>3, <2>1
<1>5. \A j \in 1 .. Len(a) : a[j] = b[j]
  BY <1>4 DEF DottedOf
<1>6. Len(g) = Len(h)
  <2>1. Len(a) + 1 + Len(g) = Len(a) + 1 + Len(h)
    BY <1>4 DEF DottedOf
  <2>2. QED
    BY <1>1, <2>1
<1>7. \A j \in 1 .. Len(g) : g[j] = h[j]
  BY <1>4, <1>6 DEF DottedOf
<1>8. QED
  BY <1>4, <1>5, <1>6, <1>7, SeqEqual

(* Lowering a name leaves its length, and where it has a full stop.        *)
LEMMA LowerIs ==
  ASSUME NEW s \in Seq(Char)
  PROVE  Lower(s) \in Seq(Char) /\ (~Has(s, Period) => ~Has(Lower(s), Period))
<1>1. Len(s) \in Nat /\ DOMAIN s = 1 .. Len(s) /\ \A j \in 1 .. Len(s) : s[j] \in Char
  BY LenProperties, ElementOfSeq
<1>2. "x" \in Char
  BY DEF Char
<1>3. Lower(s) \in [1 .. Len(s) -> Char]
  BY <1>1, <1>2 DEF Lower
<1>4. Lower(s) \in Seq(Char)
  BY <1>1, <1>3
<1>5. DOMAIN Lower(s) = DOMAIN s
  BY DEF Lower
<1>6. ASSUME NEW j \in DOMAIN s, Lower(s)[j] = Period PROVE s[j] = Period
  BY <1>6 DEF Lower, Period
<1>7. QED
  BY <1>4, <1>5, <1>6 DEF Has

(* Three texts in a row, however they are put together.                    *)
LEMMA ThreeTexts ==
  \A s, t, u \in Seq(Char) : (s \o t) \o u = s \o (t \o u)
<1> SUFFICES ASSUME NEW s \in Seq(Char), NEW t \in Seq(Char), NEW u \in Seq(Char)
             PROVE  (s \o t) \o u = s \o (t \o u)
  OBVIOUS
<1> QED
  BY ConcatAssociative

(* The leader key and the state key, as a text, a full stop and the rest.  *)
LEMMA StateKeyIs ==
  ASSUME NEW s \in Seq(Char), NEW i \in Seq(Char), NEW g \in Seq(Char)
  PROVE  /\ Lower(s) \in Seq(Char) /\ (i \o Dot) \o g \in Seq(Char)
         /\ DottedOf((i \o Dot) \o g, i, g)
         /\ DottedOf(StateKey(s, i, g), Lower(s), (i \o Dot) \o g)
<1>1. Lower(s) \in Seq(Char)
  BY LowerIs
<1>2. Dot \in Seq(Char)
  <2>1. Period \in Char
    BY DEF Char
  <2>2. QED
    BY <2>1 DEF Dot
<1> DEFINE l == Lower(s) \o Dot
<1>3. l \in Seq(Char) /\ i \o Dot \in Seq(Char)
  BY <1>1, <1>2, ConcatProperties, Zenon
<1> HIDE DEF l
<1>4. l \o (i \o Dot) = (l \o i) \o Dot
  <2>1. (l \o i) \o Dot = l \o (i \o Dot)
    BY <1>2, <1>3, ThreeTexts, ZenonT(60)
  <2>2. QED
    BY <2>1
<1>5. l \o ((i \o Dot) \o g) = (l \o (i \o Dot)) \o g
  <2>1. (l \o (i \o Dot)) \o g = l \o ((i \o Dot) \o g)
    <3> DEFINE m == i \o Dot
    <3>1. m \in Seq(Char)
      BY <1>3
    <3> HIDE DEF m
    <3>2. (l \o m) \o g = l \o (m \o g)
      BY <1>3, <3>1, ThreeTexts, ZenonT(60)
    <3>3. QED
      BY <3>2 DEF m
  <2>2. QED
    BY <2>1
<1>6. StateKey(s, i, g) = ((l \o i) \o Dot) \o g
  BY DEF StateKey, l
<1>7. (i \o Dot) \o g \in Seq(Char) /\ DottedOf((i \o Dot) \o g, i, g)
  BY DottedIs
<1>8. DottedOf(l \o ((i \o Dot) \o g), Lower(s), (i \o Dot) \o g)
  BY <1>1, <1>7, DottedIs DEF l
<1>9. QED
  BY <1>1, <1>4, <1>5, <1>6, <1>7, <1>8

-----------------------------------------------------------------------------
(* Who is in the tables: accepted names under their keys.                  *)
Registrations ==
  /\ registered \subseteq Name \X Name
  /\ DOMAIN bucket = {MakeKey(p[1], p[2]) : p \in registered}
  /\ \A p \in registered : /\ ServiceAccepted(p[1]) /\ InstanceAccepted(p[2])
                           /\ bucket[MakeKey(p[1], p[2])] = p
LeadersFit ==
  \A a \in leaders : \E s, g \in Name :
    NameAccepted(s) /\ a = [key |-> LeaderKey(s, g), group |-> <<Lower(s), g>>]
StatesFit ==
  \A a \in states : \E s, i, g \in Name :
    NameAccepted(s) /\ InstanceAccepted(i)
      /\ a = [key |-> StateKey(s, i, g), of |-> <<Lower(s), i, g>>]
SubscriptionsFit == \A w \in subscribed : w \in Wanted /\ WantedAccepted(w)
NamesInv == Registrations /\ LeadersFit /\ StatesFit /\ SubscriptionsFit

(* A registration replaces the record under its key, and nothing else.     *)
LEMMA RegisterStep ==
  ASSUME Registrations, NEW s \in Name, NEW i \in Name, Register(s, i)
  PROVE  Registrations'
<1> DEFINE k == MakeKey(s, i)
           K(p) == MakeKey(p[1], p[2])
<1>1. /\ ServiceAccepted(s) /\ InstanceAccepted(i)
      /\ bucket' = [x \in DOMAIN bucket \cup {k} |-> IF x = k THEN <<s, i>> ELSE bucket[x]]
      /\ registered' = {p \in registered : K(p) # k} \cup {<<s, i>>}
  BY DEF Register
<1>2. K(<<s, i>>) = k /\ <<s, i>> \in Name \X Name /\ <<s, i>>[1] = s /\ <<s, i>>[2] = i
  OBVIOUS
<1> HIDE DEF k, K
<1>3. DOMAIN bucket' = {K(p) : p \in registered'}
  <2>1. DOMAIN bucket = {K(p) : p \in registered}
    BY DEF Registrations, K
  <2>2. DOMAIN bucket' = DOMAIN bucket \cup {k}
    BY <1>1
  <2>3. QED
    BY <1>1, <1>2, <2>1, <2>2, Zenon
<1>4. registered' \subseteq Name \X Name
  BY <1>1, <1>2 DEF Registrations
<1>5. ASSUME NEW p \in registered'
      PROVE  ServiceAccepted(p[1]) /\ InstanceAccepted(p[2]) /\ bucket'[K(p)] = p
  <2>1. CASE p = <<s, i>>
    BY <1>1, <1>2, <2>1
  <2>2. CASE p \in registered /\ K(p) # k
    <3>1. bucket[K(p)] = p /\ K(p) \in DOMAIN bucket /\ ServiceAccepted(p[1]) /\ InstanceAccepted(p[2])
      BY <2>2 DEF Registrations, K
    <3>2. bucket'[K(p)] = bucket[K(p)]
      BY <1>1, <2>2, <3>1
    <3>3. QED
      BY <3>1, <3>2
  <2>3. QED
    BY <1>1, <2>1, <2>2
<1>6. QED
  BY <1>3, <1>4, <1>5 DEF Registrations, K

(* A deregistration takes its own record only: another has another key.    *)
LEMMA DeregisterStep ==
  ASSUME Registrations, NEW p \in registered, Deregister(p)
  PROVE  Registrations'
<1> DEFINE K(q) == MakeKey(q[1], q[2])
<1>1. /\ bucket' = [x \in DOMAIN bucket \ {K(p)} |-> bucket[x]]
      /\ registered' = registered \ {p}
  BY DEF Deregister
<1>2. /\ DOMAIN bucket = {K(q) : q \in registered} /\ registered \subseteq Name \X Name
      /\ \A q \in registered : bucket[K(q)] = q /\ ServiceAccepted(q[1]) /\ InstanceAccepted(q[2])
  BY DEF Registrations
<1> HIDE DEF K
<1>3. \A q \in registered : q # p => K(q) # K(p)
  BY <1>2, Zenon
<1>4. DOMAIN bucket' = {K(q) : q \in registered'}
  <2>1. DOMAIN bucket' = DOMAIN bucket \ {K(p)}
    BY <1>1
  <2>2. QED
    BY <1>1, <1>2, <1>3, <2>1, ZenonT(60)
<1>5. ASSUME NEW q \in registered' PROVE bucket'[K(q)] = q
  <2>1. q \in registered /\ K(q) # K(p) /\ K(q) \in DOMAIN bucket
    BY <1>1, <1>2, <1>3
  <2>2. QED
    BY <1>1, <1>2, <2>1
<1>6. QED
  BY <1>1, <1>2, <1>4, <1>5 DEF Registrations, K

(* Every step keeps the invariant.                                         *)
LEMMA NamesStep ==
  ASSUME NamesInv, [NamesNext]_nameVars
  PROVE  NamesInv'
<1>1. ASSUME NEW s \in Name, NEW i \in Name, Register(s, i) PROVE NamesInv'
  <2>1. UNCHANGED <<leaders, states, subscribed>>
    BY <1>1 DEF Register
  <2>2. QED
    BY <1>1, <2>1, RegisterStep DEF NamesInv, LeadersFit, StatesFit, SubscriptionsFit
<1>2. ASSUME NEW p \in registered, Deregister(p) PROVE NamesInv'
  <2>1. UNCHANGED <<leaders, states, subscribed>>
    BY <1>2 DEF Deregister
  <2>2. QED
    BY <1>2, <2>1, DeregisterStep DEF NamesInv, LeadersFit, StatesFit, SubscriptionsFit
<1>3. ASSUME NEW s \in Name, NEW g \in Name, Contest(s, g) PROVE NamesInv'
  <2>1. UNCHANGED <<bucket, registered, states, subscribed>> /\ NameAccepted(s)
        /\ leaders' = leaders \cup {[key |-> LeaderKey(s, g), group |-> <<Lower(s), g>>]}
    BY <1>3 DEF Contest
  <2>2. LeadersFit'
    BY <2>1, Zenon DEF NamesInv, LeadersFit
  <2>3. QED
    BY <2>1, <2>2 DEF NamesInv, Registrations, StatesFit, SubscriptionsFit
<1>4. ASSUME NEW s \in Name, NEW i \in Name, NEW g \in Name, SaveState(s, i, g) PROVE NamesInv'
  <2>1. UNCHANGED <<bucket, registered, leaders, subscribed>> /\ NameAccepted(s) /\ InstanceAccepted(i)
        /\ states' = states \cup {[key |-> StateKey(s, i, g), of |-> <<Lower(s), i, g>>]}
    BY <1>4 DEF SaveState
  <2>2. StatesFit'
    BY <2>1, Zenon DEF NamesInv, StatesFit
  <2>3. QED
    BY <2>1, <2>2 DEF NamesInv, Registrations, LeadersFit, SubscriptionsFit
<1>5. ASSUME NEW w \in Wanted, Subscribe(w) PROVE NamesInv'
  <2>1. UNCHANGED <<bucket, registered, leaders, states>> /\ WantedAccepted(w)
        /\ subscribed' = subscribed \cup {w}
    BY <1>5 DEF Subscribe
  <2>2. SubscriptionsFit'
    BY <2>1 DEF NamesInv, SubscriptionsFit
  <2>3. QED
    BY <2>1, <2>2 DEF NamesInv, Registrations, LeadersFit, StatesFit
<1>6. CASE UNCHANGED nameVars
  BY <1>6 DEF nameVars, NamesInv, Registrations, LeadersFit, StatesFit, SubscriptionsFit
<1>7. QED
  BY <1>1, <1>2, <1>3, <1>4, <1>5, <1>6 DEF NamesNext

-----------------------------------------------------------------------------
(* What the listings find.                                                 *)
LEMMA FoundIs ==
  ASSUME Registrations, NEW s, NEW i, NEW x
  PROVE  x \in GetInstance(s, i) <=>
           x \in registered /\ MakeKey(x[1], x[2]) = MakeKey(s, i)
<1>1. CASE MakeKey(s, i) \in DOMAIN bucket
  <2>1. PICK p \in registered : MakeKey(p[1], p[2]) = MakeKey(s, i)
    BY <1>1 DEF Registrations
  <2>2. bucket[MakeKey(s, i)] = p
    BY <2>1 DEF Registrations
  <2>3. \A q \in registered : MakeKey(q[1], q[2]) = MakeKey(s, i) => q = p
    BY <2>2 DEF Registrations
  <2>4. QED
    BY <1>1, <2>1, <2>2, <2>3 DEF GetInstance
<1>2. CASE MakeKey(s, i) \notin DOMAIN bucket
  BY <1>2 DEF GetInstance, Registrations
<1>3. QED
  BY <1>1, <1>2

(* The characters that decide where a registered name is cut.              *)
LEMMA AcceptedIs ==
  ASSUME Registrations, NEW p \in registered
  PROVE  /\ p[1] \in Name /\ p[2] \in Name /\ p = <<p[1], p[2]>>
         /\ Len(p[2]) >= 1 /\ p[2][1] # Underscore
         /\ KeyOf(MakeKey(p[1], p[2]), p[1], p[2])
<1>1. p[1] \in Name /\ p[2] \in Name /\ p = <<p[1], p[2]>>
  BY DEF Registrations
<1>2. p[2][1] # Underscore
  BY DEF Registrations, InstanceAccepted, Alnum
<1>3. KeyOf(MakeKey(p[1], p[2]), p[1], p[2])
  BY <1>1, NameIs, KeyIs
<1>4. QED
  BY <1>1, <1>2, <1>3, NameIs

(* A plain name has no separator, and none can begin at its end.           *)
LEMMA PlainIs ==
  ASSUME NEW s, Plain(s)
  PROVE  ~HasSeparator(s) /\ s[Len(s)] # Underscore
BY DEF Plain, Alnum

(* A key of a registered instance of s begins with s and a separator.      *)
LEMMA OwnPrefix ==
  ASSUME Registrations, NEW p \in registered
  PROVE  IsPrefix(p[1] \o Separator, MakeKey(p[1], p[2]))
<1> DEFINE k == MakeKey(p[1], p[2])
           s == p[1]
           i == p[2]
<1>1. s \in Seq(Char) /\ i \in Seq(Char) /\ Len(s) \in Nat /\ Len(i) \in Nat /\ KeyOf(k, s, i)
  BY AcceptedIs, NameIs
<1> HIDE DEF k, s, i
<1>2. Len(s) + 2 <= Len(k)
  BY <1>1 DEF KeyOf
<1>3. QED
  BY <1>1, <1>2, PrefixIs DEF KeyOf, k, s, i

(* Every key that begins with a plain service and a separator is cut after *)
(* that service, so its listing finds its own records only, and all.       *)
LEMMA PlainListedHolds ==
  ASSUME Registrations PROVE PlainListed
<1> SUFFICES ASSUME \A p \in registered : Alnum(Last(p[1])), NEW s \in Name, Plain(s),
                    \A p \in Of(s) : ~HasSeparator(p[2])
             PROVE  ListInstances(s) = Of(s)
  BY DEF PlainListed
<1>1. s \in Seq(Char) /\ Len(s) >= 1 /\ ~HasSeparator(s) /\ s[Len(s)] # Underscore
  BY NameIs, PlainIs
<1>2. ASSUME NEW x \in ListInstances(s) PROVE x \in Of(s)
  <2>1. PICK k \in DOMAIN bucket : x \in GetInstance(s, LastPart(k))
    BY DEF ListInstances
  <2>2. PICK p \in registered : k = MakeKey(p[1], p[2])
    BY DEF Registrations
  <2>3. k \in Seq(Char)
    BY <2>2, AcceptedIs DEF KeyOf
  <2>4. LastPart(k) \in Seq(Char) /\ ~HasSeparator(LastPart(k))
    BY <2>3, LastPartIs
  <2>5. x \in registered /\ MakeKey(x[1], x[2]) = MakeKey(s, LastPart(k))
    BY <2>1, FoundIs
  <2>6. /\ x[1] \in Seq(Char) /\ x[2] \in Seq(Char) /\ Len(x[1]) >= 1
        /\ KeyOf(MakeKey(x[1], x[2]), x[1], x[2])
    BY <2>5, AcceptedIs, NameIs
  <2>7. KeyOf(MakeKey(x[1], x[2]), s, LastPart(k))
    BY <1>1, <2>4, <2>5, KeyIs
  <2>8. x[1][Len(x[1])] # Underscore
    BY <2>5 DEF Last, Alnum
  <2>9. x[1] = s
    BY <1>1, <2>4, <2>6, <2>7, <2>8, KeyIsOf
  <2>10. QED
    BY <2>5, <2>9 DEF Of
<1>3. ASSUME NEW x \in Of(s) PROVE x \in ListInstances(s)
  <2>1. x \in registered /\ x[1] = s /\ ~HasSeparator(x[2])
    BY DEF Of
  <2>2. /\ x[2] \in Seq(Char) /\ Len(x[2]) >= 1 /\ x[2][1] # Underscore
        /\ KeyOf(MakeKey(x[1], x[2]), s, x[2])
    BY <2>1, AcceptedIs, NameIs
  <2>3. LastPart(MakeKey(x[1], x[2])) = x[2]
    BY <1>1, <2>1, <2>2, KeyComesApart
  <2>4. MakeKey(x[1], x[2]) \in DOMAIN bucket /\ IsPrefix(s \o Separator, MakeKey(x[1], x[2]))
    BY <2>1, OwnPrefix DEF Registrations
  <2>5. x \in GetInstance(s, x[2])
    BY <2>1, FoundIs
  <2>6. QED
    BY <2>3, <2>4, <2>5 DEF ListInstances
<1>4. QED
  BY <1>2, <1>3

(* A key of plain names has one separator: its first and its last part are *)
(* the service and the instance.                                           *)
LEMMA ListingsAgreeHolds ==
  ASSUME Registrations PROVE ListingsAgree
<1> SUFFICES ASSUME \A p \in registered : Plain(p[1]) /\ ~HasSeparator(p[2]), NEW s \in Name
             PROVE  ListAllServices(s) = ListInstances(s)
  BY DEF ListingsAgree
<1>1. s \in Seq(Char) /\ Len(s) \in Nat
  BY NameIs
<1>2. ASSUME NEW p \in registered
      PROVE  /\ FirstPart(MakeKey(p[1], p[2])) = p[1] /\ LastPart(MakeKey(p[1], p[2])) = p[2]
             /\ bucket[MakeKey(p[1], p[2])] = p /\ MakeKey(p[1], p[2]) \in DOMAIN bucket
             /\ IsPrefix(s \o Separator, MakeKey(p[1], p[2])) <=> p[1] = s
             /\ GetInstance(p[1], p[2]) = {p}
  <2> DEFINE k == MakeKey(p[1], p[2])
  <2>1. /\ p[1] \in Seq(Char) /\ p[2] \in Seq(Char) /\ Len(p[1]) >= 1 /\ Len(p[1]) \in Nat
        /\ Len(p[2]) >= 1 /\ p[2][1] # Underscore /\ KeyOf(k, p[1], p[2])
    BY AcceptedIs, NameIs
  <2>2. ~HasSeparator(p[1]) /\ p[1][Len(p[1])] # Underscore /\ ~HasSeparator(p[2])
    BY PlainIs
  <2>3. bucket[k] = p /\ k \in DOMAIN bucket
    BY DEF Registrations
  <2>4. GetInstance(p[1], p[2]) = {p}
    BY <2>3 DEF GetInstance
  <2> HIDE DEF k
  <2>5. FirstPart(k) = p[1] /\ LastPart(k) = p[2]
    BY <2>1, <2>2, KeyComesApart
  <2>6. p[1] = s => IsPrefix(s \o Separator, k)
    BY OwnPrefix DEF k
  <2>7. IsPrefix(s \o Separator, k) => p[1] = s
    <3> SUFFICES ASSUME IsPrefix(s \o Separator, k) PROVE p[1] = s
      OBVIOUS
    <3>1. k \in Seq(Char)
      BY <2>1 DEF KeyOf
    <3>2. /\ Len(s) + 2 <= Len(k) /\ \A j \in 1 .. Len(s) : k[j] = s[j]
          /\ k[Len(s) + 1] = Underscore /\ k[Len(s) + 2] = Underscore
      BY <1>1, <3>1, PrefixIs
    <3>3. Len(k) \in Nat /\ Len(s) + 1 \in 1 .. Len(k) - 1 /\ (Len(s) + 1) + 1 = Len(s) + 2
      BY <1>1, <3>1, <3>2, LenProperties
    <3>4. Len(s) + 1 = Len(p[1]) + 1
      BY <2>1, <2>2, <3>2, <3>3, FirstSeparator
    <3>5. Len(s) = Len(p[1])
      BY <1>1, <2>1, <3>4
    <3>6. \A j \in 1 .. Len(s) : p[1][j] = s[j]
      BY <2>1, <3>2, <3>5 DEF KeyOf
    <3>7. QED
      BY <1>1, <2>1, <3>5, <3>6, SeqEqual
  <2>8. QED
    BY <2>3, <2>4, <2>5, <2>6, <2>7 DEF k
<1>3. ASSUME NEW k \in DOMAIN bucket
      PROVE  \E p \in registered : k = MakeKey(p[1], p[2])
  BY DEF Registrations
<1>4. ListAllServices(s) = Of(s)
  <2>1. ASSUME NEW x \in ListAllServices(s) PROVE x \in Of(s)
    <3>1. PICK k \in DOMAIN bucket : FirstPart(k) = s /\ x = bucket[k]
      BY DEF ListAllServices
    <3>2. QED
      BY <1>2, <1>3, <3>1 DEF Of
  <2>2. ASSUME NEW x \in Of(s) PROVE x \in ListAllServices(s)
    BY <1>2 DEF ListAllServices, Of
  <2>3. QED
    BY <2>1, <2>2
<1>5. ListInstances(s) = Of(s)
  <2>1. ASSUME NEW x \in ListInstances(s) PROVE x \in Of(s)
    <3>1. PICK k \in DOMAIN bucket : IsPrefix(s \o Separator, k) /\ x \in GetInstance(s, LastPart(k))
      BY DEF ListInstances
    <3>2. PICK p \in registered : k = MakeKey(p[1], p[2])
      BY <1>3
    <3>3. p[1] = s /\ x \in {p}
      BY <1>2, <3>1, <3>2
    <3>4. QED
      BY <3>3 DEF Of
  <2>2. ASSUME NEW x \in Of(s) PROVE x \in ListInstances(s)
    <3>1. x \in registered /\ x[1] = s
      BY DEF Of
    <3>2. /\ LastPart(MakeKey(x[1], x[2])) = x[2] /\ MakeKey(x[1], x[2]) \in DOMAIN bucket
          /\ IsPrefix(s \o Separator, MakeKey(x[1], x[2])) /\ GetInstance(s, x[2]) = {x}
      BY <1>2, <3>1
    <3>3. QED
      BY <3>2 DEF ListInstances
  <2>3. QED
    BY <2>1, <2>2
<1>6. QED
  BY <1>4, <1>5

(* Services and instances have no full stop, so a key tells all its names. *)
LEMMA GroupKeysApartHolds ==
  ASSUME LeadersFit, StatesFit PROVE GroupKeysApart
<1>1. ASSUME NEW a \in leaders, NEW b \in leaders, a.key = b.key PROVE a = b
  <2>1. PICK s \in Name, g \in Name :
          NameAccepted(s) /\ a = [key |-> LeaderKey(s, g), group |-> <<Lower(s), g>>]
    BY DEF LeadersFit
  <2>2. PICK t \in Name, h \in Name :
          NameAccepted(t) /\ b = [key |-> LeaderKey(t, h), group |-> <<Lower(t), h>>]
    BY DEF LeadersFit
  <2>3. /\ s \in Seq(Char) /\ g \in Seq(Char) /\ t \in Seq(Char) /\ h \in Seq(Char)
        /\ ~Has(s, Period) /\ ~Has(t, Period)
    BY <2>1, <2>2, NameIs DEF NameAccepted
  <2>4. /\ Lower(s) \in Seq(Char) /\ ~Has(Lower(s), Period)
        /\ Lower(t) \in Seq(Char) /\ ~Has(Lower(t), Period)
    BY <2>3, LowerIs
  <2>5. LeaderKey(s, g) = LeaderKey(t, h)
    BY <1>1, <2>1, <2>2
  <2>6. DottedOf(LeaderKey(s, g), Lower(s), g) /\ DottedOf(LeaderKey(s, g), Lower(t), h)
    BY <2>3, <2>4, <2>5, DottedIs DEF LeaderKey
  <2>7. Lower(s) = Lower(t) /\ g = h
    BY <2>3, <2>4, <2>6, CutAtDot
  <2>8. QED
    BY <2>1, <2>2, <2>5, <2>7
<1>2. ASSUME NEW a \in states, NEW b \in states, a.key = b.key PROVE a = b
  <2>1. PICK s \in Name, i \in Name, g \in Name :
          NameAccepted(s) /\ InstanceAccepted(i)
            /\ a = [key |-> StateKey(s, i, g), of |-> <<Lower(s), i, g>>]
    BY DEF StatesFit
  <2>2. PICK t \in Name, j \in Name, h \in Name :
          NameAccepted(t) /\ InstanceAccepted(j)
            /\ b = [key |-> StateKey(t, j, h), of |-> <<Lower(t), j, h>>]
    BY DEF StatesFit
  <2>3. /\ s \in Seq(Char) /\ i \in Seq(Char) /\ g \in Seq(Char)
        /\ t \in Seq(Char) /\ j \in Seq(Char) /\ h \in Seq(Char)
        /\ ~Has(s, Period) /\ ~Has(t, Period) /\ ~Has(i, Period) /\ ~Has(j, Period)
    BY <2>1, <2>2, NameIs DEF NameAccepted, InstanceAccepted
  <2>4. ~Has(Lower(s), Period) /\ ~Has(Lower(t), Period)
    BY <2>3, LowerIs
  <2>5. StateKey(s, i, g) = StateKey(t, j, h)
    BY <1>2, <2>1, <2>2
  <2> DEFINE r == (i \o Dot) \o g
             q == (j \o Dot) \o h
  <2>6. /\ Lower(s) \in Seq(Char) /\ r \in Seq(Char) /\ DottedOf(r, i, g)
        /\ DottedOf(StateKey(s, i, g), Lower(s), r)
    BY <2>3, StateKeyIs
  <2>7. /\ Lower(t) \in Seq(Char) /\ q \in Seq(Char) /\ DottedOf(q, j, h)
        /\ DottedOf(StateKey(s, i, g), Lower(t), q)
    BY <2>3, <2>5, StateKeyIs
  <2> HIDE DEF r, q
  <2>8. Lower(s) = Lower(t) /\ r = q
    BY <2>4, <2>6, <2>7, CutAtDot
  <2>9. i = j /\ g = h
    BY <2>3, <2>6, <2>7, <2>8, CutAtDot
  <2>10. QED
    BY <2>1, <2>2, <2>5, <2>8, <2>9
<1>3. QED
  BY <1>1, <1>2 DEF GroupKeysApart

(* A text of one character.                                                *)
LEMMA OneSeq ==
  ASSUME NEW S, NEW c \in S
  PROVE  <<c>> \in Seq(S) /\ DOMAIN <<c>> = {1} /\ <<c>>[1] = c
OBVIOUS

(* A subject is joined of its tokens, and the first has no full stop.      *)
LEMMA SubjectIs ==
  ASSUME NEW w \in Wanted
  PROVE  /\ FirstToken(w) \in Seq(Char) /\ ~Has(FirstToken(w), Period)
         /\ SecondToken(w) \in Seq(Char) /\ w.what \in Seq(Char)
         /\ (SecondToken(w) \o Dot) \o w.what \in Seq(Char)
         /\ DottedOf((SecondToken(w) \o Dot) \o w.what, SecondToken(w), w.what)
         /\ DottedOf(Subject(w), FirstToken(w), (SecondToken(w) \o Dot) \o w.what)
<1>1. w.kind \in Kind /\ w.of \in Name /\ w.what \in Name
  BY DEF Wanted
<1>2. FirstToken(w) \in Seq(Char) /\ ~Has(FirstToken(w), Period)
  <2>1. PICK c \in {"rpc", "events", "commands", "service"} : FirstToken(w) = <<c>>
    BY <1>1 DEF FirstToken, Kind, AboutCommand
  <2>2. c \in Char /\ c # "period"
    BY DEF Char
  <2>3. <<c>> \in Seq(Char) /\ DOMAIN <<c>> = {1} /\ <<c>>[1] = c
    BY <2>2, OneSeq
  <2>4. QED
    BY <2>1, <2>2, <2>3 DEF Has, Period
<1>3. SecondToken(w) \in Seq(Char)
  <2>1. Reserved \in Seq(Char) /\ w.of \in Seq(Char)
    BY <1>1, NamesAssumption, NameIs
  <2>2. Callback \in Seq(Char) /\ Cancel \in Seq(Char)
    <3>1. \A c \in Char : <<c>> \in Seq(Char)
      BY OneSeq
    <3>2. "callback" \in Char /\ "cancel" \in Char
      BY DEF Char
    <3>3. QED
      BY <3>1, <3>2 DEF Callback, Cancel
  <2>3. QED
    BY <2>1, <2>2 DEF SecondToken
<1>4. w.what \in Seq(Char)
  BY <1>1, NameIs
<1>5. QED
  BY <1>2, <1>3, <1>4, DottedIs DEF Subject

(* A subject tells its kind and its names, but for full stops in the       *)
(* second token and the tokens of the command subjects.                    *)
LEMMA NoCrosstalkHolds ==
  ASSUME SubscriptionsFit PROVE NoCrosstalk
<1> SUFFICES ASSUME NEW v \in subscribed, NEW w \in subscribed, Subject(v) = Subject(w),
                    ~Has(SecondToken(v), Period), ~Has(SecondToken(w), Period),
                    v.kind = w.kind \/ {Reserved, Callback, Cancel} \cap {v.of, w.of} = {}
             PROVE  v = w
  BY DEF NoCrosstalk
<1>1. /\ v \in Wanted /\ w \in Wanted /\ v.kind \in Kind /\ w.kind \in Kind
      /\ v = [kind |-> v.kind, of |-> v.of, what |-> v.what]
      /\ w = [kind |-> w.kind, of |-> w.of, what |-> w.what]
      /\ WantedAccepted(v) /\ WantedAccepted(w)
  BY DEF SubscriptionsFit, Wanted
<1> DEFINE r == (SecondToken(v) \o Dot) \o v.what
           q == (SecondToken(w) \o Dot) \o w.what
<1>2. /\ FirstToken(v) \in Seq(Char) /\ ~Has(FirstToken(v), Period) /\ r \in Seq(Char)
      /\ SecondToken(v) \in Seq(Char) /\ v.what \in Seq(Char)
      /\ DottedOf(r, SecondToken(v), v.what) /\ DottedOf(Subject(v), FirstToken(v), r)
  BY <1>1, SubjectIs
<1>3. /\ FirstToken(w) \in Seq(Char) /\ ~Has(FirstToken(w), Period) /\ q \in Seq(Char)
      /\ SecondToken(w) \in Seq(Char) /\ w.what \in Seq(Char)
      /\ DottedOf(q, SecondToken(w), w.what) /\ DottedOf(Subject(v), FirstToken(w), q)
  BY <1>1, SubjectIs
<1> HIDE DEF r, q
<1>4. FirstToken(v) = FirstToken(w) /\ r = q
  BY <1>2, <1>3, CutAtDot
<1>5. SecondToken(v) = SecondToken(w) /\ v.what = w.what
  BY <1>2, <1>3, <1>4, CutAtDot
<1>6. Reserved # Callback /\ Reserved # Cancel /\ Callback # Cancel
  BY NamesAssumption DEF Callback, Cancel
<1>7. CASE v.kind \notin AboutCommand /\ w.kind \notin AboutCommand
  <2>1. v.kind = w.kind
    BY <1>4, <1>7 DEF FirstToken
  <2>2. v.of = w.of
    BY <1>5, <1>7 DEF SecondToken, AboutCommand
  <2>3. QED
    BY <1>1, <1>5, <2>1, <2>2
<1>8. CASE v.kind \in AboutCommand /\ w.kind \in AboutCommand
  <2>1. v.kind = w.kind
    BY <1>5, <1>6, <1>8 DEF SecondToken, AboutCommand
  <2>2. v.of = w.of
    BY <1>1, <1>5, <1>8 DEF WantedAccepted
  <2>3. QED
    BY <1>1, <1>5, <2>1, <2>2
<1>9. ASSUME NEW y \in {v, w}, NEW z \in {v, w}, y.kind \in AboutCommand,
             z.kind \notin AboutCommand, SecondToken(y) = SecondToken(z)
      PROVE  FALSE
  <2>1. z.of \in {Reserved, Callback, Cancel}
    BY <1>9 DEF SecondToken, AboutCommand
  <2>2. v.kind # w.kind
    BY <1>9
  <2>3. QED
    BY <1>9, <2>1, <2>2
<1>10. QED
  BY <1>5, <1>7, <1>8, <1>9

(* NamesSound, for every set of names and any number of entries.           *)
THEOREM NamesKeepApart == NamesSpec => []NamesSound
<1>1. NamesInit => NamesInv
  BY DEF NamesInit, NamesInv, Registrations, LeadersFit, StatesFit, SubscriptionsFit
<1>2. NamesSpec => []NamesInv
  BY <1>1, NamesStep, PTL DEF NamesSpec
<1>3. ASSUME NamesInv PROVE NamesSound
  <2>1. NamesTypeOK
    BY <1>3 DEF NamesInv, Registrations, NamesTypeOK
  <2>2. QED
    BY <1>3, <2>1, PlainListedHolds, ListingsAgreeHolds, GroupKeysApartHolds, NoCrosstalkHolds
       DEF NamesInv, NamesSound
<1>4. QED
  BY <1>2, <1>3, PTL

-----------------------------------------------------------------------------
(* ValueTypes                                                              *)

Version == [major : Nat, minor : Nat, patch : Nat]

(* What was written of a version, in full or short, is read again.         *)
LEMMA VersionRead ==
  ASSUME NEW v \in Version, NEW s \in ShortForms(v)
  PROVE  FromString(s) = v
<1>1. v = VersionOf(v.major, v.minor, v.patch)
  BY DEF Version, VersionOf
<1>2. CASE s = <<v.major, v.minor, v.patch>>
  BY <1>1, <1>2 DEF FromString, VersionOf
<1>3. CASE v.patch = 0 /\ s = <<v.major, v.minor>>
  BY <1>1, <1>3 DEF FromString, VersionOf
<1>4. CASE v.patch = 0 /\ v.minor = 0 /\ s = <<v.major>>
  BY <1>1, <1>4 DEF FromString, VersionOf
<1>5. QED
  BY <1>2, <1>3, <1>4 DEF ShortForms, Written

(* A duration is a multiple of each of its units, and a rest.              *)
LEMMA SpanConverted ==
  ASSUME NEW d \in Nat
  PROVE  /\ FromMilliseconds(ToMilliseconds(d)) = d
         /\ FromTimedelta(ToTimedelta(d)) = d
         /\ \A n \in {1, 2, 4} : Quotient(Product(d, n), n) = d
<1>1. FromMilliseconds(ToMilliseconds(d)) = d
  BY DEF FromMilliseconds, ToMilliseconds
<1>2. FromTimedelta(ToTimedelta(d)) = d
  <2> DEFINE q == d \div 172800
             r == d % 172800
             h == r \div 2
             o == r % 2
  <2>1. q \in Nat /\ r \in Nat /\ d = q * 172800 + r
    OBVIOUS
  <2>2. h \in Nat /\ o \in {0, 1} /\ r = h * 2 + o
    BY <2>1
  <2>3. o = d % 2
    BY <2>1, <2>2
  <2>4. (o * 500000) \div 500000 = o
    BY <2>2
  <2>5. FromTimedelta(ToTimedelta(d)) = ((q * 172800) + (h * 2)) + (o * 500000) \div 500000
    BY <2>3 DEF FromTimedelta, ToTimedelta
  <2>6. QED
    BY <2>1, <2>2, <2>4, <2>5
<1>3. \A n \in {1, 2, 4} : Quotient(Product(d, n), n) = d
  BY DEF Quotient, Product
<1>4. QED
  BY <1>1, <1>2, <1>3

(* The type invariant, and how far a value is from where it began.         *)
VersionFits ==
  /\ {version, origin} \subseteq Version
  /\ bumps \in 0 .. MaxBumps /\ broke \in BOOLEAN
  /\ bumps = 0 => version = origin
  /\ bumps > 0 => Less(origin, version)
  /\ IF broke THEN origin.major < version.major ELSE origin.major = version.major
TimeFits ==
  /\ {stamp, first} \subseteq [wall : Int, offset : Int]
  /\ elapsed \in Nat /\ steps \in 0 .. MaxSteps
  /\ ToUnix(stamp) = ToUnix(first) + elapsed
TypesInv == VersionFits /\ TimeFits

(* The invariant at the beginning.                                         *)
LEMMA TypesBegin ==
  ASSUME TypesInit PROVE TypesInv
<1>1. VersionFits
  <2>1. version \in Version
    BY DEF TypesInit, Version, VersionOf
  <2>2. 0 \in 0 .. MaxBumps
    BY ValueTypesAssumption
  <2>3. origin = version /\ bumps = 0 /\ broke = FALSE
    BY DEF TypesInit
  <2>4. bumps \in 0 .. MaxBumps /\ ~(bumps > 0)
    BY <2>2, <2>3
  <2>5. QED
    BY <2>1, <2>3, <2>4, Zenon DEF VersionFits
<1>2. TimeFits
  <2>1. PICK o \in Offsets : stamp = [wall |-> 7200, offset |-> o]
    BY DEF TypesInit, Stamp
  <2>2. o \in Int /\ 0 \in 0 .. MaxSteps
    BY ValueTypesAssumption
  <2>3. QED
    BY <2>1, <2>2 DEF TypesInit, TimeFits, ToUnix
<1>3. QED
  BY <1>1, <1>2 DEF TypesInv

(* Every step of the version leads upwards, and keeps it in order.         *)
LEMMA VersionStep ==
  ASSUME VersionFits, VersionNext
  PROVE  /\ VersionFits' /\ UNCHANGED timeVars
         /\ version' # version => Less(version, version') /\ bumps' > bumps
<1>1. CASE ReadVersion
  <2>1. version' = version
    BY <1>1, VersionRead DEF ReadVersion, VersionFits
  <2>2. QED
    BY <1>1, <2>1 DEF ReadVersion, VersionFits, Less
<1>2. CASE Bump
  <2>1. PICK how \in {"major", "minor", "patch"} :
          version' = Bumped(how) /\ broke' = (broke \/ how = "major")
    BY <1>2 DEF Bump
  <2>2. /\ version' \in Version /\ Less(version, version')
        /\ how = "major" => version'.major = version.major + 1
        /\ how # "major" => version'.major = version.major
    <3>1. CASE how = "major"
      BY <2>1, <3>1 DEF Bumped, VersionOf, Less, Version, VersionFits
    <3>2. CASE how = "minor"
      BY <2>1, <3>2 DEF Bumped, VersionOf, Less, Version, VersionFits
    <3>3. CASE how = "patch"
      BY <2>1, <3>3 DEF Bumped, VersionOf, Less, Version, VersionFits
    <3>4. QED
      BY <3>1, <3>2, <3>3
  <2>3. /\ origin' = origin /\ bumps' = bumps + 1 /\ bumps < MaxBumps
        /\ bumps \in Nat /\ MaxBumps \in Nat /\ UNCHANGED timeVars
    BY <1>2, ValueTypesAssumption DEF Bump, VersionFits
  <2>4. Less(origin, version')
    <3>1. version = origin \/ Less(origin, version)
      BY <2>3 DEF VersionFits
    <3>2. QED
      BY <2>2, <3>1 DEF Less, Version, VersionFits
  <2>5. broke' \in BOOLEAN
        /\ IF broke' THEN origin.major < version'.major ELSE origin.major = version'.major
    <3>1. /\ origin.major \in Nat /\ version.major \in Nat /\ version'.major \in Nat
          /\ broke \in BOOLEAN
      BY <2>2 DEF VersionFits, Version
    <3>2. CASE how = "major"
      <4>1. broke' = TRUE
        BY <2>1, <3>1, <3>2
      <4>2. origin.major <= version.major
        BY <3>1 DEF VersionFits
      <4>3. QED
        BY <2>2, <3>1, <3>2, <4>1, <4>2
    <3>3. CASE how # "major"
      <4>1. broke' = broke /\ version'.major = version.major
        BY <2>1, <2>2, <3>1, <3>3
      <4>2. QED
        BY <3>1, <4>1 DEF VersionFits
    <3>4. QED
      BY <3>2, <3>3
  <2>6. QED
    BY <2>2, <2>3, <2>4, <2>5 DEF VersionFits
<1>3. QED
  BY <1>1, <1>2 DEF VersionNext

(* Every step of the time keeps the instant beside the duration.           *)
LEMMA TimeStep ==
  ASSUME TimeFits, TimeNext
  PROVE  TimeFits' /\ UNCHANGED versionVars
<1> USE DEF TimeFits, ToUnix, Move
<1>1. CASE AddSpan
  BY <1>1, ValueTypesAssumption DEF AddSpan
<1>2. CASE SubtractSpan
  BY <1>2, ValueTypesAssumption DEF SubtractSpan
<1>3. CASE Convert
  BY <1>3 DEF Convert, ToUtc, FromIso, IsoText, FromUnix, Stamp
<1>4. CASE ConvertSpan
  <2>1. elapsed' = elapsed
    BY <1>4, SpanConverted DEF ConvertSpan
  <2>2. QED
    BY <1>4, <2>1 DEF ConvertSpan
<1>5. QED
  BY <1>1, <1>2, <1>3, <1>4 DEF TimeNext

-----------------------------------------------------------------------------
(* The text of a duration                                                  *)

AddStep(s) == [p \in (1 .. Len(s)) \X Nat |-> p[2] + s[p[1]]]

(* What the sum of a sequence of numbers is: the last of its partial sums. *)
LEMMA SumSolved ==
  ASSUME NEW s \in Seq(Nat)
  PROVE  \E g \in [0 .. Len(s) -> Nat] : Solves(g, Len(s), 0, AddStep(s)) /\ Sum(s) = g[Len(s)]
<1> DEFINE f[n \in 0 .. Len(s)] == IF n = 0 THEN 0 ELSE f[n - 1] + s[n]
<1>1. Len(s) \in Nat /\ \A i \in 1 .. Len(s) : s[i] \in Nat
  BY LenProperties, ElementOfSeq
<1>2. AddStep(s) \in [(1 .. Len(s)) \X Nat -> Nat]
      /\ \A k \in 1 .. Len(s), v \in Nat : AddStep(s)[<<k, v>>] = v + s[k]
  BY <1>1, SMTT(60) DEF AddStep
<1>3. PICK g \in [0 .. Len(s) -> Nat] : Solves(g, Len(s), 0, AddStep(s))
  BY <1>1, <1>2, RecursionSolved
<1>4. g = [n \in 0 .. Len(s) |-> IF n = 0 THEN 0 ELSE g[n - 1] + s[n]]
  <2>1. \A n \in 0 .. Len(s) : n = 0 \/ (n \in 1 .. Len(s) /\ n # 0 /\ n - 1 \in 0 .. Len(s))
    BY <1>1
  <2>2. \A n \in 0 .. Len(s) : g[n] = IF n = 0 THEN 0 ELSE g[n - 1] + s[n]
    BY <1>2, <1>3, <2>1 DEF Solves
  <2>3. QED
    BY <1>3, <2>2
<1>5. f = [n \in 0 .. Len(s) |-> IF n = 0 THEN 0 ELSE f[n - 1] + s[n]]
  BY <1>4, Zenon
<1>6. Sum(s) = f[Len(s)]
  BY DEF Sum
<1> HIDE DEF f
<1>7. f \in [0 .. Len(s) -> Nat] /\ Solves(f, Len(s), 0, AddStep(s))
  <2>1. 0 \in 0 .. Len(s)
        /\ \A n \in 1 .. Len(s) : n \in 0 .. Len(s) /\ n # 0 /\ n - 1 \in 0 .. Len(s)
    BY <1>1
  <2>2. \A n \in 0 .. Len(s) : f[n] = IF n = 0 THEN 0 ELSE f[n - 1] + s[n]
    BY <1>5
  <2>3. f[0] = 0 /\ \A n \in 1 .. Len(s) : f[n] = f[n - 1] + s[n]
    BY <2>1, <2>2
  <2> DEFINE typed == {n \in Nat : n <= Len(s) => f[n] \in Nat}
  <2>4. 0 \in typed
    BY <2>3
  <2>5. ASSUME NEW n \in Nat, n \in typed PROVE n + 1 \in typed
    <3> SUFFICES ASSUME n + 1 <= Len(s) PROVE f[n + 1] \in Nat
      OBVIOUS
    <3>1. n + 1 \in 1 .. Len(s) /\ (n + 1) - 1 = n /\ n <= Len(s)
      BY <1>1
    <3>2. f[n] \in Nat /\ f[n + 1] = f[n] + s[n + 1] /\ s[n + 1] \in Nat
      BY <1>1, <2>3, <2>5, <3>1
    <3>3. QED
      BY <3>2
  <2> HIDE DEF typed
  <2>6. Nat \subseteq typed
    BY <2>4, <2>5, InductiveSet
  <2>7. \A n \in 0 .. Len(s) : f[n] \in Nat
    BY <2>6 DEF typed
  <2>8. f \in [0 .. Len(s) -> Nat]
    BY <1>5, <2>7
  <2>9. Solves(f, Len(s), 0, AddStep(s))
    BY <1>2, <2>1, <2>3, <2>7 DEF Solves
  <2>10. QED
    BY <2>8, <2>9
<1>8. QED
  BY <1>6, <1>7

(* One number more, and none.                                              *)
LEMMA SumAppended ==
  ASSUME NEW s \in Seq(Nat), NEW v \in Nat
  PROVE  Sum(Append(s, v)) = Sum(s) + v
<1> DEFINE r == Append(s, v)
           m == Len(s)
<1>1. /\ r \in Seq(Nat) /\ Len(r) = m + 1 /\ m \in Nat
      /\ r[m + 1] = v /\ \A k \in 1 .. m : r[k] = s[k]
  BY AppendProperties, LenProperties
<1>2. PICK f \in [0 .. m -> Nat] : Solves(f, m, 0, AddStep(s)) /\ Sum(s) = f[m]
  BY SumSolved
<1> HIDE DEF r
<1>3. PICK g \in [0 .. Len(r) -> Nat] : Solves(g, Len(r), 0, AddStep(r)) /\ Sum(r) = g[Len(r)]
  BY <1>1, SumSolved
<1> HIDE DEF m
<1>4. Solves(g, m, 0, AddStep(r))
  <2>1. \A k \in 1 .. m : k \in 1 .. m + 1
    BY <1>1
  <2>2. QED
    BY <1>1, <1>3, <2>1 DEF Solves
<1>5. SameSteps(AddStep(s), AddStep(r), f, m)
  <2> SUFFICES ASSUME NEW k \in 1 .. m
               PROVE  AddStep(s)[<<k, f[k - 1]>>] = AddStep(r)[<<k, f[k - 1]>>]
    BY DEF SameSteps
  <2>1. k - 1 \in 0 .. m /\ k \in 1 .. Len(r) /\ k \in 1 .. Len(s)
    BY <1>1 DEF m
  <2>2. f[k - 1] \in Nat
    BY <1>2, <2>1
  <2>3. QED
    BY <1>1, <2>1, <2>2 DEF AddStep
<1>6. f[m] = g[m]
  <2>1. m \in 0 .. m
    BY <1>1
  <2>2. m \in Nat /\ Solves(f, m, 0, AddStep(s)) /\ Solves(g, m, 0, AddStep(r))
    BY <1>1, <1>2, <1>4
  <2>3. \A k \in 0 .. m : f[k] = g[k]
    BY <1>5, <2>2, RecursionUnique
  <2>4. QED
    BY <2>1, <2>3
<1>7. g[m + 1] = g[m] + v
  <2>1. m + 1 \in 1 .. Len(r) /\ (m + 1) - 1 = m /\ m \in 0 .. Len(r)
    BY <1>1
  <2>2. g[m + 1] = AddStep(r)[<<m + 1, g[m]>>] /\ g[m] \in Nat
    BY <1>3, <2>1 DEF Solves
  <2>3. AddStep(r)[<<m + 1, g[m]>>] = g[m] + r[m + 1]
    BY <2>1, <2>2 DEF AddStep
  <2>4. QED
    BY <1>1, <2>2, <2>3
<1>8. QED
  BY <1>1, <1>2, <1>3, <1>6, <1>7 DEF r

(* Nothing adds up to nothing.                                             *)
LEMMA SumOfNothing == Sum(<<>>) = 0
<1>1. <<>> \in Seq(Nat) /\ Len(<<>>) = 0
  OBVIOUS
<1>2. PICK g \in [0 .. 0 -> Nat] : Solves(g, 0, 0, AddStep(<<>>)) /\ Sum(<<>>) = g[0]
  BY <1>1, SumSolved
<1>3. QED
  BY <1>2 DEF Solves

(* A part adds its amount, whether it is written or not.                   *)
LEMMA SumAmount ==
  ASSUME NEW s \in Seq(Nat), NEW n \in Nat
  PROVE  s \o Amount(n) \in Seq(Nat) /\ Sum(s \o Amount(n)) = Sum(s) + n
<1>1. CASE n > 0
  <2>1. s \o <<n>> = Append(s, n) /\ Append(s, n) \in Seq(Nat)
    BY AppendIsConcat, AppendProperties
  <2>2. QED
    BY <1>1, <2>1, SumAppended DEF Amount
<1>2. CASE n = 0
  <2>1. s \o <<>> = s
    BY ConcatEmptySeq
  <2>2. Sum(s) \in Nat
    <3>1. Len(s) \in Nat /\ Len(s) \in 0 .. Len(s)
      BY LenProperties
    <3>2. QED
      BY <3>1, SumSolved
  <2>3. QED
    BY <1>2, <2>1, <2>2 DEF Amount
<1>3. QED
  BY <1>1, <1>2

(* The parts in days, hours and minutes are what is not in the seconds.    *)
LEMMA LargeAddsUp ==
  ASSUME NEW d \in Nat
  PROVE  Large(d) \in Seq(Nat) /\ Sum(Large(d)) = d - (d % Minute) /\ d % Minute \in Nat /\ d % Minute <= d
<1>1. Minute = 120 /\ Hour = 7200 /\ Day = 172800
  BY DEF Minute, Hour, Day, HalfSeconds
<1>2. PICK dd \in Nat : dd = (d \div Day) * Day
  BY <1>1
<1>3. PICK hh \in Nat : hh = ((d % Day) \div Hour) * Hour
  BY <1>1
<1>4. PICK mm \in Nat : mm = ((d % Hour) \div Minute) * Minute
  BY <1>1
<1>5. dd = d - (d % 172800) /\ hh = (d % 172800) - (d % 7200) /\ mm = (d % 7200) - (d % 120)
  <2>1. dd = d - (d % 172800)
    BY <1>1, <1>2
  <2>2. hh = (d % 172800) - ((d % 172800) % 7200) /\ (d % 172800) % 7200 = d % 7200
    BY <1>1, <1>3
  <2>3. mm = (d % 7200) - ((d % 7200) % 120) /\ (d % 7200) % 120 = d % 120
    BY <1>1, <1>4
  <2>4. QED
    BY <2>1, <2>2, <2>3
<1>6. Large(d) = (Amount(dd) \o Amount(hh)) \o Amount(mm)
  BY <1>2, <1>3, <1>4 DEF Large
<1>7. Amount(dd) \in Seq(Nat) /\ Sum(Amount(dd)) = dd
  <2>1. <<>> \in Seq(Nat) /\ <<>> \o Amount(dd) = Amount(dd)
    BY DEF Amount
  <2>2. Sum(<<>> \o Amount(dd)) = Sum(<<>>) + dd /\ <<>> \o Amount(dd) \in Seq(Nat)
    BY <2>1, SumAmount
  <2>3. Sum(<<>>) + dd = dd
    BY SumOfNothing
  <2>4. QED
    BY <2>1, <2>2, <2>3
<1>8. Amount(dd) \o Amount(hh) \in Seq(Nat) /\ Sum(Amount(dd) \o Amount(hh)) = dd + hh
  BY <1>7, SumAmount
<1>9. /\ (Amount(dd) \o Amount(hh)) \o Amount(mm) \in Seq(Nat)
      /\ Sum((Amount(dd) \o Amount(hh)) \o Amount(mm)) = dd + hh + mm
  BY <1>8, SumAmount
<1>10. d % 120 \in Nat /\ d % 120 <= d /\ d % 172800 \in Nat /\ d % 7200 \in Nat
  OBVIOUS
<1>11. QED
  BY <1>1, <1>5, <1>6, <1>9, <1>10

(* The text adds up.                                                       *)
LEMMA TextIsRight ==
  ASSUME NEW d \in Nat, Whole(d) \/ d < Minute
  PROVE  Sum(TextOf(d)) = d
<1>1. Minute = 120 /\ HalfSeconds = 2
  BY DEF Minute, HalfSeconds
<1>2. Large(d) \in Seq(Nat) /\ Sum(Large(d)) = d - (d % 120) /\ d % 120 \in Nat /\ d % 120 <= d
  BY <1>1, LargeAddsUp
<1>3. ASSUME NEW v \in Nat
      PROVE  Sum(<<v>>) = v /\ Sum(Large(d) \o <<v>>) = (d - (d % 120)) + v
  <2>1. <<>> \in Seq(Nat) /\ Append(<<>>, v) = <<v>> /\ Append(Large(d), v) = Large(d) \o <<v>>
    BY <1>2, AppendIsConcat
  <2>2. Sum(Append(<<>>, v)) = Sum(<<>>) + v
    BY <2>1, SumAppended
  <2>3. Sum(Append(Large(d), v)) = Sum(Large(d)) + v
    BY <1>2, SumAppended
  <2>4. Sum(<<>>) + v = v
    BY SumOfNothing
  <2>5. QED
    BY <1>2, <2>1, <2>2, <2>3, <2>4
<1>4. CASE d < 2
  BY <1>1, <1>3, <1>4 DEF TextOf
<1>5. CASE d >= 2 /\ Whole(d)
  <2>1. d % 2 = 0 /\ Seconds(d) = d % 120
    BY <1>1, <1>2, <1>5 DEF Whole, Seconds
  <2>2. QED
    BY <1>1, <1>2, <1>3, <1>5, <2>1 DEF TextOf
<1>6. CASE d >= 2 /\ ~Whole(d)
  <2>1. d < 120 /\ d % 120 = d /\ d % 2 = 1
    BY <1>1, <1>6 DEF Whole
  <2>2. Large(d) = << >>
    BY <1>1, <2>1 DEF Large, Amount, Day, Hour
  <2>3. TextOf(d) = << >> \o <<d>> /\ << >> \o <<d>> = <<d>>
    BY <1>1, <1>6, <2>2 DEF TextOf
  <2>4. QED
    BY <1>3, <2>3
<1>7. QED
  BY <1>4, <1>5, <1>6

-----------------------------------------------------------------------------
(* What is asked for follows from the invariant.                           *)
LEMMA ValuesFollow ==
  ASSUME TypesInv
  PROVE  TypesOK /\ CompatibleUntilMajor /\ BumpsAreOrdered /\ InstantKept /\ TextAddsUp
<1>1. TypesOK
  BY DEF TypesInv, TypesOK, VersionFits, TimeFits, Version
<1>2. CompatibleUntilMajor
  BY DEF TypesInv, VersionFits, CompatibleUntilMajor, Compatible, Version
<1>3. BumpsAreOrdered
  <2>1. CASE bumps = 0
    BY <2>1 DEF TypesInv, VersionFits, BumpsAreOrdered, Less, Same, AtMost, Version
  <2>2. CASE bumps > 0
    BY <2>2 DEF TypesInv, VersionFits, BumpsAreOrdered, Less, Same, AtMost, Version
  <2>3. QED
    BY <2>1, <2>2, ValueTypesAssumption DEF TypesInv, VersionFits
<1>4. InstantKept
  <2>1. ToUnix(stamp) \in Int /\ ToUnix(first) \in Int /\ elapsed \in Nat
        /\ ToUnix(stamp) = ToUnix(first) + elapsed
    BY DEF TypesInv, TimeFits, ToUnix
  <2>2. QED
    BY <2>1 DEF InstantKept, Diff, NotAfter, SameInstant, IsBefore, IsZero
<1>5. TextAddsUp
  BY TextIsRight DEF TextAddsUp, TypesInv, TimeFits
<1>6. QED
  BY <1>1, <1>2, <1>3, <1>4, <1>5

(* ValuesSound, for every set of spans and zones and any number of steps.  *)
THEOREM ValuesKeepTheirMeaning == TypesSpec => ValuesSound
<1>1. ASSUME TypesInv, [VersionNext \/ TimeNext]_valueTypeVars
      PROVE  TypesInv' /\ (version' # version => Less(version, version') /\ bumps' > bumps)
  <2>1. CASE VersionNext
    BY <1>1, <2>1, VersionStep DEF TypesInv, TimeFits, timeVars, ToUnix
  <2>2. CASE TimeNext
    BY <1>1, <2>2, TimeStep DEF TypesInv, VersionFits, versionVars, Less
  <2>3. CASE UNCHANGED valueTypeVars
    BY <1>1, <2>3 DEF TypesInv, VersionFits, TimeFits, valueTypeVars, versionVars, timeVars, Less,
       ToUnix
  <2>4. QED
    BY <1>1, <2>1, <2>2, <2>3
<1>2. TypesSpec => []TypesInv
  BY <1>1, TypesBegin, PTL DEF TypesSpec
<1>3. TypesInv /\ [VersionNext \/ TimeNext]_valueTypeVars
        => [version' # version => Less(version, version') /\ bumps' > bumps]_valueTypeVars
  BY <1>1
<1>4. TypesSpec => VersionsAscend
  BY <1>2, <1>3, PTL DEF TypesSpec, VersionsAscend
<1>5. QED
  BY <1>2, <1>4, ValuesFollow, PTL DEF ValuesSound
=============================================================================
