--------------------------- MODULE FailoverProofs ---------------------------
(***************************************************************************)
(* Theorems about Failover, for every group and every number of attempts,  *)
(* starts and troubles: the types, that an instance told to be active      *)
(* holds the leader key, and that the key implements the abstract lock.    *)
(***************************************************************************)
EXTENDS Failover, TLAPS

LEMMA Bounds ==
  /\ NoOne \notin Instance
  /\ MaxAttempts \in Nat /\ MaxAttempts # 0 /\ 1 \in 1 .. MaxAttempts
  /\ MaxFailures \in Nat /\ MaxFailures # 0 /\ 0 \in 0 .. MaxFailures
  /\ MaxStarts \in Nat /\ 0 \in 0 .. MaxStarts
  /\ MaxTroubles \in Nat
BY FailoverAssumption

LEMMA PairIs ==
  /\ \A p \in Pair : Owner(p) \in Instance /\ p[2] \in 1 .. MaxStarts
                     /\ p = <<Owner(p), p[2]>>
  /\ \A i \in Instance, n \in 1 .. MaxStarts :
       <<i, n>> \in Pair /\ Owner(<<i, n>>) = i /\ <<i, n>>[2] = n
BY DEF Pair, Owner

(* Troubles are counted together.                                          *)
Counted == faults + cuts + lapses <= MaxTroubles

(* The use case remembers the pair made last or none, and one while it is  *)
(* busy; only pairs made have elections and monitors, and only an instance *)
(* with a pair can have been told it is active.                            *)
Paired ==
  /\ \A i \in Instance :
       /\ current[i] = 0 \/ current[i] = starts[i]
       /\ main[i] \notin {"down", "idle"} => current[i] # 0
       /\ starts[i] = 0 => ~told[i]
  /\ \A p \in Pair :
       election[p] # "none" \/ monitor[p] # "off" => p[2] <= starts[Owner(p)]

(* A monitor that goes on, or is yet to be made, has a failure left.       *)
Trying ==
  \A p \in Pair : Watching(p) \/ p[2] > starts[Owner(p)] => bad[p] < MaxFailures

(* While the key has not expired: who is about to delete the key found it  *)
(* to be its own, and so did who was told, or is about to be told, that it *)
(* is active.                                                              *)
Deleting == lapses = 0 => \A i \in Instance : main[i] = "delete" => key = i
Leading ==
  lapses = 0 =>
    \A i \in Instance :
      /\ current[i] = 1 /\ ~Releasing(i)
      /\ told[i] \/ election[<<i, 1>>] = "status"
      => key = i

FailoverInv == TypeOK /\ Counted /\ Paired /\ Trying /\ Deleting /\ Leading

LEMMA FailoverInit == Init => FailoverInv
<1> SUFFICES ASSUME Init PROVE FailoverInv
  OBVIOUS
<1>1. TypeOK
  <2>1. faults = 0 /\ cuts = 0 /\ lapses = 0 /\ 0 \in 0 .. MaxTroubles
    BY Bounds DEF Init
  <2>2. QED
    BY <2>1, Bounds DEF Init, TypeOK, MainPlace, MonitorPlace, ElectionPlace
<1>2. Counted
  BY Bounds DEF Init, Counted
<1>3. Paired
  BY DEF Init, Paired
<1>4. Trying
  BY Bounds DEF Init, Trying, Watching
<1>5. Deleting /\ Leading
  BY PairIs DEF Init, Deleting, Leading
<1>6. QED
  BY <1>1, <1>2, <1>3, <1>4, <1>5 DEF FailoverInv

-----------------------------------------------------------------------------
(* What any step of an election does: it moves this election only.        *)
ElectionMoves(p) ==
  /\ election' \in [Pair -> ElectionPlace]
  /\ attempt' \in [Pair -> 1 .. MaxAttempts]
  /\ state' \in [Pair -> {"IDLE", "ELECTING", "ELECTED", "FAILED"}]
  /\ \A q \in Pair \ {p} : election'[q] = election[q]

LEMMA ElectionEndsMoves ==
  ASSUME TypeOK, NEW p \in Pair, ElectionEnds(p),
         state' \in [Pair -> {"IDLE", "ELECTING", "ELECTED", "FAILED"}]
  PROVE  ElectionMoves(p) /\ election'[p] = "none"
BY Bounds DEF ElectionEnds, ElectionMoves, TypeOK, ElectionPlace

LEMMA ElectionGoesOnMoves ==
  ASSUME TypeOK, NEW p \in Pair, NEW place \in ElectionPlace, ElectionGoesOn(p, place),
         attempt' \in [Pair -> 1 .. MaxAttempts],
         state' \in [Pair -> {"IDLE", "ELECTING", "ELECTED", "FAILED"}]
  PROVE  ElectionMoves(p) /\ election'[p] = place
BY DEF ElectionGoesOn, ElectionMoves, TypeOK

LEMMA AttemptLostMoves ==
  ASSUME TypeOK, NEW p \in Pair, AttemptLost(p)
  PROVE  ElectionMoves(p) /\ election'[p] \in {"get", "none"}
<1>1. CASE attempt[p] < MaxAttempts /\ attempt' = [attempt EXCEPT ![p] = @ + 1]
           /\ ElectionGoesOn(p, "get") /\ UNCHANGED state
  <2>1. attempt[p] + 1 \in 1 .. MaxAttempts
    BY <1>1, Bounds DEF TypeOK
  <2>2. attempt' \in [Pair -> 1 .. MaxAttempts]
    BY <1>1, <2>1 DEF TypeOK
  <2>3. QED
    BY <1>1, <2>2, ElectionGoesOnMoves DEF TypeOK, ElectionPlace
<1>2. CASE state' = [state EXCEPT ![p] = "FAILED"] /\ ElectionEnds(p)
  <2>1. state' \in [Pair -> {"IDLE", "ELECTING", "ELECTED", "FAILED"}]
    BY <1>2 DEF TypeOK
  <2>2. QED
    BY <1>2, <2>1, ElectionEndsMoves
<1>3. QED
  BY <1>1, <1>2 DEF AttemptLost

LEMMA AttemptWonMoves ==
  ASSUME TypeOK, NEW p \in Pair, AttemptWon(p)
  PROVE  ElectionMoves(p) /\ election'[p] = "status"
<1>1. state' \in [Pair -> {"IDLE", "ELECTING", "ELECTED", "FAILED"}]
      /\ attempt' \in [Pair -> 1 .. MaxAttempts]
      /\ ElectionGoesOn(p, "status") /\ "status" \in ElectionPlace
  BY DEF AttemptWon, TypeOK, ElectionPlace
<1>2. QED
  BY <1>1, ElectionGoesOnMoves

LEMMA StartElectionMoves ==
  ASSUME TypeOK, NEW p \in Pair, StartElection(p)
  PROVE  /\ election[p] = "none" /\ election' = [election EXCEPT ![p] = "get"]
         /\ election' \in [Pair -> ElectionPlace]
         /\ attempt' \in [Pair -> 1 .. MaxAttempts]
         /\ state' \in [Pair -> {"IDLE", "ELECTING", "ELECTED", "FAILED"}]
BY Bounds DEF StartElection, TypeOK, ElectionPlace

LEMMA TroubleCounted ==
  ASSUME TypeOK, Counted,
         \/ UNCHANGED <<faults, cuts, lapses>>
         \/ Fault /\ UNCHANGED <<cuts, lapses>>
         \/ Cut /\ UNCHANGED <<faults, lapses>>
         \/ ~Settled /\ lapses' = lapses + 1 /\ UNCHANGED <<faults, cuts>>
  PROVE  {faults, cuts, lapses}' \subseteq 0 .. MaxTroubles /\ Counted'
<1>1. faults \in 0 .. MaxTroubles /\ cuts \in 0 .. MaxTroubles /\ lapses \in 0 .. MaxTroubles
  BY DEF TypeOK
<1>2. faults' \in 0 .. MaxTroubles /\ cuts' \in 0 .. MaxTroubles
      /\ lapses' \in 0 .. MaxTroubles /\ Counted'
  BY <1>1, Bounds DEF Counted, Fault, Cut, Settled
<1>3. QED
  BY <1>2

-----------------------------------------------------------------------------
(* The key, when the rest of the step is known: it stays, its owner takes  *)
(* it while it is free, or it expires.                                     *)
KeyMoves(p) == key' = key \/ (key = NoOne /\ key' = Owner(p))

(* A step of an election, cut off or not.                                  *)
LEMMA ElectionKeeps ==
  ASSUME FailoverInv, NEW p \in Pair, ElectionMoves(p), KeyMoves(p),
         election[p] # "none", UNCHANGED <<useVars, monVars, lapses>>,
         \/ UNCHANGED <<faults, cuts>>
         \/ Fault /\ UNCHANGED cuts
         \/ Cut /\ UNCHANGED faults,
         \/ UNCHANGED told
         \/ election[p] = "status" /\ told' = [told EXCEPT ![Owner(p)] = TRUE],
         election'[p] = "status" => key' = Owner(p)
  PROVE  FailoverInv'
<1>1. /\ TypeOK /\ Counted /\ Paired /\ Trying /\ Deleting /\ Leading
      /\ UNCHANGED <<main, current, starts, monitor, bad, lapses>>
  BY DEF FailoverInv, useVars, monVars
<1>2. Owner(p) \in Instance /\ p[2] \in 1 .. MaxStarts /\ p = <<Owner(p), p[2]>>
      /\ p[2] <= starts[Owner(p)]
  BY <1>1, PairIs DEF Paired
<1>3. {faults, cuts, lapses}' \subseteq 0 .. MaxTroubles /\ Counted'
  BY <1>1, TroubleCounted
<1>4. key' \in Instance \cup {NoOne} /\ told' \in [Instance -> BOOLEAN]
  BY <1>1, <1>2 DEF TypeOK, KeyMoves
<1>5. TypeOK'
  BY <1>1, <1>3, <1>4 DEF TypeOK, ElectionMoves
<1>6. Paired'
  <2>1. ASSUME NEW i \in Instance
        PROVE  /\ current'[i] = 0 \/ current'[i] = starts'[i]
               /\ main'[i] \notin {"down", "idle"} => current'[i] # 0
               /\ starts'[i] = 0 => ~told'[i]
    <3>1. starts[Owner(p)] # 0
      BY <1>1, <1>2 DEF TypeOK
    <3>2. QED
      BY <1>1, <1>2, <3>1 DEF Paired, TypeOK
  <2>2. ASSUME NEW q \in Pair, election'[q] # "none" \/ monitor'[q] # "off"
        PROVE  q[2] <= starts'[Owner(q)]
    BY <1>1, <1>2, <2>2 DEF Paired, ElectionMoves
  <2>3. QED
    BY <2>1, <2>2 DEF Paired
<1>7. Trying'
  BY <1>1 DEF Trying, Watching
<1>8. Deleting'
  BY <1>1, Bounds DEF Deleting, KeyMoves
<1>9. Leading'
  <2>1. SUFFICES ASSUME lapses = 0, NEW i \in Instance, current[i] = 1, ~Releasing(i),
                        told'[i] \/ election'[<<i, 1>>] = "status"
                 PROVE  key' = i
    BY <1>1 DEF Leading, Releasing
  <2>2. 1 \in 1 .. MaxStarts /\ starts[i] = 1
    <3>1. current[i] \in 0 .. MaxStarts
      BY <1>1 DEF TypeOK
    <3>2. QED
      BY <1>1, <2>1, <3>1, Bounds DEF Paired
  <2>3. CASE told[i] \/ election[<<i, 1>>] = "status"
    BY <1>1, <2>1, <2>3, Bounds DEF Leading, KeyMoves
  <2>4. CASE ~told[i] /\ election[<<i, 1>>] # "status"
    <3>1. CASE Owner(p) = i
      <4>1. p = <<i, 1>>
        BY <1>2, <2>2, <3>1
      <4>2. QED
        BY <1>1, <2>1, <2>4, <3>1, <4>1 DEF TypeOK
    <3>2. CASE Owner(p) # i
      <4>1. <<i, 1>> \in Pair \ {p}
        BY <2>2, <3>2, PairIs
      <4>2. QED
        BY <1>1, <1>2, <2>1, <2>4, <3>2, <4>1 DEF TypeOK, ElectionMoves
    <3>3. QED
      BY <3>1, <3>2
  <2>5. QED
    BY <2>3, <2>4
<1>10. QED
  BY <1>3, <1>5, <1>6, <1>7, <1>8, <1>9 DEF FailoverInv

LEMMA ElectionStays ==
  ASSUME FailoverInv, NEW p \in Pair,
         ElectionStep(p) \/ (ElectionTimesOut(p) /\ UNCHANGED <<useVars, monVars, lapses>>)
  PROVE  FailoverInv'
<1>1. TypeOK /\ UNCHANGED <<useVars, monVars, lapses>>
  BY DEF FailoverInv, ElectionStep
<1>2. CASE LookBeforeCreate(p)
  <2>1. ElectionMoves(p) /\ (election'[p] = "status" => key' = Owner(p))
    <3>1. CASE key = Owner(p) /\ AttemptWon(p)
      BY <1>1, <1>2, <3>1, AttemptWonMoves DEF LookBeforeCreate
    <3>2. CASE AttemptLost(p)
      BY <1>1, <3>2, AttemptLostMoves
    <3>3. CASE key = NoOne /\ ElectionGoesOn(p, "put") /\ UNCHANGED <<attempt, state>>
      BY <1>1, <3>3, ElectionGoesOnMoves DEF TypeOK, ElectionPlace
    <3>4. QED
      BY <1>2, <3>1, <3>2, <3>3 DEF LookBeforeCreate
  <2>2. QED
    BY <1>1, <1>2, <2>1, ElectionKeeps DEF LookBeforeCreate, KeyMoves
<1>3. CASE PutLeaderKey(p)
  <2>1. ElectionMoves(p) /\ (election'[p] = "status" => key' = Owner(p))
    <3>1. CASE CreateKey(p) /\ AttemptWon(p)
      BY <1>1, <3>1, AttemptWonMoves DEF CreateKey
    <3>2. CASE AttemptLost(p)
      BY <1>1, <3>2, AttemptLostMoves
    <3>3. QED
      BY <1>3, <3>1, <3>2 DEF PutLeaderKey
  <2>2. QED
    BY <1>1, <1>3, <2>1, ElectionKeeps DEF PutLeaderKey, CreateKey, KeyMoves
<1>4. CASE TellElected(p)
  <2>1. ElectionMoves(p) /\ election'[p] = "publish"
    BY <1>1, <1>4, ElectionGoesOnMoves DEF TellElected, TypeOK, ElectionPlace
  <2>2. QED
    BY <1>1, <1>4, <2>1, ElectionKeeps DEF TellElected, KeyMoves
<1>5. CASE ElectedPublished(p)
  <2>1. ElectionMoves(p) /\ election'[p] = "none"
    BY <1>1, <1>5, ElectionEndsMoves DEF ElectedPublished, TypeOK
  <2>2. QED
    BY <1>1, <1>5, <2>1, ElectionKeeps DEF ElectedPublished, KeyMoves
<1>6. CASE ElectionTimesOut(p)
  <2>1. state' \in [Pair -> {"IDLE", "ELECTING", "ELECTED", "FAILED"}]
    BY <1>1, <1>6 DEF ElectionTimesOut, TypeOK
  <2>2. ElectionMoves(p) /\ election'[p] = "none"
    BY <1>1, <1>6, <2>1, ElectionEndsMoves DEF ElectionTimesOut
  <2>3. QED
    BY <1>1, <1>6, <2>2, ElectionKeeps
       DEF ElectionTimesOut, CreateKey, KeyMoves
<1>7. QED
  BY <1>2, <1>3, <1>4, <1>5, <1>6 DEF ElectionStep

-----------------------------------------------------------------------------
(* A round of a monitor touches nothing but the monitor.                   *)
LEMMA MonitorStays ==
  ASSUME FailoverInv, NEW p \in Pair, MonitorStep(p)
  PROVE  FailoverInv'
<1>1. /\ TypeOK /\ Counted /\ Paired /\ Trying /\ Deleting /\ Leading
      /\ UNCHANGED <<key, told, main, current, starts, election, attempt, state, cuts, lapses>>
      /\ bad[p] \in Nat /\ monitor[p] \in MonitorPlace
  BY DEF FailoverInv, MonitorStep, useVars, eleVars, TypeOK
<1>2. Watching(p) /\ bad[p] < MaxFailures
  BY <1>1 DEF MonitorStep, LookAtLeader, NextRound, Monitor, Watching, Trying
<1>3. /\ monitor' \in [Pair -> MonitorPlace]
      /\ bad' \in [Pair -> 0 .. MaxFailures]
      /\ \A q \in Pair \ {p} : monitor'[q] = monitor[q] /\ bad'[q] = bad[q]
      /\ Watching(p)' => bad'[p] < MaxFailures
      /\ UNCHANGED faults \/ Fault
  <2>1. CASE RoundFails(p) /\ (UNCHANGED faults \/ Fault)
    <3>1. bad[p] + 1 \in 0 .. MaxFailures
      BY <1>1, <1>2, Bounds
    <3>2. bad' = [bad EXCEPT ![p] = bad[p] + 1]
          /\ \/ bad[p] + 1 >= MaxFailures /\ monitor' = [monitor EXCEPT ![p] = "ended"]
             \/ bad[p] + 1 < MaxFailures /\ monitor' = [monitor EXCEPT ![p] = "rest"]
      <4>1. bad[p] + 1 >= MaxFailures \/ bad[p] + 1 < MaxFailures
        BY <1>1, Bounds
      <4>2. ~(bad[p] + 1 >= MaxFailures /\ bad[p] + 1 < MaxFailures)
        BY <1>1, Bounds
      <4>3. QED
        BY <2>1, <4>1, <4>2 DEF RoundFails
    <3>3. CASE bad[p] + 1 >= MaxFailures
      <4>1. monitor' = [monitor EXCEPT ![p] = "ended"]
        BY <1>1, <3>2, <3>3, Bounds
      <4>2. QED
        BY <1>1, <2>1, <3>1, <3>2, <4>1 DEF TypeOK, MonitorPlace, Watching
    <3>4. CASE bad[p] + 1 < MaxFailures
      <4>1. monitor' = [monitor EXCEPT ![p] = "rest"]
        BY <1>1, <3>2, <3>4, Bounds
      <4>2. bad'[p] < MaxFailures
        BY <1>1, <3>2, <3>4 DEF TypeOK
      <4>3. QED
        BY <1>1, <2>1, <3>1, <3>2, <4>1, <4>2 DEF TypeOK, MonitorPlace
    <3>5. QED
      BY <1>1, <3>3, <3>4, Bounds
  <2>2. CASE Monitor(p, "look", "rest") /\ UNCHANGED <<bad, faults>>
    BY <1>1, <1>2, <2>2 DEF Monitor, TypeOK, MonitorPlace, Watching
  <2>3. CASE NextRound(p)
    BY <1>1, <1>2, <2>3 DEF NextRound, Monitor, TypeOK, MonitorPlace, Watching
  <2>4. QED
    BY <2>1, <2>2, <2>3 DEF MonitorStep, LookAtLeader
<1>4. {faults, cuts, lapses}' \subseteq 0 .. MaxTroubles /\ Counted'
  BY <1>1, <1>3, TroubleCounted
<1>5. TypeOK'
  BY <1>1, <1>3, <1>4 DEF TypeOK
<1>6. Trying'
  <2>1. p[2] <= starts[Owner(p)] /\ p[2] \in Nat /\ starts[Owner(p)] \in Nat
    BY <1>1, <1>2, PairIs, Bounds DEF Paired, Watching, TypeOK
  <2>2. ~(p[2] > starts[Owner(p)])
    BY <2>1
  <2>3. QED
    BY <1>1, <1>3, <2>2 DEF Trying, Watching
<1>7. Paired'
  <2>1. \A i \in Instance :
          /\ current'[i] = 0 \/ current'[i] = starts'[i]
          /\ main'[i] \notin {"down", "idle"} => current'[i] # 0
          /\ starts'[i] = 0 => ~told'[i]
    BY <1>1 DEF Paired
  <2>2. p[2] <= starts[Owner(p)]
    BY <1>1, <1>2 DEF Paired, Watching
  <2>3. ASSUME NEW q \in Pair, election'[q] # "none" \/ monitor'[q] # "off"
        PROVE  q[2] <= starts'[Owner(q)]
    BY <1>1, <1>3, <2>2, <2>3 DEF Paired, TypeOK
  <2>4. QED
    BY <2>1, <2>3 DEF Paired
<1>8. Deleting' /\ Leading'
  BY <1>1 DEF Deleting, Leading, Releasing
<1>9. QED
  BY <1>4, <1>5, <1>6, <1>7, <1>8 DEF FailoverInv

-----------------------------------------------------------------------------
(* The use case starts a pair, holds the first election and one on demand. *)
LEMMA TheIs ==
  ASSUME TypeOK, Paired, NEW i \in Instance, current[i] # 0
  PROVE  /\ The(i) \in Pair /\ Owner(The(i)) = i /\ The(i)[2] = starts[i]
         /\ The(i)[2] = current[i]
<1>1. current[i] \in 1 .. MaxStarts /\ current[i] = starts[i]
  BY Bounds DEF TypeOK, Paired
<1>2. QED
  BY <1>1, PairIs DEF The

LEMMA StartStays ==
  ASSUME FailoverInv, NEW i \in Instance, StartMonitoring(i)
  PROVE  FailoverInv'
<1>1. /\ TypeOK /\ Counted /\ Paired /\ Trying /\ Deleting /\ Leading
      /\ UNCHANGED <<key, told, bad, eleVars, faults, cuts, lapses>>
      /\ starts[i] \in 0 .. MaxStarts /\ starts[i] < MaxStarts
  BY DEF FailoverInv, StartMonitoring, TypeOK
<1>2. /\ starts[i] + 1 \in 1 .. MaxStarts /\ starts[i] + 1 # 0
      /\ <<i, starts[i] + 1>> \in Pair
  BY <1>1, Bounds, PairIs
<1>3. TypeOK'
  BY <1>1, <1>2 DEF StartMonitoring, TypeOK, MainPlace, MonitorPlace, eleVars
<1>4. Paired'
  <2>1. ASSUME NEW j \in Instance
        PROVE  /\ current'[j] = 0 \/ current'[j] = starts'[j]
               /\ main'[j] \notin {"down", "idle"} => current'[j] # 0
               /\ starts'[j] = 0 => ~told'[j]
    BY <1>1, <1>2 DEF StartMonitoring, TypeOK, Paired
  <2>2. ASSUME NEW q \in Pair, election'[q] # "none" \/ monitor'[q] # "off"
        PROVE  q[2] <= starts'[Owner(q)]
    <3>1. CASE q = <<i, starts[i] + 1>>
      <4>1. starts'[i] = starts[i] + 1 /\ Owner(q) = i /\ q[2] = starts[i] + 1
        BY <1>1, <1>2, <3>1, PairIs DEF StartMonitoring, TypeOK
      <4>2. QED
        BY <1>1, <4>1
    <3>2. CASE q # <<i, starts[i] + 1>>
      <4>1. election[q] # "none" \/ monitor[q] # "off"
        BY <1>1, <2>2, <3>2 DEF StartMonitoring, TypeOK, eleVars
      <4>2. q[2] <= starts[Owner(q)] /\ Owner(q) \in Instance /\ q[2] \in 1 .. MaxStarts
        BY <1>1, <4>1, PairIs DEF Paired
      <4>3. starts'[Owner(q)] = starts[Owner(q)] \/ starts'[Owner(q)] = starts[Owner(q)] + 1
        BY <1>1, <4>2 DEF StartMonitoring, TypeOK
      <4>4. QED
        BY <1>1, <4>2, <4>3 DEF TypeOK
    <3>3. QED
      BY <3>1, <3>2
  <2>3. QED
    BY <2>1, <2>2 DEF Paired
<1>5. Trying'
  <2>1. bad' = bad /\ \A q \in Pair : monitor'[q] = monitor[q] \/ q = <<i, starts[i] + 1>>
    BY <1>1, <1>2 DEF StartMonitoring, TypeOK
  <2>2. bad[<<i, starts[i] + 1>>] < MaxFailures
    BY <1>1, <1>2, PairIs DEF Trying
  <2>3. ASSUME NEW q \in Pair, q[2] > starts'[Owner(q)] PROVE q[2] > starts[Owner(q)]
    BY <1>1, <2>3, PairIs DEF StartMonitoring, TypeOK
  <2>4. QED
    BY <1>1, <2>1, <2>2, <2>3 DEF Trying, Watching
<1>6. Deleting' /\ Counted'
  BY <1>1 DEF StartMonitoring, Deleting, Counted, TypeOK
<1>7. Leading'
  <2>1. SUFFICES ASSUME lapses = 0, NEW j \in Instance, current'[j] = 1, ~Releasing(j)',
                        told[j] \/ election[<<j, 1>>] = "status"
                 PROVE  key = j
    BY <1>1 DEF Leading, eleVars
  <2>2. CASE j # i
    BY <1>1, <2>1, <2>2 DEF StartMonitoring, Leading, Releasing, TypeOK
  <2>3. CASE j = i
    <3>1. starts[i] = 0 /\ 1 \in 1 .. MaxStarts
      BY <1>1, <1>2, <2>1, <2>3, Bounds DEF StartMonitoring, TypeOK
    <3>2. <<i, 1>> \in Pair /\ Owner(<<i, 1>>) = i /\ <<i, 1>>[2] = 1
      BY <3>1, PairIs
    <3>3. ~told[i] /\ election[<<i, 1>>] = "none"
      BY <1>1, <3>1, <3>2 DEF Paired
    <3>4. QED
      BY <2>1, <2>3, <3>3
  <2>4. QED
    BY <2>2, <2>3
<1>8. QED
  BY <1>1, <1>3, <1>4, <1>5, <1>6, <1>7 DEF FailoverInv

LEMMA InitialStays ==
  ASSUME FailoverInv, NEW i \in Instance, InitialElection(i) \/ ManualElection(i)
  PROVE  FailoverInv'
<1>1. /\ TypeOK /\ Counted /\ Paired /\ Trying /\ Deleting /\ Leading
      /\ UNCHANGED <<key, told, current, starts, monVars, cuts, lapses>>
      /\ UNCHANGED faults \/ Fault
      /\ main' = main \/ main' = [main EXCEPT ![i] = "idle"]
      /\ UNCHANGED eleVars \/ StartElection(The(i))
      /\ current[i] # 0
      /\ main[i] \in {"check", "idle"}
  BY DEF FailoverInv, InitialElection, ManualElection, useVars, monVars, Main, Paired
<1>2. The(i) \in Pair /\ Owner(The(i)) = i /\ The(i)[2] = starts[i]
  BY <1>1, TheIs
<1>3. /\ election' \in [Pair -> ElectionPlace]
      /\ attempt' \in [Pair -> 1 .. MaxAttempts]
      /\ state' \in [Pair -> {"IDLE", "ELECTING", "ELECTED", "FAILED"}]
      /\ election' = election \/ election' = [election EXCEPT ![The(i)] = "get"]
  BY <1>1, <1>2, StartElectionMoves DEF TypeOK, eleVars
<1>4. {faults, cuts, lapses}' \subseteq 0 .. MaxTroubles /\ Counted'
  BY <1>1, TroubleCounted
<1>5. main' \in [Instance -> MainPlace]
  BY <1>1 DEF TypeOK, MainPlace
<1>6. TypeOK'
  BY <1>1, <1>3, <1>4, <1>5 DEF TypeOK, monVars
<1>7. Paired'
  <2>1. \A j \in Instance :
          /\ current'[j] = 0 \/ current'[j] = starts'[j]
          /\ main'[j] \notin {"down", "idle"} => current'[j] # 0
          /\ starts'[j] = 0 => ~told'[j]
    BY <1>1 DEF Paired, TypeOK
  <2>2. starts[i] <= starts[i]
    BY <1>1, Bounds DEF TypeOK
  <2>3. ASSUME NEW q \in Pair, election'[q] # "none" \/ monitor'[q] # "off"
        PROVE  q[2] <= starts'[Owner(q)]
    <3>1. CASE q = The(i)
      BY <1>1, <1>2, <2>2, <3>1
    <3>2. CASE q # The(i)
      BY <1>1, <1>3, <2>3, <3>2 DEF Paired, TypeOK, monVars
    <3>3. QED
      BY <3>1, <3>2
  <2>4. QED
    BY <2>1, <2>3 DEF Paired
<1>8. Trying'
  BY <1>1 DEF Trying, Watching, monVars
<1>9. Deleting'
  BY <1>1 DEF Deleting, TypeOK
<1>10. Leading'
  <2>1. \A q \in Pair : election'[q] = "status" => election[q] = "status"
    BY <1>1, <1>3 DEF TypeOK
  <2>2. SUFFICES ASSUME lapses = 0, NEW j \in Instance, current[j] = 1, ~Releasing(j)',
                        told[j] \/ election'[<<j, 1>>] = "status"
                 PROVE  key = j
    BY <1>1 DEF Leading
  <2>3. <<j, 1>> \in Pair
    <3>1. current[j] \in 0 .. MaxStarts
      BY <1>1 DEF TypeOK
    <3>2. QED
      BY <2>2, <3>1, PairIs, Bounds
  <2>4. ~Releasing(j)
    BY <1>1, <2>2 DEF Releasing, TypeOK
  <2>5. QED
    BY <1>1, <2>1, <2>2, <2>3, <2>4 DEF Leading
<1>11. QED
  BY <1>4, <1>6, <1>7, <1>8, <1>9, <1>10 DEF FailoverInv

-----------------------------------------------------------------------------
(* Stopping.                                                               *)
LEMMA ForgetTypes ==
  ASSUME TypeOK, Paired, NEW i \in Instance, current[i] # 0,
         Forget(i) \/ MonitorCancelled(i) \/ Remember
  PROVE  /\ current' \in [Instance -> 0 .. MaxStarts]
         /\ monitor' \in [Pair -> MonitorPlace]
         /\ bad' \in [Pair -> 0 .. MaxFailures]
         /\ \A q \in Pair \ {The(i)} : monitor'[q] = monitor[q] /\ bad'[q] = bad[q]
         /\ monitor'[The(i)] \notin {"off", "ended"} =>
              Watching(The(i)) /\ bad'[The(i)] = bad[The(i)]
         /\ \A j \in Instance : current'[j] = current[j] \/ current'[j] = 0
         /\ \A j \in Instance \ {i} : current'[j] = current[j]
<1>1. The(i) \in Pair
  BY TheIs
<1>2. CASE Forget(i)
  BY <1>1, <1>2, Bounds DEF Forget, TypeOK, MonitorPlace, Watching
<1>3. CASE MonitorCancelled(i)
  BY <1>1, <1>3 DEF MonitorCancelled, TypeOK, MonitorPlace, Watching
<1>4. CASE Remember
  BY <1>1, <1>4 DEF Remember, monVars, TypeOK, Watching
<1>5. QED
  BY <1>2, <1>3, <1>4

(* A step of stopping: the pair is cancelled or forgotten; the key stays,  *)
(* or is freed after it was looked up.                                     *)
LEMMA StopKeeps ==
  ASSUME FailoverInv, NEW i \in Instance, current[i] # 0,
         Forget(i) \/ MonitorCancelled(i) \/ Remember,
         NEW to \in {"idle", "release", "delete", "tell", "publish"},
         main' = [main EXCEPT ![i] = to],
         to # "idle" => current' = current,
         UNCHANGED <<starts, election, attempt, state, cuts, lapses>>,
         UNCHANGED faults \/ Fault,
         told' = told \/ told' = [told EXCEPT ![i] = FALSE],
         \/ key' = key
         \/ main[i] = "delete" /\ key' = NoOne /\ (to = "tell" \/ current'[i] = 0),
         to = "delete" => key = i /\ key' = i,
         Releasing(i) => to = "publish" \/ current'[i] = 0
  PROVE  FailoverInv'
<1>1. /\ TypeOK /\ Counted /\ Paired /\ Trying /\ Deleting /\ Leading
      /\ main \in [Instance -> MainPlace] /\ told \in [Instance -> BOOLEAN]
      /\ current \in [Instance -> 0 .. MaxStarts]
  BY DEF FailoverInv, TypeOK
<1>2. The(i) \in Pair /\ Owner(The(i)) = i /\ The(i)[2] = starts[i]
  BY <1>1, TheIs
<1>3. /\ election' = election /\ attempt' = attempt /\ state' = state
  OBVIOUS
<1>4. {faults, cuts, lapses}' \subseteq 0 .. MaxTroubles /\ Counted'
  BY <1>1, TroubleCounted
<1>5. /\ main' \in [Instance -> MainPlace]
      /\ told' \in [Instance -> BOOLEAN]
      /\ key' \in Instance \cup {NoOne}
  BY <1>1 DEF TypeOK, MainPlace
<1>6. /\ current' \in [Instance -> 0 .. MaxStarts]
      /\ monitor' \in [Pair -> MonitorPlace]
      /\ bad' \in [Pair -> 0 .. MaxFailures]
      /\ \A q \in Pair \ {The(i)} : monitor'[q] = monitor[q] /\ bad'[q] = bad[q]
      /\ monitor'[The(i)] \notin {"off", "ended"} =>
           Watching(The(i)) /\ bad'[The(i)] = bad[The(i)]
      /\ \A j \in Instance : current'[j] = current[j] \/ current'[j] = 0
      /\ \A j \in Instance \ {i} : current'[j] = current[j]
  BY <1>1, ForgetTypes
<1>7. TypeOK'
  BY <1>1, <1>3, <1>4, <1>5, <1>6 DEF TypeOK
<1>8. Paired'
  <2>1. ASSUME NEW j \in Instance
        PROVE  /\ current'[j] = 0 \/ current'[j] = starts'[j]
               /\ main'[j] \notin {"down", "idle"} => current'[j] # 0
               /\ starts'[j] = 0 => ~told'[j]
    BY <1>1, <1>6 DEF Paired
  <2>2. starts[i] <= starts[i]
    BY <1>1, Bounds DEF TypeOK
  <2>3. ASSUME NEW q \in Pair, election'[q] # "none" \/ monitor'[q] # "off"
        PROVE  q[2] <= starts'[Owner(q)]
    <3>1. CASE q = The(i)
      BY <1>2, <2>2, <3>1
    <3>2. CASE q # The(i)
      BY <1>1, <1>3, <1>6, <2>3, <3>2 DEF Paired
    <3>3. QED
      BY <3>1, <3>2
  <2>4. QED
    BY <2>1, <2>3 DEF Paired
<1>9. Trying'
  <2>1. ~(The(i)[2] > starts[Owner(The(i))])
    BY <1>1, <1>2, Bounds DEF TypeOK
  <2>2. ASSUME NEW q \in Pair,
               monitor'[q] \notin {"off", "ended"} \/ q[2] > starts[Owner(q)]
        PROVE  bad'[q] < MaxFailures
    <3>1. CASE q = The(i)
      BY <1>1, <1>2, <1>6, <2>1, <2>2, <3>1 DEF Trying
    <3>2. CASE q # The(i)
      BY <1>1, <1>6, <2>2, <3>2 DEF Trying, Watching
    <3>3. QED
      BY <3>1, <3>2
  <2>3. QED
    BY <2>2 DEF Trying, Watching
<1>10. Deleting'
  <2>1. SUFFICES ASSUME lapses = 0, NEW j \in Instance, main'[j] = "delete"
                 PROVE  key' = j
    BY DEF Deleting
  <2>2. CASE j = i
    BY <1>1, <2>1, <2>2
  <2>3. CASE j # i
    <3>1. main[j] = "delete" /\ key = j
      BY <1>1, <2>1, <2>3 DEF Deleting
    <3>2. main[i] = "delete" => key = i
      BY <1>1, <2>1 DEF Deleting
    <3>3. QED
      BY <2>3, <3>1, <3>2, Bounds
  <2>4. QED
    BY <2>2, <2>3
<1>11. Leading'
  <2>1. SUFFICES ASSUME lapses = 0, NEW j \in Instance, current'[j] = 1, ~Releasing(j)',
                        told'[j] \/ election'[<<j, 1>>] = "status"
                 PROVE  key' = j
    BY DEF Leading
  <2>2. current[j] = 1 /\ <<j, 1>> \in Pair
    <3>1. current[j] = 1
      BY <1>6, <2>1
    <3>2. QED
      BY <1>1, <3>1, PairIs, Bounds
  <2>3. told[j] \/ election[<<j, 1>>] = "status"
    BY <1>1, <1>3, <2>1, <2>2
  <2>4. ~Releasing(j)
    <3>1. CASE j = i
      BY <1>1, <2>1, <3>1 DEF Releasing
    <3>2. CASE j # i
      BY <1>1, <2>1, <3>2 DEF Releasing
    <3>3. QED
      BY <3>1, <3>2
  <2>5. key = j
    BY <1>1, <2>1, <2>2, <2>3, <2>4 DEF Leading
  <2>6. CASE main[i] = "delete" /\ key' = NoOne /\ (to = "tell" \/ current'[i] = 0)
    <3>1. i = j
      BY <1>1, <2>1, <2>5, <2>6 DEF Deleting
    <3>2. QED
      BY <1>1, <2>1, <2>6, <3>1 DEF Releasing
  <2>7. QED
    BY <2>5, <2>6, Bounds
<1>12. QED
  BY <1>4, <1>7, <1>8, <1>9, <1>10, <1>11 DEF FailoverInv

LEMMA StopStays ==
  ASSUME FailoverInv, NEW i \in Instance, StopMonitoring(i) \/ StopStep(i)
  PROVE  FailoverInv'
<1>1. current[i] # 0
  BY DEF FailoverInv, Paired, StopMonitoring, StopStep, ReleaseLookup, ReleaseDelete,
         TellLost, LostPublished, Main
<1>2. CASE StopMonitoring(i)
  <2>1. PICK to \in {"idle", "release"} :
          /\ Main(i, "idle", to)
          /\ to = "release" => MonitorCancelled(i)
          /\ to = "idle" => Forget(i)
    BY <1>2 DEF StopMonitoring
  <2>2. UNCHANGED <<key, told, starts, election, attempt, state, faults, cuts, lapses>>
    BY <1>2 DEF StopMonitoring, eleVars
  <2>5. to # "idle" => current' = current
    BY <2>1 DEF MonitorCancelled
  <2>6. ~Releasing(i) /\ main' = [main EXCEPT ![i] = to]
    BY <2>1 DEF Main, Releasing
  <2>7. Forget(i) \/ MonitorCancelled(i) \/ Remember
    BY <2>1
  <2>8. QED
    BY <1>1, <2>1, <2>2, <2>5, <2>6, <2>7, StopKeeps
<1>3. CASE StopStep(i)
  <2>1. UNCHANGED <<starts, election, attempt, state, cuts, lapses>>
    BY <1>3 DEF StopStep, eleVars
  <2>2. Forget(i) => current'[i] = 0
    BY DEF FailoverInv, TypeOK, Forget
  <2>3. CASE ReleaseLookup(i)
    <3>1. ~Releasing(i) /\ UNCHANGED <<key, told>>
      BY <2>3 DEF ReleaseLookup, Main, Releasing
    <3>2. \/ key = i /\ main' = [main EXCEPT ![i] = "delete"] /\ Remember /\ UNCHANGED faults
          \/ main' = [main EXCEPT ![i] = "idle"] /\ Forget(i) /\ (UNCHANGED faults \/ Fault)
      BY <2>3 DEF ReleaseLookup, Main
    <3>3. Remember => current' = current
      BY DEF Remember
    <3>4. QED
      BY <1>1, <2>1, <3>1, <3>2, <3>3, StopKeeps
  <2>4. CASE ReleaseDelete(i)
    <3>1. main[i] = "delete" /\ ~Releasing(i) /\ UNCHANGED told
      BY <2>4 DEF ReleaseDelete, Main, Releasing
    <3>2. \/ /\ key' = NoOne /\ main' = [main EXCEPT ![i] = "tell"] /\ Remember
             /\ UNCHANGED faults
          \/ /\ main' = [main EXCEPT ![i] = "idle"] /\ Forget(i) /\ Fault
             /\ key' = key \/ key' = NoOne
      BY <2>4 DEF ReleaseDelete, Main
    <3>3. Remember => current' = current
      BY DEF Remember
    <3>4. QED
      BY <1>1, <2>1, <2>2, <3>1, <3>2, <3>3, StopKeeps
  <2>5. CASE TellLost(i)
    <3>1. /\ main' = [main EXCEPT ![i] = "publish"] /\ told' = [told EXCEPT ![i] = FALSE]
          /\ Remember /\ current' = current /\ UNCHANGED <<key, faults>>
      BY <2>5 DEF TellLost, Main, Remember
    <3>2. QED
      BY <1>1, <2>1, <3>1, StopKeeps
  <2>6. CASE LostPublished(i)
    <3>1. /\ main' = [main EXCEPT ![i] = "idle"]
          /\ Forget(i) /\ UNCHANGED <<key, told, faults>>
      BY <2>6 DEF LostPublished, Main
    <3>2. QED
      BY <1>1, <2>1, <2>2, <3>1, StopKeeps
  <2>7. QED
    BY <1>3, <2>3, <2>4, <2>5, <2>6 DEF StopStep
<1>4. QED
  BY <1>2, <1>3

-----------------------------------------------------------------------------
(* The world around.                                                       *)
LEMMA ExpiryStays ==
  ASSUME FailoverInv, LeaderKeyExpires
  PROVE  FailoverInv'
<1>1. /\ TypeOK /\ Counted /\ Paired /\ Trying
      /\ UNCHANGED <<told, main, current, starts, monitor, bad,
                     election, attempt, state, faults, cuts>>
      /\ ~Settled /\ lapses' = lapses + 1 /\ key' = NoOne
  BY DEF FailoverInv, LeaderKeyExpires, useVars, monVars, eleVars
<1>2. {faults, cuts, lapses}' \subseteq 0 .. MaxTroubles /\ Counted'
  BY <1>1, TroubleCounted
<1>3. lapses' # 0
  BY <1>1, Bounds DEF TypeOK
<1>4. TypeOK'
  BY <1>1, <1>2 DEF TypeOK
<1>5. Paired' /\ Trying'
  BY <1>1 DEF Paired, Trying, Watching
<1>6. Deleting' /\ Leading'
  BY <1>3 DEF Deleting, Leading
<1>7. QED
  BY <1>2, <1>4, <1>5, <1>6 DEF FailoverInv

LEMMA CrashStays ==
  ASSUME FailoverInv, NEW i \in Instance, Crash(i)
  PROVE  FailoverInv'
<1>1. /\ TypeOK /\ Counted /\ Paired /\ Trying /\ Deleting /\ Leading
      /\ UNCHANGED <<key, starts, faults, cuts, lapses>>
  BY DEF FailoverInv, Crash
<1>2. /\ monitor' = [p \in Pair |-> IF Owner(p) = i THEN "off" ELSE monitor[p]]
      /\ bad' = [p \in Pair |-> IF Owner(p) = i THEN 0 ELSE bad[p]]
      /\ election' = [p \in Pair |-> IF Owner(p) = i THEN "none" ELSE election[p]]
      /\ attempt' = [p \in Pair |-> IF Owner(p) = i THEN 1 ELSE attempt[p]]
      /\ state' = [p \in Pair |-> IF Owner(p) = i THEN "IDLE" ELSE state[p]]
  BY DEF Crash
<1>3. /\ main' = [main EXCEPT ![i] = "down"]
      /\ current' = [current EXCEPT ![i] = 0]
      /\ told' = [told EXCEPT ![i] = FALSE]
  BY DEF Crash
<1>4. TypeOK'
  BY <1>1, <1>2, <1>3, Bounds DEF TypeOK, MonitorPlace, MainPlace, ElectionPlace
<1>5. Counted'
  BY <1>1 DEF Counted
<1>6. Paired'
  <2>1. \A j \in Instance :
          /\ current'[j] = 0 \/ current'[j] = starts'[j]
          /\ main'[j] \notin {"down", "idle"} => current'[j] # 0
          /\ starts'[j] = 0 => ~told'[j]
    BY <1>1, <1>3 DEF Paired, TypeOK
  <2>2. \A q \in Pair :
          election'[q] # "none" \/ monitor'[q] # "off" => q[2] <= starts'[Owner(q)]
    BY <1>1, <1>2 DEF Paired
  <2>3. QED
    BY <2>1, <2>2 DEF Paired
<1>7. Trying'
  BY <1>1, <1>2, Bounds DEF Trying, Watching
<1>8. Deleting'
  BY <1>1, <1>3 DEF Deleting, TypeOK
<1>9. Leading'
  <2>1. SUFFICES ASSUME lapses = 0, NEW j \in Instance, current'[j] = 1, ~Releasing(j)',
                        told'[j] \/ election'[<<j, 1>>] = "status"
                 PROVE  key = j
    BY <1>1 DEF Leading
  <2>2. /\ j # i /\ current[j] = 1
        /\ main'[j] = main[j] /\ told'[j] = told[j]
    <3>1. /\ main \in [Instance -> MainPlace] /\ told \in [Instance -> BOOLEAN]
          /\ current \in [Instance -> 0 .. MaxStarts]
      BY <1>1 DEF TypeOK
    <3>2. j # i
      BY <1>3, <2>1, <3>1
    <3>3. QED
      BY <1>3, <2>1, <3>1, <3>2
  <2>3. <<j, 1>> \in Pair /\ Owner(<<j, 1>>) = j
    <3>1. current[j] \in 0 .. MaxStarts
      BY <1>1 DEF TypeOK
    <3>2. QED
      BY <2>2, <3>1, PairIs, Bounds
  <2>4. ~Releasing(j) /\ election'[<<j, 1>>] = election[<<j, 1>>]
    BY <1>2, <2>1, <2>2, <2>3 DEF Releasing
  <2>5. QED
    BY <1>1, <2>1, <2>2, <2>4 DEF Leading
<1>10. QED
  BY <1>4, <1>5, <1>6, <1>7, <1>8, <1>9 DEF FailoverInv

LEMMA FailoverStays == Spec => []FailoverInv
<1>1. ASSUME FailoverInv, [Next]_vars PROVE FailoverInv'
  <2>1. ASSUME NEW p \in Pair,
               \/ ElectionStep(p) \/ MonitorStep(p)
               \/ ElectionTimesOut(p) /\ UNCHANGED <<useVars, monVars, lapses>>
        PROVE  FailoverInv'
    BY <1>1, <2>1, ElectionStays, MonitorStays
  <2>2. ASSUME NEW i \in Instance,
               \/ StartMonitoring(i) \/ InitialElection(i) \/ ManualElection(i)
               \/ StopMonitoring(i) \/ StopStep(i) \/ Crash(i)
        PROVE  FailoverInv'
    BY <1>1, <2>2, StartStays, InitialStays, StopStays, CrashStays
  <2>3. CASE LeaderKeyExpires
    BY <1>1, <2>3, ExpiryStays
  <2>4. CASE UNCHANGED vars
    BY <1>1, <2>4
       DEF vars, useVars, monVars, eleVars, FailoverInv, TypeOK, Counted, Paired, Trying,
           Watching, Deleting, Leading, Releasing
  <2>5. QED
    BY <1>1, <2>1, <2>2, <2>3, <2>4 DEF Next
<1>2. QED
  BY <1>1, FailoverInit, PTL DEF Spec

(* Every variable keeps its type, whatever fails, is cut off or expires:   *)
(* attempts stay below max_attempts, a monitor's failures below theirs.    *)
THEOREM FailoverTypes == Spec => []TypeOK
BY FailoverStays, PTL DEF FailoverInv

(* Until the key expires, an instance that was told it is active holds it  *)
(* until its own release, in groups of every size.                         *)
THEOREM ToldHoldsKey == Spec => []ActiveHoldsKey
<1>1. FailoverInv => ActiveHoldsKey
  BY DEF FailoverInv, Leading, ActiveHoldsKey
<1>2. QED
  BY <1>1, FailoverStays, PTL

(* The leader key implements the lock, however elections overlap: it goes  *)
(* from one instance to another only by way of nobody, and until it expires*)
(* once, nobody else's release takes it from its holder.                   *)
THEOREM FailoverKeyIsLock == Spec => KeyIsLock
<1>1. Init => Lock!LockInit
  BY DEF Init, Lock!LockInit
<1>2. ASSUME FailoverInv, [Next]_vars
      PROVE  [\/ \E i \in Instance : Lock!Acquire(i)
              \/ \E i \in Instance :
                   (main[i] = "delete" \/ lapses > 0) /\ Lock!Release(i)
              \/ lapses' = lapses + 1 /\ Lock!Lapse]_key
  <2>1. CASE key' = key
    BY <2>1
  <2>2. ASSUME key' # key
        PROVE  \/ \E i \in Instance : key = NoOne /\ key' = i
               \/ key \in Instance /\ key' = NoOne
                  /\ \E i \in Instance : main[i] = "delete"
               \/ lapses' = lapses + 1 /\ key # NoOne /\ key' = NoOne
    <3>1. ASSUME NEW p \in Pair, ElectionStep(p) \/ ElectionTimesOut(p)
          PROVE  \E i \in Instance : key = NoOne /\ key' = i
      BY <2>2, <3>1, PairIs
         DEF ElectionStep, LookBeforeCreate, PutLeaderKey, TellElected, ElectedPublished,
             ElectionTimesOut, CreateKey
    <3>2. ASSUME NEW p \in Pair, MonitorStep(p) PROVE FALSE
      BY <2>2, <3>2 DEF MonitorStep
    <3>3. ASSUME NEW i \in Instance, StopMonitoring(i) PROVE FALSE
      BY <2>2, <3>3 DEF StopMonitoring
    <3>4. ASSUME NEW i \in Instance, StopStep(i)
          PROVE  key \in Instance /\ key' = NoOne /\ main[i] = "delete"
      BY <1>2, <2>2, <3>4
         DEF StopStep, ReleaseLookup, ReleaseDelete, TellLost, LostPublished, Main,
             FailoverInv, TypeOK
    <3>5. ASSUME NEW i \in Instance,
                 StartMonitoring(i) \/ InitialElection(i) \/ ManualElection(i) \/ Crash(i)
          PROVE  FALSE
      BY <2>2, <3>5 DEF StartMonitoring, InitialElection, ManualElection, Crash
    <3>6. CASE LeaderKeyExpires
      BY <3>6 DEF LeaderKeyExpires
    <3>7. ~UNCHANGED vars
      BY <2>2 DEF vars
    <3>8. QED
      BY <1>2, <3>1, <3>2, <3>3, <3>4, <3>5, <3>6, <3>7 DEF Next
  <2>3. CASE \E i \in Instance : main[i] = "delete" /\ key \in Instance /\ key' = NoOne
    <3>1. PICK i \in Instance : main[i] = "delete" /\ key \in Instance /\ key' = NoOne
      BY <2>3
    <3>2. lapses = 0 \/ lapses > 0
      BY <1>2, Bounds DEF FailoverInv, TypeOK
    <3>3. lapses = 0 => key = i
      BY <1>2, <3>1 DEF FailoverInv, Deleting
    <3>4. QED
      BY <3>1, <3>2, <3>3 DEF Lock!Release
  <2>4. CASE \E i \in Instance : key = NoOne /\ key' = i
    BY <2>4 DEF Lock!Acquire
  <2>5. CASE lapses' = lapses + 1 /\ key # NoOne /\ key' = NoOne
    BY <2>5 DEF Lock!Lapse
  <2>6. QED
    BY <2>1, <2>2, <2>3, <2>4, <2>5
<1>3. QED
  BY <1>1, <1>2, FailoverStays, PTL DEF KeyIsLock, Spec
=============================================================================
