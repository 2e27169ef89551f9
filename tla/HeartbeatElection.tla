------------------------- MODULE HeartbeatElection --------------------------
(***************************************************************************)
(* Two ways to one active instance without a lock, as the examples of the  *)
(* SDK have them: sticky_single_active_working elects by heartbeats alone  *)
(* and lets the active instance pull commands from a work queue;           *)
(* jetstream_single_active lets every instance pull orders through one     *)
(* consumer that hands out one at a time.                                  *)
(*                                                                         *)
(* A tick is a second.  Heartbeats arrive within it or are lost, and the   *)
(* pause before an instance looks again is shorter than it.                *)
(***************************************************************************)
EXTENDS Naturals, FiniteSets

CONSTANTS
  Node,       \* the instances
  Work,       \* commands, or orders
  MaxMishaps, \* bound: lost heartbeats, failed sends, stops, slow orders
  MaxClock    \* bound: seconds

ASSUME ElectionAssumption == {MaxMishaps, MaxClock} \subseteq Nat

Silence == 5   \* a silence longer than this starts an election
Period == 2    \* between two rounds of the election loop

VARIABLES
  running, acting,  \* the instances that run, and those with is_active
  age,        \* seconds since the last heartbeat of another, up to Silence + 1
  due,        \* seconds to the next round of the loop
  pausing,    \* the instances about to look again
  arriving,   \* heartbeats under way: <<from, to>>
  mode,       \* which of the two examples it is
  holder,     \* who works at each command or order
  late,       \* what was not acknowledged within ack_wait
  acked,      \* what has been acknowledged
  handled,    \* history: how often it was processed to the end
  split, gap, \* history: seconds two have been active, seconds none has been
  mishaps, elapsed

loopVars == <<acting, age, due, pausing, arriving>>
workVars == <<mode, holder, late, acked, handled>>
electVars == <<running, loopVars, workVars, split, gap, mishaps, elapsed>>

ElectTypeOK ==
  /\ {running, acting, pausing} \subseteq SUBSET Node
  /\ age \in [Node -> 0 .. Silence + 1] /\ due \in [Node -> 0 .. Period]
  /\ arriving \subseteq Node \X Node
  /\ mode \in {"sticky", "consumer"} /\ holder \in [Work -> SUBSET Node]
  /\ {late, acked} \subseteq SUBSET Work
  /\ handled \in [Work -> Nat] /\ {split, gap} \subseteq Nat
  /\ mishaps \in 0 .. MaxMishaps /\ elapsed \in 0 .. MaxClock

ElectInit ==
  /\ running = Node /\ acting = {} /\ pausing = {} /\ arriving = {}
  /\ age = [i \in Node |-> 0] /\ due = [i \in Node |-> Period]
  /\ mode \in {"sticky", "consumer"} /\ holder = [w \in Work |-> {}]
  /\ late = {} /\ acked = {}
  /\ handled = [w \in Work |-> 0]
  /\ split = 0 /\ gap = 0 /\ mishaps = 0 /\ elapsed = 0

Mishap == mishaps < MaxMishaps /\ mishaps' = mishaps + 1
Fine == UNCHANGED mishaps

Due(i) == i \in running /\ due[i] = 0
Silent(i) == i \notin acting /\ age[i] > Silence

(* The end of a round: an active instance sends its heartbeat.  If that    *)
(* fails the next round comes a second earlier.                            *)
EndRound(i, leads) ==
  \/ /\ Fine /\ due' = [due EXCEPT ![i] = Period]
     /\ arriving' = arriving \cup (IF leads THEN {i} \X (running \ {i}) ELSE {})
  \/ leads /\ Mishap /\ due' = [due EXCEPT ![i] = 1] /\ UNCHANGED arriving

Round(i) ==
  /\ Due(i) /\ i \notin pausing
  /\ IF Silent(i)
     THEN pausing' = pausing \cup {i} /\ Fine /\ UNCHANGED <<due, arriving>>
     ELSE EndRound(i, i \in acting) /\ UNCHANGED pausing
  /\ UNCHANGED <<running, acting, age, workVars, split, gap, elapsed>>

LookAgain(i) ==
  /\ Due(i) /\ i \in pausing
  /\ acting' = IF age[i] > Silence THEN acting \cup {i} ELSE acting
  /\ pausing' = pausing \ {i} /\ gap' = IF i \in acting' THEN 0 ELSE gap
  /\ EndRound(i, i \in acting')
  /\ UNCHANGED <<running, age, workVars, split, elapsed>>

(* Mutant of Hear: an active instance ignores the others.                  *)
HearNothing(b) ==
  /\ arriving' = arriving \ {b}
  /\ IF b[2] \in acting THEN UNCHANGED age ELSE age' = [age EXCEPT ![b[2]] = 0]
  /\ Fine
  /\ UNCHANGED <<running, acting, due, pausing, workVars, split, gap, elapsed>>
Hear(b) ==
  /\ arriving' = arriving \ {b} /\ acting' = acting \ {b[2]}
  /\ age' = [age EXCEPT ![b[2]] = 0]
  /\ Fine
  /\ UNCHANGED <<running, due, pausing, workVars, split, gap, elapsed>>

LoseBeat(b) ==
  /\ Mishap /\ arriving' = arriving \ {b}
  /\ UNCHANGED <<running, acting, age, due, pausing, workVars, split, gap, elapsed>>

(* The instance is stopped, or its process ends.                           *)
Halt(i) ==
  /\ i \in running /\ Mishap
  /\ running' = running \ {i} /\ acting' = acting \ {i}
  /\ pausing' = pausing \ {i} /\ arriving' = {b \in arriving : b[2] # i}
  /\ UNCHANGED <<age, due, workVars, split, gap, elapsed>>

Second ==
  /\ mode = "sticky" /\ elapsed < MaxClock /\ elapsed' = elapsed + 1
  /\ \A i \in running : due[i] > 0
  /\ arriving = {}
  /\ age' = [i \in Node |-> IF age[i] > Silence THEN age[i] ELSE age[i] + 1]
  /\ due' = [i \in Node |-> IF due[i] = 0 THEN 0 ELSE due[i] - 1]
  /\ split' = IF Cardinality(acting) > 1 THEN split + 1 ELSE 0
  /\ gap' = IF acting = {} /\ running # {} THEN gap + 1 ELSE 0
  /\ Fine /\ UNCHANGED <<running, acting, pausing, arriving, workVars>>

-----------------------------------------------------------------------------
(* The work: a piece is handed out, and again when ack_wait has passed and  *)
(* it was not acknowledged.                                                *)

Pending(w) == holder[w] # {} /\ w \notin late
Waits(w) == w \notin acked /\ ~Pending(w)
Idle(i) == i \in running /\ \A w \in Work : i \notin holder[w]
LetsGo(i, w) == holder' = [holder EXCEPT ![w] = @ \ {i}] /\ late' = late \ {w}
WorkOnly == UNCHANGED <<running, loopVars, mode, split, gap, elapsed>>

(* Who pulls: the active instance; or anybody, when nothing is pending.    *)
MayPull(i) == IF mode = "sticky" THEN i \in acting ELSE \A w \in Work : ~Pending(w)

Fetch(i, w) ==
  /\ Idle(i) /\ Waits(w) /\ MayPull(i)
  /\ holder' = [holder EXCEPT ![w] = @ \cup {i}] /\ late' = late \ {w}
  /\ Fine /\ WorkOnly /\ UNCHANGED <<acked, handled>>

(* The double check: no longer active, it gives the command back.          *)
GiveBack(i, w) ==
  /\ mode = "sticky" /\ i \in holder[w] /\ i \in running \ acting
  /\ LetsGo(i, w)
  /\ Fine /\ WorkOnly /\ UNCHANGED <<acked, handled>>

(* Processed and acknowledged, if nothing fails; an instance that has      *)
(* yielded after its double check goes on, too.                            *)
Process(i, w) ==
  /\ i \in holder[w] /\ i \in running /\ LetsGo(i, w)
  /\ \/ Fine /\ acked' = acked \cup {w} /\ handled' = [handled EXCEPT ![w] = @ + 1]
     \/ /\ Mishap /\ UNCHANGED acked
        /\ handled' = [handled EXCEPT ![w] = @ + 1] \/ UNCHANGED handled
  /\ WorkOnly

(* Not acknowledged in time: the holder is slow, or has been stopped.      *)
Redeliver(w) ==
  /\ Pending(w) /\ w \notin acked
  /\ IF holder[w] \cap running = {} THEN Fine ELSE Mishap
  /\ late' = late \cup {w} /\ holder' = [holder EXCEPT ![w] = @ \cap running]
  /\ WorkOnly /\ UNCHANGED <<acked, handled>>

WorkStep ==
  \E w \in Work : Redeliver(w) \/ \E i \in Node : Fetch(i, w) \/ GiveBack(i, w) \/ Process(i, w)

LoopStep == mode = "sticky" /\ \E i \in Node : Round(i) \/ LookAgain(i)
Arrive == \E b \in arriving : Hear(b)

ElectNext ==
  \/ LoopStep \/ Arrive \/ Second \/ WorkStep
  \/ \E b \in arriving : LoseBeat(b)
  \/ \E i \in Node : Halt(i)

ElectSpec == ElectInit /\ [][ElectNext]_electVars

-----------------------------------------------------------------------------
(* Two instances may become active in the same second, for neither holds a *)
(* lock; they hear of each other within the second, or for every heartbeat *)
(* that is lost within one more period of the loop.                        *)
SplitIsShort == split <= Period * mishaps

(* However many instances pull, orders are worked at one at a time, and    *)
(* for every one that took longer than ack_wait one more.                  *)
OneOrderAtATime ==
  mode = "consumer"
    => Cardinality({p \in Node \X Work : p[1] \in holder[p[2]]}) <= 1 + mishaps

(* While an instance runs, the group is not without an active one for      *)
(* longer than the silence that starts an election and one period of the   *)
(* loop, whatever heartbeats are lost and instances stopped.               *)
GroupRecovers == gap <= Silence + 1 + Period

(* Nothing leaves the work queue that was not processed to its end, though *)
(* instances yield, fail and are stopped while they hold it.               *)
DoneMeansHandled == \A w \in acked : handled[w] > 0

(* The types, and both ways to one active instance: it is one, soon again  *)
(* and but for a moment, and what it takes from the queue is done.         *)
ElectionsSound ==
  ElectTypeOK /\ SplitIsShort /\ GroupRecovers /\ OneOrderAtATime /\ DoneMeansHandled
=============================================================================
