------------------------------- MODULE Orders -------------------------------
(***************************************************************************)
(* The order client of the sticky-active example: one order after another  *)
(* through RPCCallUseCase, while the service's active instance changes,    *)
(* answers are late and get lost.  The exclusive handlers wrap what they   *)
(* answer, so the client finds no order in any answer and counts every     *)
(* order as failed, those that were processed too.                         *)
(***************************************************************************)
EXTENDS Naturals, FiniteSets

CONSTANTS
  Seller,       \* instances of the order service
  MaxOrders,    \* orders of one run of the client
  MaxAttempts,  \* attempts of the retry policy
  MaxElections,     \* bound: changes of the active instance
  MaxDelays     \* bound: answers that are late or lost

ASSUME OrdersAssumption == {MaxOrders, MaxAttempts, MaxElections, MaxDelays} \subseteq Nat

VARIABLES
  leader,       \* the active instance, if there is one
  order, try,   \* the order the client is at, and the attempt
  waiting,      \* whether an attempt is under way
  requests,     \* requests that no instance has taken: <<order, try>>
  answers,      \* answers under way: <<order, try>>
  sold,         \* history: the attempts that were processed
  failed,       \* the client's count; no order is counted as successful
  outcome,      \* what each order came to
  elections, delays

orderVars == <<leader, order, try, waiting, requests, answers, sold,
               failed, outcome, elections, delays>>
sellerVars == <<leader, sold, elections>>
tallyVars == <<order, failed, outcome>>

Attempt == (1 .. MaxOrders) \X (1 .. MaxAttempts)

OrdersTypeOK ==
  /\ leader \subseteq Seller /\ order \in 1 .. MaxOrders + 1 /\ try \in 0 .. MaxAttempts
  /\ waiting \in BOOLEAN /\ failed \in 0 .. MaxOrders
  /\ requests \subseteq Attempt /\ answers \subseteq Attempt /\ sold \subseteq Attempt
  /\ outcome \in [1 .. MaxOrders -> {"open", "unread", "silent"}]
  /\ elections \in 0 .. MaxElections /\ delays \in 0 .. MaxDelays

OrdersInit ==
  /\ leader = {} /\ order = 1 /\ try = 0 /\ waiting = FALSE
  /\ requests = {} /\ answers = {} /\ sold = {}
  /\ failed = 0 /\ outcome = [o \in 1 .. MaxOrders |-> "open"]
  /\ elections = 0 /\ delays = 0

LeaderChanges ==
  /\ elections < MaxElections /\ elections' = elections + 1
  /\ leader' \in {{}} \cup {{s} : s \in Seller} /\ leader' # leader
  /\ UNCHANGED <<try, waiting, requests, answers, sold, tallyVars, delays>>

(* The queue group hands a request to some instance: the active one sells, *)
(* another says in its result that it is not active.                       *)
SellerTakes(a) ==
  /\ a \in requests /\ requests' = requests \ {a} /\ answers' = answers \cup {a}
  /\ \E s \in Seller : sold' = IF s \in leader THEN sold \cup {a} ELSE sold
  /\ UNCHANGED <<leader, elections, try, waiting, tallyVars, delays>>

(* The request or its answer is lost.                                      *)
Vanish ==
  /\ delays < MaxDelays /\ delays' = delays + 1
  /\ \/ \E a \in requests : requests' = requests \ {a} /\ UNCHANGED answers
     \/ \E a \in answers : answers' = answers \ {a} /\ UNCHANGED requests
  /\ UNCHANGED <<sellerVars, try, waiting, tallyVars>>

-----------------------------------------------------------------------------
PlaceOrder ==
  /\ order <= MaxOrders /\ ~waiting /\ try < MaxAttempts
  /\ try' = try + 1 /\ waiting' = TRUE /\ requests' = requests \cup {<<order, try'>>}
  /\ UNCHANGED <<sellerVars, answers, tallyVars, delays>>

(* The order has failed, and the client goes on to the next.               *)
Settle(came) ==
  /\ outcome' = [outcome EXCEPT ![order] = came]
  /\ failed' = failed + 1 /\ order' = order + 1 /\ try' = 0

Again(came) ==
  IF try < MaxAttempts THEN UNCHANGED <<try, tallyVars>> ELSE Settle(came)

UnderWay == <<order, try>> \in requests \cup answers

(* Mutant of Unread: the fields are picked within the loop of attempts.    *)
UnreadRetried == Again("unread")
(* The adapter picks the fields of an order out of the result, which has   *)
(* them, if at all, one level further down: a KeyError, after which no     *)
(* attempt is made.                                                        *)
Unread == Settle("unread")

(* Each attempt has its own reply subject: later answers are not read.     *)
ReceiveOrder ==
  /\ waiting /\ waiting' = FALSE
  /\ <<order, try>> \in answers /\ answers' = answers \ {<<order, try>>}
  /\ Unread
  /\ UNCHANGED <<sellerVars, requests, delays>>

(* No answer in time: another attempt, or the order has failed.            *)
AttemptExpires ==
  /\ waiting /\ waiting' = FALSE
  /\ IF UnderWay THEN delays < MaxDelays /\ delays' = delays + 1 ELSE UNCHANGED delays
  /\ Again("silent")
  /\ UNCHANGED <<sellerVars, requests, answers>>

OrdersNext ==
  \/ LeaderChanges \/ Vanish \/ PlaceOrder \/ ReceiveOrder \/ AttemptExpires
  \/ \E a \in requests : SellerTakes(a)

OrdersSpec == OrdersInit /\ [][OrdersNext]_orderVars

-----------------------------------------------------------------------------
SalesOf(o) == {t \in 1 .. MaxAttempts : <<o, t>> \in sold}
Unanswered == {o \in 1 .. MaxOrders : outcome[o] = "silent"}

(* An order is processed once more only for an answer that was late or     *)
(* lost: every answer ends its order, unread as it is, and the answers to  *)
(* earlier attempts end nothing, though the active instance changes all    *)
(* the while.                                                              *)
RepeatsNeedDelays == \A o \in 1 .. MaxOrders : Cardinality(SalesOf(o)) <= 1 + delays

(* Each of the attempts of an order that got no answer was late or lost.   *)
SilenceNeedsDelays == MaxAttempts * Cardinality(Unanswered) <= delays

(* The types, and what the sales and the silences cost.                    *)
OrdersSound == OrdersTypeOK /\ RepeatsNeedDelays /\ SilenceNeedsDelays
=============================================================================
