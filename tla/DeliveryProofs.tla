--------------------------- MODULE DeliveryProofs ---------------------------
(***************************************************************************)
(* Theorems about Delivery, Orders, Echo, HeartbeatElection and            *)
(* InstanceRecords: acknowledgements and reports of the stream, what the   *)
(* sales and the silences of the order client cost, the numbers of the     *)
(* echo service, the elections without a lock, and the listings of         *)
(* instances; for every value of the constants.                            *)
(***************************************************************************)
EXTENDS Delivery, Orders, Echo, HeartbeatElection, InstanceRecords,
        Integers, FiniteSetTheorems, TLAPS

-----------------------------------------------------------------------------
(* Delivery                                                                *)

Place == {"none", "stored", "out", "gone"}
Hand == {"idle", "running", "report", "acking"}

(* The assumptions on the bounds, one by one.                              *)
LEMMA Bounds == MaxCopies \in Nat /\ MaxCopies # 0 /\ MaxFaults \in Nat
BY DeliveryAssumption

(* The subscription has one copy in hand.                                  *)
OneInHand ==
  \A m, n \in Message, k, l \in Copy :
    hand[m][k] # "idle" /\ hand[n][l] # "idle" => m = n /\ k = l

(* A publication stores one copy at most, only a tracked command           *)
(* subscribes, and a send that ended without an error has unsubscribed.    *)
SenderFits(m) ==
  /\ copies[m] <= tries[m]
  /\ sender[m] \in {"idle", "publish"} => tries[m] < MaxCopies
  /\ open[m] # {} \/ sender[m] \in {"wait", "close"} => kind[m] = "tracked"
  /\ sender[m] \in {"done", "timeout"} => open[m] = {}

(* The copies are stored in their order; those the handler has run for are *)
(* known by their places, and so is what was said last.  A copy that was   *)
(* never overdue is held once at most, and only while the stream waits for *)
(* its acknowledgement.                                                    *)
AllGone(m) == copies[m] > 0 /\ \A k \in 1 .. copies[m] : copy[m][k] = "gone"
HeldOnce(m, k) ==
  /\ Underway(m, k) => copy[m][k] = "out"
  /\ inbound[m][k] > 0 => inbound[m][k] = 1 /\ hand[m][k] = "idle"
CopiesFit(m) ==
  /\ \A k \in Copy :
       /\ copy[m][k] = "none" <=> copies[m] < k
       /\ copy[m][k] = "none" => ~Underway(m, k)
       /\ hand[m][k] \in {"report", "acking"} \/ copy[m][k] = "gone" => finished[m] > 0
       /\ ~Event(m) /\ hand[m][k] \in {"report", "acking"} => completed[m] = "completed"
       /\ ~overdue[m] => HeldOnce(m, k)
  /\ told[m] => finished[m] > 0
  /\ ~Event(m) /\ ~overdue[m] /\ AllGone(m) => completed[m] = "completed"

DeliveryInv ==
  /\ DeliveryTypeOK /\ OneInHand
  /\ \A m \in Message : SenderFits(m) /\ CopiesFit(m)

(* The invariant holds at first.                                           *)
LEMMA InitFits == DeliveryInit => DeliveryInv
<1> SUFFICES ASSUME DeliveryInit PROVE DeliveryInv
  OBVIOUS
<1>1. DeliveryTypeOK
  BY Bounds DEF DeliveryInit, DeliveryTypeOK, Over
<1>2. OneInHand
  BY DEF DeliveryInit, OneInHand
<1>3. ASSUME NEW m \in Message PROVE SenderFits(m) /\ CopiesFit(m)
  <2>1. /\ sender[m] = "idle" /\ copies[m] = 0 /\ tries[m] = 0 /\ open[m] = {}
        /\ told[m] = FALSE
        /\ \A k \in Copy : copy[m][k] = "none" /\ inbound[m][k] = 0 /\ hand[m][k] = "idle"
    BY DEF DeliveryInit
  <2>2. SenderFits(m)
    BY <2>1, Bounds DEF SenderFits
  <2>3. CopiesFit(m)
    BY <2>1, Bounds DEF CopiesFit, AllGone, Copy, HeldOnce, Underway
  <2>4. QED
    BY <2>2, <2>3
<1>4. QED
  BY <1>1, <1>2, <1>3 DEF DeliveryInv

-----------------------------------------------------------------------------
(* A message none of whose parts moves stays as it is.                     *)
LEMMA CopiesStay ==
  ASSUME NEW m \in Message, CopiesFit(m),
         kind'[m] = kind[m], copies'[m] = copies[m], told'[m] = told[m],
         copy'[m] = copy[m], inbound'[m] = inbound[m], hand'[m] = hand[m],
         overdue'[m] = overdue[m],
         finished'[m] = finished[m], completed'[m] = completed[m]
  PROVE  CopiesFit(m)'
BY DEF CopiesFit, AllGone, Event, HeldOnce, Underway

LEMMA OthersStay ==
  ASSUME NEW m \in Message, SenderFits(m), CopiesFit(m),
         kind'[m] = kind[m], sender'[m] = sender[m], copies'[m] = copies[m],
         tries'[m] = tries[m], open'[m] = open[m], told'[m] = told[m],
         copy'[m] = copy[m], inbound'[m] = inbound[m], hand'[m] = hand[m],
         overdue'[m] = overdue[m],
         finished'[m] = finished[m], completed'[m] = completed[m]
  PROVE  SenderFits(m)' /\ CopiesFit(m)'
<1>1. SenderFits(m)'
  BY DEF SenderFits
<1>2. QED
  BY <1>1, CopiesStay

(* One value of a table of copies changes.                                 *)
LEMMA TableIs ==
  ASSUME NEW S, NEW f \in [Message -> [Copy -> S]], NEW g,
         NEW m \in Message, NEW k \in Copy, NEW v \in S,
         g = [f EXCEPT ![m][k] = v]
  PROVE  /\ g \in [Message -> [Copy -> S]]
         /\ g[m][k] = v
         /\ \A l \in Copy \ {k} : g[m][l] = f[m][l]
         /\ \A n \in Message \ {m} : g[n] = f[n]
<1>1. f[m] \in [Copy -> S]
  OBVIOUS
<1>2. g = [f EXCEPT ![m] = [f[m] EXCEPT ![k] = v]]
  BY <1>1
<1>3. QED
  BY <1>1, <1>2

-----------------------------------------------------------------------------
(* The sender.                                                             *)
LEMMA StoredFits ==
  ASSUME DeliveryInv, NEW m \in Message, tries[m] < MaxCopies, Stored(m),
         UNCHANGED <<kind, told, inbound, hand, overdue, finished, completed>>
  PROVE  /\ copy' \in [Message -> [Copy -> Place]]
         /\ copies' \in [Message -> 0 .. MaxCopies]
         /\ copies'[m] = copies[m] + 1
         /\ \A n \in Message \ {m} : copies'[n] = copies[n] /\ copy'[n] = copy[n]
         /\ CopiesFit(m)'
<1> DEFINE k == copies[m] + 1
<1>1. /\ DeliveryTypeOK /\ SenderFits(m) /\ CopiesFit(m)
      /\ copies \in [Message -> 0 .. MaxCopies] /\ tries[m] \in Nat /\ copies[m] \in Nat
      /\ finished[m] \in Nat /\ copy \in [Message -> [Copy -> Place]]
  BY Bounds DEF DeliveryInv, DeliveryTypeOK, Place
<1>2. k \in Copy /\ k \in 0 .. MaxCopies
  BY <1>1, Bounds DEF SenderFits, Copy
<1>3. /\ copies' = [copies EXCEPT ![m] = k] /\ copy' = [copy EXCEPT ![m][k] = "stored"]
      /\ "stored" \in Place
  BY DEF Stored, Place
<1>4. /\ copy' \in [Message -> [Copy -> Place]] /\ copy'[m][k] = "stored"
      /\ \A l \in Copy \ {k} : copy'[m][l] = copy[m][l]
      /\ \A n \in Message \ {m} : copy'[n] = copy[n]
  <2> HIDE DEF k
  <2>1. QED
    BY <1>1, <1>2, <1>3, TableIs
<1>5. /\ copies' \in [Message -> 0 .. MaxCopies] /\ copies'[m] = k
      /\ \A n \in Message \ {m} : copies'[n] = copies[n]
  BY <1>1, <1>2, <1>3
<1>6. CopiesFit(m)'
  <2>1. ASSUME NEW l \in Copy
        PROVE  /\ copy'[m][l] = "none" <=> copies'[m] < l
               /\ copy'[m][l] = "none" => ~Underway(m, l)'
               /\ hand'[m][l] \in {"report", "acking"} \/ copy'[m][l] = "gone"
                    => finished'[m] > 0
               /\ ~Event(m)' /\ hand'[m][l] \in {"report", "acking"}
                    => completed'[m] = "completed"
               /\ ~overdue'[m] => HeldOnce(m, l)'
    <3>1. l \in Nat
      BY Bounds DEF Copy
    <3>2. CASE l = k
      <4>1. copy[m][l] = "none" /\ ~Underway(m, l) /\ ~Underway(m, l)'
        BY <1>1, <1>2, <3>2 DEF CopiesFit, Underway
      <4>2. hand'[m][l] = "idle" /\ ~(inbound'[m][l] > 0)
        BY <4>1 DEF Underway
      <4>3. QED
        BY <1>1, <1>4, <1>5, <3>2, <4>1, <4>2 DEF HeldOnce
    <3>3. CASE l # k
      <4>1. copy'[m][l] = copy[m][l] /\ (copies'[m] < l <=> copies[m] < l)
        BY <1>1, <1>4, <1>5, <3>1, <3>3
      <4>2. QED
        BY <1>1, <4>1 DEF CopiesFit, Underway, HeldOnce, Event
    <3>4. QED
      BY <3>2, <3>3
  <2>2. ~AllGone(m)'
    BY <1>1, <1>4, <1>5 DEF AllGone
  <2>3. told'[m] => finished'[m] > 0
    BY <1>1 DEF CopiesFit
  <2>4. QED
    BY <2>1, <2>2, <2>3 DEF CopiesFit
<1>7. QED
  BY <1>4, <1>5, <1>6

(* A sender that goes on.                                                  *)
LEMMA SenderIs ==
  ASSUME DeliveryTypeOK, NEW m \in Message, NEW from, 
         NEW to \in {"idle", "publish", "wait", "close"} \cup Over, SenderAt(m, from, to)
  PROVE  /\ sender' \in [Message -> {"idle", "publish", "wait", "close"} \cup Over]
         /\ sender[m] = from /\ sender'[m] = to
         /\ \A n \in Message \ {m} : sender'[n] = sender[n]
BY DEF DeliveryTypeOK, SenderAt

(* The bound on faults is kept.                                            *)
LEMMA FaultsStay ==
  ASSUME DeliveryTypeOK, Works \/ Fails
  PROVE  faults' \in 0 .. MaxFaults
BY Bounds DEF DeliveryTypeOK, Works, Fails

(* A message is published.                                                 *)
LEMMA PublishStays ==
  ASSUME DeliveryInv, NEW m \in Message, Publish(m), UNCHANGED <<kind, wildcard>>
  PROVE  DeliveryInv'
<1>1. /\ DeliveryTypeOK /\ OneInHand /\ \A n \in Message : SenderFits(n) /\ CopiesFit(n)
      /\ UNCHANGED <<open, told, inbound, hand, overdue, finished, completed>>
      /\ tries \in [Message -> 0 .. MaxCopies] /\ tries[m] \in Nat /\ copies[m] \in Nat
      /\ copies \in [Message -> 0 .. MaxCopies]
  BY Bounds DEF DeliveryInv, Publish, DeliveryTypeOK
<1>2. PICK to \in {"publish", "wait", "done", "failed"} :
        /\ SenderAt(m, "publish", to)
        /\ to = "publish" => tries[m] + 1 < MaxCopies
        /\ to = "done" <=> kind[m] # "tracked" /\ to \in {"done", "wait"}
  <2>1. CASE Acknowledged(m)
    BY <2>1 DEF Acknowledged, After
  <2>2. CASE EmptyReply(m)
    <3>1. CASE tries[m] + 1 < MaxCopies
      BY <2>2, <3>1 DEF EmptyReply
    <3>2. CASE ~(tries[m] + 1 < MaxCopies)
      BY <2>2, <3>2 DEF EmptyReply
    <3>3. QED
      BY <3>1, <3>2
  <2>3. CASE PublishRaises(m)
    BY <2>3 DEF PublishRaises
  <2>4. QED
    BY <2>1, <2>2, <2>3 DEF Publish
<1>3. to \in {"idle", "publish", "wait", "close"} \cup Over
  BY DEF Over
<1>4. /\ sender' \in [Message -> {"idle", "publish", "wait", "close"} \cup Over]
      /\ sender[m] = "publish" /\ sender'[m] = to
      /\ \A n \in Message \ {m} : sender'[n] = sender[n]
  BY <1>1, <1>2, <1>3, SenderIs
<1>5. tries[m] < MaxCopies
  BY <1>1, <1>4 DEF SenderFits
<1>6. tries[m] + 1 \in 0 .. MaxCopies
  BY <1>1, <1>5, Bounds
<1>7. /\ tries' \in [Message -> 0 .. MaxCopies] /\ tries'[m] = tries[m] + 1
      /\ \A n \in Message \ {m} : tries'[n] = tries[n]
  BY <1>1, <1>6 DEF Publish
<1>8. faults' \in 0 .. MaxFaults
  <2>1. Works \/ Fails
    BY DEF Publish, Acknowledged, EmptyReply, PublishRaises
  <2>2. QED
    BY <1>1, <2>1, FaultsStay
<1>9. /\ copy' \in [Message -> [Copy -> Place]]
      /\ copies' \in [Message -> 0 .. MaxCopies]
      /\ copies'[m] \in {copies[m], copies[m] + 1}
      /\ \A n \in Message \ {m} : copies'[n] = copies[n] /\ copy'[n] = copy[n]
      /\ CopiesFit(m)'
  <2>1. CASE Stored(m)
    BY <1>1, <1>5, <2>1, StoredFits
  <2>2. CASE UNCHANGED <<copies, copy>>
    <3>1. CopiesFit(m)'
      BY <1>1, <2>2, CopiesStay
    <3>2. QED
      BY <1>1, <2>2, <3>1 DEF DeliveryTypeOK, Place
  <2>3. QED
    BY <2>1, <2>2 DEF Publish, Acknowledged, EmptyReply, PublishRaises
<1>10. DeliveryTypeOK'
  BY <1>1, <1>4, <1>7, <1>8, <1>9 DEF DeliveryTypeOK, Place
<1>11. SenderFits(m)'
  <2>1. copies'[m] <= tries'[m]
    BY <1>1, <1>7, <1>9 DEF SenderFits
  <2>2. sender'[m] \in {"idle", "publish"} => tries'[m] < MaxCopies
    BY <1>2, <1>4, <1>7
  <2>3. open'[m] # {} \/ sender'[m] \in {"wait", "close"} => kind'[m] = "tracked"
    BY <1>1, <1>2, <1>4 DEF SenderFits
  <2>4. sender'[m] \in {"done", "timeout"} => open'[m] = {}
    BY <1>1, <1>2, <1>4 DEF SenderFits
  <2>5. QED
    BY <2>1, <2>2, <2>3, <2>4 DEF SenderFits
<1>12. ASSUME NEW n \in Message, n # m PROVE SenderFits(n)' /\ CopiesFit(n)'
  BY <1>1, <1>4, <1>7, <1>9, <1>12, OthersStay
<1>13. OneInHand'
  BY <1>1 DEF OneInHand
<1>14. QED
  BY <1>9, <1>10, <1>11, <1>12, <1>13 DEF DeliveryInv

(* The steps of the sender that publish nothing.                           *)
LEMMA QuietStays ==
  ASSUME DeliveryInv, NEW m \in Message, NEW from, NEW to \in {"publish", "close"} \cup Over,
         SenderAt(m, from, to),
         NEW o \in SUBSET {"progress", "completion"}, open' = [open EXCEPT ![m] = o],
         to = "publish" => from = "idle",
         o # {} \/ to = "close" => kind[m] = "tracked",
         to \in {"done", "timeout"} => o = {},
         UNCHANGED <<kind, wildcard, copies, tries, told, copy, inbound, hand, overdue,
                   finished, completed>>,
         Works \/ Fails
  PROVE  DeliveryInv'
<1>1. /\ DeliveryTypeOK /\ OneInHand /\ \A n \in Message : SenderFits(n) /\ CopiesFit(n)
      /\ open \in [Message -> SUBSET {"progress", "completion"}]
  BY DEF DeliveryInv, DeliveryTypeOK
<1>2. to \in {"idle", "publish", "wait", "close"} \cup Over
  OBVIOUS
<1>3. /\ sender' \in [Message -> {"idle", "publish", "wait", "close"} \cup Over]
      /\ sender[m] = from /\ sender'[m] = to
      /\ \A n \in Message \ {m} : sender'[n] = sender[n]
  BY <1>1, <1>2, SenderIs
<1>4. /\ open' \in [Message -> SUBSET {"progress", "completion"}] /\ open'[m] = o
      /\ \A n \in Message \ {m} : open'[n] = open[n]
  BY <1>1
<1>5. faults' \in 0 .. MaxFaults
  BY <1>1, FaultsStay
<1>6. DeliveryTypeOK'
  BY <1>1, <1>3, <1>4, <1>5 DEF DeliveryTypeOK
<1>7. OneInHand'
  BY <1>1 DEF OneInHand
<1>8. CopiesFit(m)'
  BY <1>1, CopiesStay
<1>9. SenderFits(m)'
  <2>1. /\ to \in {"idle", "publish"} => to = "publish"
        /\ to \in {"wait", "close"} => to = "close"
    BY DEF Over
  <2>2. QED
    BY <1>1, <1>3, <1>4, <2>1 DEF SenderFits
<1>10. ASSUME NEW n \in Message, n # m PROVE SenderFits(n)' /\ CopiesFit(n)'
  BY <1>1, <1>3, <1>4, <1>10, OthersStay
<1>11. QED
  BY <1>6, <1>7, <1>8, <1>9, <1>10 DEF DeliveryInv

(* A call, or the sending of a message, begins.                            *)
LEMMA BeginStays ==
  ASSUME DeliveryInv, NEW m \in Message, SendMessage(m)
  PROVE  DeliveryInv'
<1>1. UNCHANGED <<kind, wildcard, copies, tries, told, copy, inbound, hand, overdue,
                   finished, completed>>
  BY DEF SendMessage, BeginSend, handleVars
<1>2. open \in [Message -> SUBSET {"progress", "completion"}]
  BY DEF DeliveryInv, DeliveryTypeOK
<1>3. CASE Works /\ SenderAt(m, "idle", "publish") /\ kind[m] = "tracked"
           /\ open' = [open EXCEPT ![m] = {"progress", "completion"}]
  BY <1>1, <1>3, QuietStays
<1>4. CASE Works /\ SenderAt(m, "idle", "publish") /\ open' = open
  <2>1. open' = [open EXCEPT ![m] = open[m]] /\ open[m] \in SUBSET {"progress", "completion"}
    BY <1>2, <1>4
  <2>2. open[m] # {} => kind[m] = "tracked"
    BY DEF DeliveryInv, SenderFits
  <2>3. QED
    BY <1>1, <1>4, <2>1, <2>2, QuietStays
<1>5. CASE /\ Fails /\ kind[m] = "tracked" /\ SenderAt(m, "idle", "failed")
           /\ \E s \in {{}, {"progress"}} : open' = [open EXCEPT ![m] = s]
  <2>1. PICK s \in {{}, {"progress"}} : open' = [open EXCEPT ![m] = s]
    BY <1>5
  <2>2. /\ s \in SUBSET {"progress", "completion"}
        /\ "failed" \in {"publish", "close"} \cup Over
        /\ "failed" \notin {"done", "timeout", "publish"}
    BY <2>1 DEF Over
  <2>3. QED
    <3>1. SenderAt(m, "idle", "failed") /\ kind[m] = "tracked" /\ (Works \/ Fails)
      BY <1>5
    <3>2. QED
      BY <1>1, <2>1, <2>2, <3>1, QuietStays
<1>6. QED
  BY <1>3, <1>4, <1>5 DEF SendMessage, BeginSend

(* The sender waits no longer.                                             *)
LEMMA StopStays ==
  ASSUME DeliveryInv, NEW m \in Message, StopWaiting(m), UNCHANGED <<kind, wildcard>>
  PROVE  DeliveryInv'
<1>1. UNCHANGED <<copies, tries, open, told, copy, inbound, hand, overdue,
                  finished, completed>>
      /\ SenderAt(m, "wait", "close") /\ (Works \/ Fails)
  BY DEF StopWaiting, handleVars
<1>2. open \in [Message -> SUBSET {"progress", "completion"}]
  BY DEF DeliveryInv, DeliveryTypeOK
<1>3. open' = [open EXCEPT ![m] = open[m]] /\ open[m] \in SUBSET {"progress", "completion"}
  BY <1>1, <1>2
<1>4. kind[m] = "tracked"
  BY <1>1 DEF DeliveryInv, SenderFits, SenderAt
<1>5. "close" \notin {"done", "timeout"} /\ "close" # "publish"
  OBVIOUS
<1>6. QED
  BY <1>1, <1>3, <1>4, <1>5, QuietStays

(* The sender closes its subscriptions.                                    *)
LEMMA CloseStays ==
  ASSUME DeliveryInv, NEW m \in Message, CloseSubscriptions(m), UNCHANGED <<kind, wildcard>>
  PROVE  DeliveryInv'
<1>1. /\ UNCHANGED <<copies, tries, told, copy, inbound, hand, overdue,
                   finished, completed>>
      /\ kind[m] = "tracked"
  BY DEF CloseSubscriptions, handleVars, SenderAt, DeliveryInv, SenderFits
<1>2. CASE /\ Works /\ SenderAt(m, "close", IF told[m] THEN "done" ELSE "timeout")
           /\ open' = [open EXCEPT ![m] = {}]
  <2>1. (IF told[m] THEN "done" ELSE "timeout") \in Over
        /\ (IF told[m] THEN "done" ELSE "timeout") # "publish"
    BY DEF Over
  <2>2. QED
    BY <1>1, <1>2, <2>1, QuietStays
<1>3. CASE /\ Fails /\ SenderAt(m, "close", "failed")
           /\ \E s \in {{"completion"}, {"progress", "completion"}} :
                open' = [open EXCEPT ![m] = s]
  <2>1. PICK s \in {{"completion"}, {"progress", "completion"}} :
               open' = [open EXCEPT ![m] = s]
    BY <1>3
  <2>2. /\ s \in SUBSET {"progress", "completion"}
        /\ "failed" \in {"publish", "close"} \cup Over
        /\ "failed" \notin {"done", "timeout", "publish"}
    BY <2>1 DEF Over
  <2>3. QED
    <3>1. SenderAt(m, "close", "failed") /\ (Works \/ Fails)
      BY <1>3
    <3>2. QED
      BY <1>1, <2>1, <2>2, <3>1, QuietStays
<1>4. QED
  BY <1>2, <1>3 DEF CloseSubscriptions

-----------------------------------------------------------------------------
(* The stream and the subscription: one copy moves, at the stream and in   *)
(* hand, and no other one is in hand, so that what the handler says of its *)
(* command is what was said last.                                          *)
LEMMA HandleStays ==
  ASSUME DeliveryInv, NEW m \in Message, NEW k \in Copy,
         NEW kept \in Place \ {"none"}, NEW w \in Nat, NEW doing \in Hand,
         copy[m][k] # "none", hand[m][k] # "idle" \/ ~Busy \/ doing = "idle",
         copy' = [copy EXCEPT ![m][k] = kept],
         inbound' = [inbound EXCEPT ![m][k] = w],
         hand' = [hand EXCEPT ![m][k] = doing],
         overdue' \in [Message -> BOOLEAN], overdue[m] => overdue'[m],
         \A o \in Message \ {m} : overdue'[o] = overdue[o],
         ~overdue'[m] /\ (w > 0 \/ doing # "idle") => kept = "out",
         ~overdue'[m] /\ w > 0 => w = 1 /\ doing = "idle",
         finished' \in [Message -> Nat], finished'[m] >= finished[m],
         \A o \in Message \ {m} : finished'[o] = finished[o],
         completed' \in [Message -> {"nothing", "completed", "failed"}],
         \A o \in Message \ {m} : completed'[o] = completed[o],
         completed' = completed \/ hand[m][k] # "idle",
         told' \in [Message -> BOOLEAN],
         \A o \in Message \ {m} : told'[o] = told[o],
         doing \in {"report", "acking"} \/ kept = "gone" => finished'[m] > 0,
         ~Event(m) /\ doing \in {"report", "acking"} => completed'[m] = "completed",
         ~Event(m) /\ ~overdue'[m] /\ kept = "gone" => completed'[m] = "completed",
         told'[m] => finished'[m] > 0,
         UNCHANGED <<kind, wildcard, sender, copies, tries, open>>, Works \/ Fails
  PROVE  DeliveryInv'
<1>1. /\ DeliveryTypeOK /\ OneInHand /\ \A o \in Message : SenderFits(o) /\ CopiesFit(o)
      /\ copies[m] \in Nat /\ finished[m] \in Nat /\ finished'[m] \in Nat
      /\ copy \in [Message -> [Copy -> Place]] /\ hand \in [Message -> [Copy -> Hand]]
      /\ inbound \in [Message -> [Copy -> Nat]]
  <2>1. /\ DeliveryTypeOK /\ OneInHand /\ \A o \in Message : SenderFits(o) /\ CopiesFit(o)
    BY DEF DeliveryInv
  <2>2. copies \in [Message -> 0 .. MaxCopies] /\ finished \in [Message -> Nat]
    BY <2>1 DEF DeliveryTypeOK
  <2>3. copies[m] \in Nat /\ finished[m] \in Nat /\ finished'[m] \in Nat
    BY <2>2, Bounds
  <2>4. /\ copy \in [Message -> [Copy -> Place]] /\ hand \in [Message -> [Copy -> Hand]]
        /\ inbound \in [Message -> [Copy -> Nat]]
    BY <2>1 DEF DeliveryTypeOK, Place, Hand
  <2>5. QED
    BY <2>1, <2>3, <2>4
<1>2. /\ copy' \in [Message -> [Copy -> Place]] /\ copy'[m][k] = kept
      /\ \A l \in Copy \ {k} : copy'[m][l] = copy[m][l]
      /\ \A o \in Message \ {m} : copy'[o] = copy[o]
  <2>1. kept \in Place
    OBVIOUS
  <2>2. QED
    BY <1>1, <2>1, TableIs, SMTT(60)
<1>3. /\ inbound' \in [Message -> [Copy -> Nat]] /\ inbound'[m][k] = w
      /\ \A l \in Copy \ {k} : inbound'[m][l] = inbound[m][l]
      /\ \A o \in Message \ {m} : inbound'[o] = inbound[o]
  BY <1>1, TableIs, SMTT(60)
<1>4. /\ hand' \in [Message -> [Copy -> Hand]] /\ hand'[m][k] = doing
      /\ \A l \in Copy \ {k} : hand'[m][l] = hand[m][l]
      /\ \A o \in Message \ {m} : hand'[o] = hand[o]
  BY <1>1, TableIs, SMTT(60)
<1>5. OneInHand'
  <2>1. SUFFICES ASSUME NEW o \in Message, NEW p \in Message,
                        NEW l \in Copy, NEW j \in Copy,
                        hand'[o][l] # "idle", hand'[p][j] # "idle"
                 PROVE  o = p /\ l = j
    BY DEF OneInHand
  <2>2. \A q \in Message, i \in Copy : q # m \/ i # k => hand'[q][i] = hand[q][i]
    BY <1>4
  <2>3. CASE doing = "idle"
    BY <1>1, <1>4, <2>1, <2>2, <2>3 DEF OneInHand
  <2>4. CASE hand[m][k] # "idle"
    BY <1>1, <1>4, <2>1, <2>2, <2>4 DEF OneInHand
  <2>5. CASE ~Busy
    BY <1>4, <2>1, <2>2, <2>5 DEF Busy
  <2>6. QED
    BY <2>3, <2>4, <2>5
<1>6. hand[m][k] # "idle" => \A l \in Copy \ {k} : hand[m][l] = "idle"
  BY <1>1 DEF OneInHand
<1>7. CopiesFit(m)'
  <2>1. ASSUME NEW l \in Copy
        PROVE  /\ copy'[m][l] = "none" <=> copies'[m] < l
               /\ copy'[m][l] = "none" => ~Underway(m, l)'
               /\ hand'[m][l] \in {"report", "acking"} \/ copy'[m][l] = "gone"
                    => finished'[m] > 0
               /\ ~Event(m)' /\ hand'[m][l] \in {"report", "acking"}
                    => completed'[m] = "completed"
               /\ ~overdue'[m] => HeldOnce(m, l)'
    <3>1. CASE l = k
      <4>1. copy'[m][l] # "none" /\ ~(copies'[m] < l)
        BY <1>1, <1>2, <3>1 DEF CopiesFit
      <4>2. ~overdue'[m] => HeldOnce(m, l)'
        BY <1>2, <1>3, <1>4, <3>1 DEF HeldOnce, Underway
      <4>3. QED
        BY <1>2, <1>4, <3>1, <4>1, <4>2 DEF Event
    <3>2. CASE l # k
      <4>1. /\ copy'[m][l] = copy[m][l] /\ hand'[m][l] = hand[m][l]
            /\ inbound'[m][l] = inbound[m][l]
        BY <1>2, <1>3, <1>4, <3>2
      <4>2. hand[m][l] # "idle" => completed' = completed
        BY <1>6, <3>2
      <4>3. ~overdue'[m] => HeldOnce(m, l)'
        BY <1>1, <4>1 DEF CopiesFit, HeldOnce, Underway
      <4>4. hand'[m][l] \in {"report", "acking"} \/ copy'[m][l] = "gone" => finished'[m] > 0
        BY <1>1, <4>1 DEF CopiesFit
      <4>5. ~Event(m)' /\ hand'[m][l] \in {"report", "acking"} => completed'[m] = "completed"
        BY <1>1, <4>1, <4>2 DEF CopiesFit, Event
      <4>6. (copy'[m][l] = "none" <=> copies'[m] < l) /\ (copy'[m][l] = "none" => ~Underway(m, l)')
        BY <1>1, <4>1 DEF CopiesFit, Underway
      <4>7. QED
        BY <4>3, <4>4, <4>5, <4>6
    <3>3. QED
      BY <3>1, <3>2
  <2>2. ~Event(m)' /\ ~overdue'[m] /\ AllGone(m)' => completed'[m] = "completed"
    <3>1. k \in 1 .. copies[m]
      BY <1>1, Bounds DEF CopiesFit, Copy
    <3>2. QED
      BY <1>2, <3>1 DEF AllGone, Event
  <2>3. QED
    BY <2>1, <2>2 DEF CopiesFit
<1>8. faults' \in 0 .. MaxFaults
  BY <1>1, FaultsStay
<1>9. DeliveryTypeOK'
  BY <1>1, <1>2, <1>3, <1>4, <1>8 DEF DeliveryTypeOK, Place, Hand
<1>10. SenderFits(m)'
  BY <1>1 DEF SenderFits
<1>11. ASSUME NEW o \in Message, o # m PROVE SenderFits(o)' /\ CopiesFit(o)'
  BY <1>1, <1>2, <1>3, <1>4, <1>11, OthersStay
<1>12. QED
  BY <1>5, <1>7, <1>9, <1>10, <1>11 DEF DeliveryInv

(* What the invariant says of one copy.                                    *)
LEMMA CopyFits ==
  ASSUME DeliveryInv, NEW m \in Message, NEW k \in Copy
  PROVE  /\ copy \in [Message -> [Copy -> Place]] /\ copy[m][k] \in Place
         /\ inbound \in [Message -> [Copy -> Nat]] /\ inbound[m][k] \in Nat
         /\ hand \in [Message -> [Copy -> Hand]] /\ hand[m][k] \in Hand
         /\ overdue \in [Message -> BOOLEAN]
         /\ finished \in [Message -> Nat] /\ finished[m] \in Nat
         /\ completed \in [Message -> {"nothing", "completed", "failed"}]
         /\ told \in [Message -> BOOLEAN]
         /\ told[m] => finished[m] > 0
         /\ copy[m][k] = "none" => ~Underway(m, k)
         /\ hand[m][k] \in {"report", "acking"} \/ copy[m][k] = "gone" => finished[m] > 0
         /\ ~Event(m) /\ hand[m][k] \in {"report", "acking"} => completed[m] = "completed"
         /\ ~overdue[m] => HeldOnce(m, k)
         /\ copy = [copy EXCEPT ![m][k] = copy[m][k]]
         /\ inbound = [inbound EXCEPT ![m][k] = inbound[m][k]]
         /\ hand = [hand EXCEPT ![m][k] = hand[m][k]]
<1>1. /\ copy \in [Message -> [Copy -> Place]] /\ inbound \in [Message -> [Copy -> Nat]]
      /\ hand \in [Message -> [Copy -> Hand]] /\ overdue \in [Message -> BOOLEAN]
      /\ finished \in [Message -> Nat] /\ told \in [Message -> BOOLEAN]
      /\ completed \in [Message -> {"nothing", "completed", "failed"}]
  BY DEF DeliveryInv, DeliveryTypeOK, Place, Hand
<1>2. CopiesFit(m)
  BY DEF DeliveryInv
<1>3. /\ copy = [copy EXCEPT ![m][k] = copy[m][k]]
      /\ inbound = [inbound EXCEPT ![m][k] = inbound[m][k]]
      /\ hand = [hand EXCEPT ![m][k] = hand[m][k]]
  BY <1>1
<1>4. QED
  BY <1>1, <1>2, <1>3 DEF CopiesFit

(* The stream delivers, once or once more, and the subscription takes.     *)
LEMMA StreamStays ==
  ASSUME DeliveryInv, NEW m \in Message, NEW k \in Copy,
         Deliver(m, k) \/ AckWaitPasses(m, k) \/ TakeCopy(m, k),
         UNCHANGED <<kind, wildcard, sender, copies, tries, open>>
  PROVE  DeliveryInv'
<1>1. /\ UNCHANGED <<finished, completed, told>> /\ (Works \/ Fails)
      /\ finished[m] >= finished[m]
      /\ \A o \in Message \ {m} : finished'[o] = finished[o] /\ completed'[o] = completed[o]
                                  /\ told'[o] = told[o]
  BY CopyFits DEF Deliver, AckWaitPasses, TakeCopy
<1>2. {"stored", "out", "gone"} \subseteq Place \ {"none"} /\ {"idle", "running"} \subseteq Hand
  BY DEF Place, Hand
<1>3. CASE Deliver(m, k)
  <2>1. /\ copy[m][k] = "stored" /\ copy' = [copy EXCEPT ![m][k] = "out"]
        /\ inbound' = [inbound EXCEPT ![m][k] = inbound[m][k] + 1]
        /\ hand' = [hand EXCEPT ![m][k] = hand[m][k]] /\ overdue' = overdue
    BY <1>3, CopyFits DEF Deliver, CopyAt
  <2>2. ~overdue[m] => inbound[m][k] = 0 /\ hand[m][k] = "idle"
    BY <2>1, CopyFits DEF HeldOnce, Underway
  <2>3. /\ inbound[m][k] + 1 \in Nat /\ hand[m][k] \in Hand
        /\ hand[m][k] # "idle" \/ ~Busy \/ hand[m][k] = "idle"
        /\ ~overdue'[m] /\ (inbound[m][k] + 1 > 0 \/ hand[m][k] # "idle") => "out" = "out"
        /\ ~overdue'[m] /\ inbound[m][k] + 1 > 0 =>
             inbound[m][k] + 1 = 1 /\ hand[m][k] = "idle"
    BY <2>1, <2>2, CopyFits
  <2>4. QED
    BY <1>1, <1>2, <2>1, <2>3, CopyFits, HandleStays
<1>4. CASE AckWaitPasses(m, k)
  <2>1. /\ copy[m][k] = "out" /\ copy' = [copy EXCEPT ![m][k] = "stored"]
        /\ inbound' = [inbound EXCEPT ![m][k] = inbound[m][k]]
        /\ hand' = [hand EXCEPT ![m][k] = hand[m][k]]
    BY <1>4, CopyFits DEF AckWaitPasses, CopyAt
  <2>2. /\ overdue' \in [Message -> BOOLEAN] /\ (overdue[m] => overdue'[m])
        /\ \A o \in Message \ {m} : overdue'[o] = overdue[o]
        /\ ~overdue'[m] => ~Underway(m, k)
    <3>1. CASE overdue' = [overdue EXCEPT ![m] = TRUE]
      BY <3>1, CopyFits
    <3>2. CASE ~Underway(m, k) /\ overdue' = overdue
      BY <3>2, CopyFits
    <3>3. QED
      BY <1>4, <3>1, <3>2 DEF AckWaitPasses
  <2>3. /\ ~overdue'[m] => ~(inbound[m][k] > 0) /\ hand[m][k] = "idle"
        /\ hand[m][k] # "idle" \/ ~Busy \/ hand[m][k] = "idle"
    BY <2>2 DEF Underway
  <2>4. QED
    BY <1>1, <1>2, <2>1, <2>2, <2>3, CopyFits, HandleStays
<1>5. CASE TakeCopy(m, k)
  <2>1. /\ ~Busy /\ inbound[m][k] > 0 /\ hand[m][k] = "idle"
        /\ inbound' = [inbound EXCEPT ![m][k] = inbound[m][k] - 1]
        /\ hand' = [hand EXCEPT ![m][k] = "running"]
        /\ copy' = [copy EXCEPT ![m][k] = copy[m][k]] /\ overdue' = overdue
    BY <1>5, CopyFits DEF TakeCopy, HandAt
  <2>2. /\ inbound[m][k] - 1 \in Nat /\ copy[m][k] \in Place \ {"none"}
        /\ ~overdue[m] => copy[m][k] = "out" /\ inbound[m][k] - 1 = 0
    BY <2>1, CopyFits DEF HeldOnce, Underway
  <2>3. ~Event(m) /\ ~overdue'[m] /\ copy[m][k] = "gone" => completed'[m] = "completed"
    BY <2>1, <2>2
  <2>4. ~(0 > 0) /\ "running" \notin {"report", "acking"}
    OBVIOUS
  <2>5. QED
    BY <1>1, <1>2, <2>1, <2>2, <2>3, <2>4, CopyFits, HandleStays
<1>6. QED
  BY <1>3, <1>4, <1>5

(* The handler is done with a copy, or goes on with it.                    *)
LEMMA RunStays ==
  ASSUME DeliveryInv, NEW m \in Message, NEW k \in Copy, hand[m][k] # "idle",
         NEW doing \in Hand, hand' = [hand EXCEPT ![m][k] = doing],
         \/ copy' = copy
         \/ copy[m][k] = "out" /\ doing = "idle" /\ copy' = [copy EXCEPT ![m][k] = "stored"]
         \/ doing = "idle" /\ finished[m] > 0 /\ (Event(m) \/ completed'[m] = "completed")
              /\ copy' = [copy EXCEPT ![m][k] = "gone"],
         UNCHANGED <<inbound, overdue>>,
         finished' \in [Message -> Nat], finished'[m] >= finished[m],
         \A o \in Message \ {m} : finished'[o] = finished[o],
         completed' \in [Message -> {"nothing", "completed", "failed"}],
         \A o \in Message \ {m} : completed'[o] = completed[o],
         told' \in [Message -> BOOLEAN],
         \A o \in Message \ {m} : told'[o] = told[o],
         doing \in {"report", "acking"} => finished'[m] > 0,
         ~Event(m) /\ doing \in {"report", "acking"} => completed'[m] = "completed",
         told'[m] => finished'[m] > 0,
         UNCHANGED <<kind, wildcard, sender, copies, tries, open>>, Works \/ Fails
  PROVE  DeliveryInv'
<1>1. /\ copy[m][k] \in Place \ {"none"} /\ inbound[m][k] \in Nat
      /\ ~overdue[m] => copy[m][k] = "out" /\ ~(inbound[m][k] > 0)
      /\ inbound' = [inbound EXCEPT ![m][k] = inbound[m][k]]
      /\ overdue' \in [Message -> BOOLEAN] /\ finished[m] \in Nat /\ finished'[m] \in Nat
  <2>1. Underway(m, k) /\ copy[m][k] # "none"
    BY CopyFits DEF Underway
  <2>2. ~overdue[m] => copy[m][k] = "out" /\ ~(inbound[m][k] > 0)
    BY <2>1, CopyFits DEF HeldOnce
  <2>3. QED
    BY <2>1, <2>2, CopyFits
<1>2. copy[m][k] = "gone" => finished'[m] > 0 /\ overdue'[m]
  <2>1. ASSUME copy[m][k] = "gone" PROVE finished'[m] > 0
    <3>1. finished[m] > 0
      BY <2>1, CopyFits
    <3>2. QED
      BY <1>1, <3>1
  <2>2. ASSUME copy[m][k] = "gone" PROVE overdue[m]
    <3>1. "gone" # "out"
      OBVIOUS
    <3>2. QED
      BY <1>1, <2>2, <3>1
  <2>3. overdue' = overdue
    OBVIOUS
  <2>4. QED
    BY <2>1, <2>2, <2>3
<1>3. CASE copy' = copy
  <2>1. copy' = [copy EXCEPT ![m][k] = copy[m][k]]
    BY <1>3, CopyFits
  <2>2. ~overdue'[m] /\ (inbound[m][k] > 0 \/ doing # "idle") => copy[m][k] = "out"
    BY <1>1
  <2>3. QED
    BY <1>1, <1>2, <2>1, <2>2, HandleStays
<1>4. CASE copy[m][k] = "out" /\ doing = "idle" /\ copy' = [copy EXCEPT ![m][k] = "stored"]
  <2>1. "stored" \in Place \ {"none"} /\ "stored" # "gone"
    BY DEF Place
  <2>2. ~overdue'[m] => ~(inbound[m][k] > 0 \/ doing # "idle")
    BY <1>1, <1>4
  <2>3. QED
    BY <1>1, <1>4, <2>1, <2>2, HandleStays
<1>5. CASE doing = "idle" /\ finished[m] > 0 /\ (Event(m) \/ completed'[m] = "completed")
             /\ copy' = [copy EXCEPT ![m][k] = "gone"]
  <2>1. "gone" \in Place \ {"none"} /\ finished'[m] > 0
    BY <1>1, <1>5 DEF Place
  <2>2. ~overdue'[m] => ~(inbound[m][k] > 0 \/ doing # "idle")
    BY <1>1, <1>5
  <2>3. QED
    BY <1>1, <1>5, <2>1, <2>2, HandleStays
<1>6. QED
  BY <1>3, <1>4, <1>5

(* The handler runs, reports or acknowledges.                              *)
LEMMA HandlerStays ==
  ASSUME DeliveryInv, NEW m \in Message, NEW k \in Copy, HandlerStep(m, k)
  PROVE  DeliveryInv'
<1>1. /\ finished \in [Message -> Nat] /\ finished[m] \in Nat
      /\ completed \in [Message -> {"nothing", "completed", "failed"}]
      /\ told \in [Message -> BOOLEAN] /\ (told[m] => finished[m] > 0)
      /\ hand[m][k] \in {"report", "acking"} => finished[m] > 0
      /\ ~Event(m) /\ hand[m][k] \in {"report", "acking"} => completed[m] = "completed"
      /\ UNCHANGED <<kind, wildcard, sender, copies, tries, open>>
      /\ {"idle", "report", "acking"} \subseteq Hand
  BY CopyFits DEF HandlerStep, Hand
<1>2. CASE Deliver(m, k) \/ AckWaitPasses(m, k) \/ TakeCopy(m, k)
  BY <1>1, <1>2, StreamStays
<1>3. CASE HandlerRuns(m, k) /\ UNCHANGED <<inbound, overdue>>
  <2>1. hand[m][k] = "running" /\ hand[m][k] # "idle" /\ UNCHANGED told
    BY <1>3 DEF HandlerRuns, HandAt, Refused
  <2>2. ASSUME finished' \in {finished, [finished EXCEPT ![m] = @ + 1]}
        PROVE  /\ finished' \in [Message -> Nat] /\ finished'[m] >= finished[m]
               /\ \A o \in Message \ {m} : finished'[o] = finished[o]
               /\ told'[m] => finished'[m] > 0
    BY <1>1, <2>1, <2>2
  <2>3. ASSUME NEW said \in {"completed", "failed"},
               Says(m, said) \/ UNCHANGED completed
        PROVE  /\ completed' \in [Message -> {"nothing", "completed", "failed"}]
               /\ \A o \in Message \ {m} : completed'[o] = completed[o]
    <3>1. CASE Event(m) \/ UNCHANGED completed
      BY <1>1, <2>3, <3>1 DEF Says
    <3>2. CASE ~Event(m) /\ completed' = [completed EXCEPT ![m] = said]
      BY <1>1, <3>2
    <3>3. QED
      BY <2>3, <3>1, <3>2 DEF Says
  <2>4. told' \in [Message -> BOOLEAN] /\ \A o \in Message \ {m} : told'[o] = told[o]
    BY <1>1, <2>1
  <2>5. CASE /\ Works /\ finished' = [finished EXCEPT ![m] = @ + 1]
             /\ HandAt(m, k, "running", IF Event(m) THEN "acking" ELSE "report")
             /\ Says(m, "completed") /\ UNCHANGED copy
    <3>1. /\ finished' \in [Message -> Nat] /\ finished'[m] >= finished[m]
          /\ \A o \in Message \ {m} : finished'[o] = finished[o]
          /\ told'[m] => finished'[m] > 0
      BY <2>2, <2>5
    <3>2. finished'[m] > 0
      BY <1>1, <2>5
    <3>3. /\ completed' \in [Message -> {"nothing", "completed", "failed"}]
          /\ \A o \in Message \ {m} : completed'[o] = completed[o]
      BY <2>3, <2>5
    <3>4. ~Event(m) => completed'[m] = "completed"
      BY <1>1, <2>5 DEF Says
    <3>5. PICK doing \in {"acking", "report"} : hand' = [hand EXCEPT ![m][k] = doing]
      BY <2>5 DEF HandAt
    <3>6. doing \in Hand /\ copy' = copy /\ (Works \/ Fails) /\ UNCHANGED <<inbound, overdue>>
      BY <1>1, <1>3, <2>5
    <3>7. QED
      BY <1>1, <2>1, <2>4, <3>1, <3>2, <3>3, <3>4, <3>5, <3>6, RunStays
  <2>6. CASE /\ Fails /\ Refused(m, k, "running")
             /\ finished' = [finished EXCEPT ![m] = @ + 1] \/ UNCHANGED finished
             /\ Says(m, "failed") \/ UNCHANGED completed
    <3>1. /\ finished' \in [Message -> Nat] /\ finished'[m] >= finished[m]
          /\ \A o \in Message \ {m} : finished'[o] = finished[o]
          /\ told'[m] => finished'[m] > 0
      BY <2>2, <2>6
    <3>2. /\ completed' \in [Message -> {"nothing", "completed", "failed"}]
          /\ \A o \in Message \ {m} : completed'[o] = completed[o]
      BY <2>3, <2>6
    <3>3. /\ hand' = [hand EXCEPT ![m][k] = "idle"]
          /\ copy' = copy \/ (copy[m][k] = "out" /\ copy' = [copy EXCEPT ![m][k] = "stored"])
          /\ "idle" \in Hand /\ "idle" \notin {"report", "acking"}
          /\ (Works \/ Fails) /\ UNCHANGED <<inbound, overdue>>
      BY <1>1, <1>3, <2>6 DEF Refused, HandAt, CopyAt
    <3>4. QED
      BY <1>1, <2>1, <2>4, <3>1, <3>2, <3>3, RunStays
  <2>7. QED
    BY <1>3, <2>5, <2>6 DEF HandlerRuns
<1>4. CASE ReportCompletion(m, k) /\ UNCHANGED <<inbound, overdue>>
  <2>1. /\ hand[m][k] = "report" /\ UNCHANGED <<finished, completed>> /\ (Works \/ Fails)
        /\ finished[m] >= finished[m]
    BY <1>1, <1>4 DEF ReportCompletion, HandAt, Refused
  <2>2. told' \in [Message -> BOOLEAN] /\ \A o \in Message \ {m} : told'[o] = told[o]
    BY <1>1, <1>4 DEF ReportCompletion
  <2>3. PICK doing \in {"idle", "acking"} :
          /\ hand' = [hand EXCEPT ![m][k] = doing]
          /\ \/ copy' = copy
             \/ copy[m][k] = "out" /\ doing = "idle" /\ copy' = [copy EXCEPT ![m][k] = "stored"]
    BY <1>4 DEF ReportCompletion, Refused, HandAt, CopyAt
  <2>4. /\ finished[m] > 0 /\ doing \in Hand /\ hand[m][k] # "idle"
        /\ ~Event(m) => completed[m] = "completed"
    BY <1>1, <2>1, <2>3
  <2>5. QED
    BY <1>1, <1>4, <2>1, <2>2, <2>3, <2>4, RunStays
<1>5. CASE Acknowledge(m, k) /\ UNCHANGED <<inbound, overdue>>
  <2>1. /\ hand[m][k] = "acking" /\ UNCHANGED <<finished, completed, told>>
        /\ hand' = [hand EXCEPT ![m][k] = "idle"] /\ (Works \/ Fails)
        /\ finished[m] >= finished[m]
    BY <1>1, <1>5 DEF Acknowledge, HandAt, Refused
  <2>2. finished[m] > 0 /\ (Event(m) \/ completed[m] = "completed")
    BY <1>1, <2>1
  <2>3. \/ copy' = copy
        \/ copy[m][k] = "out" /\ copy' = [copy EXCEPT ![m][k] = "stored"]
        \/ copy' = [copy EXCEPT ![m][k] = "gone"]
    BY <1>5 DEF Acknowledge, Refused, HandAt, CopyAt
  <2>4. "idle" \in Hand /\ "idle" \notin {"report", "acking"} /\ hand[m][k] # "idle"
    BY <1>1, <2>1
  <2>5. QED
    BY <1>1, <1>5, <2>1, <2>2, <2>3, <2>4, RunStays
<1>6. QED
  BY <1>2, <1>3, <1>4, <1>5 DEF HandlerStep

(* The subscriber ends, and what it held is held no longer.                *)
LEMMA RestartStays ==
  ASSUME DeliveryInv, SubscriberRestarts
  PROVE  DeliveryInv'
<1>1. /\ DeliveryTypeOK /\ \A m \in Message : SenderFits(m) /\ CopiesFit(m)
      /\ UNCHANGED <<kind, wildcard, sender, copies, tries, open, told, copy, overdue,
                     finished, completed>>
      /\ Fails
  BY DEF DeliveryInv, SubscriberRestarts, sendVars
<1>2. /\ inbound' = [m \in Message |-> [k \in Copy |-> 0]]
      /\ hand' = [m \in Message |-> [k \in Copy |-> "idle"]]
  BY DEF SubscriberRestarts
<1>3. OneInHand'
  BY <1>2 DEF OneInHand
<1>4. faults' \in 0 .. MaxFaults
  BY <1>1, FaultsStay
<1>5. DeliveryTypeOK'
  BY <1>1, <1>2, <1>4 DEF DeliveryTypeOK
<1>6. ASSUME NEW m \in Message PROVE SenderFits(m)' /\ CopiesFit(m)'
  <2>1. \A k \in Copy : ~Underway(m, k)' /\ hand'[m][k] = "idle" /\ ~(inbound'[m][k] > 0)
    BY <1>2 DEF Underway
  <2>2. SenderFits(m)'
    BY <1>1 DEF SenderFits
  <2>3. CopiesFit(m)'
    BY <1>1, <2>1 DEF CopiesFit, HeldOnce, AllGone, Event
  <2>4. QED
    BY <2>2, <2>3
<1>7. QED
  BY <1>3, <1>5, <1>6 DEF DeliveryInv

-----------------------------------------------------------------------------
(* Every step keeps the invariant.                                         *)
LEMMA DeliveryInductive ==
  ASSUME DeliveryInv, [DeliveryNext]_deliveryVars
  PROVE  DeliveryInv'
<1>1. ASSUME NEW m \in Message, SendMessage(m) PROVE DeliveryInv'
  BY <1>1, BeginStays
<1>2. ASSUME NEW m \in Message, SenderStep(m) PROVE DeliveryInv'
  <2>1. UNCHANGED <<kind, wildcard>> /\ (Publish(m) \/ StopWaiting(m) \/ CloseSubscriptions(m))
    BY <1>2 DEF SenderStep
  <2>2. QED
    BY <2>1, PublishStays, StopStays, CloseStays
<1>3. ASSUME NEW m \in Message, NEW k \in Copy, HandlerStep(m, k) PROVE DeliveryInv'
  BY <1>3, HandlerStays
<1>4. CASE SubscriberRestarts
  BY <1>4, RestartStays
<1>5. CASE UNCHANGED deliveryVars
  <2>1. UNCHANGED <<kind, wildcard, sender, copies, tries, open, told, copy, inbound, hand,
                    overdue, finished, completed, faults>>
    BY <1>5 DEF deliveryVars, sendVars, handleVars
  <2>2. /\ DeliveryTypeOK /\ OneInHand
        /\ \A n \in Message : SenderFits(n) /\ CopiesFit(n)
    BY DEF DeliveryInv
  <2>3. DeliveryTypeOK' /\ OneInHand'
    BY <2>1, <2>2 DEF DeliveryTypeOK, OneInHand
  <2>4. \A n \in Message : SenderFits(n)' /\ CopiesFit(n)'
    BY <2>1, <2>2, OthersStay
  <2>5. QED
    BY <2>3, <2>4 DEF DeliveryInv
<1>6. QED
  BY <1>1, <1>2, <1>3, <1>4, <1>5 DEF DeliveryNext

(* The invariant says what the property does.                              *)
LEMMA DeliveryInvTells == DeliveryInv => DeliverySound
<1> SUFFICES ASSUME DeliveryInv PROVE DeliverySound
  OBVIOUS
<1>1. DeliveryTypeOK /\ \A m \in Message : SenderFits(m) /\ CopiesFit(m)
  BY DEF DeliveryInv
<1>2. GoneMeansHandled /\ ToldTrue
  BY <1>1 DEF CopiesFit, GoneMeansHandled, ToldTrue
<1>3. LastReportTrue
  BY <1>1 DEF CopiesFit, AllGone, LastReportTrue
<1>4. SubscriptionsEnd
  BY <1>1 DEF SenderFits, SubscriptionsEnd
<1>5. QED
  BY <1>1, <1>2, <1>3, <1>4 DEF DeliverySound

(* A copy leaves the stream only after its handler ran to its end, a       *)
(* command whose copies are all gone and none of which was delivered again *)
(* while it was held was last reported completed, a sender is told of a    *)
(* completion only of what was done, and one that ends without an error    *)
(* has unsubscribed: for every number of messages, publications, failing   *)
(* calls, crashes and timeouts.                                            *)
THEOREM DeliveryIsSound == DeliverySpec => []DeliverySound
<1>1. DeliveryInit => DeliveryInv
  BY InitFits
<1>2. DeliveryInv /\ [DeliveryNext]_deliveryVars => DeliveryInv'
  BY DeliveryInductive
<1>3. DeliveryInv => DeliverySound
  BY DeliveryInvTells
<1>4. QED
  BY <1>1, <1>2, <1>3, PTL DEF DeliverySpec

-----------------------------------------------------------------------------
(* Orders                                                                  *)

(* The assumptions on the bounds, one by one.                              *)
LEMMA OrderBounds ==
  /\ MaxOrders \in Nat /\ MaxAttempts \in Nat /\ MaxElections \in Nat /\ MaxDelays \in Nat
BY OrdersAssumption

(* An attempt of an order that was asked for and not lost before it was    *)
(* taken; what the waiting for the present order has cost; and the         *)
(* invariant: the silent orders and the present one cost a delay each      *)
(* attempt, but for the one that may still be answered.                    *)
Asked(o) == {t \in 1 .. MaxAttempts : <<o, t>> \in sold \cup requests}
Waited == IF waiting /\ UnderWay THEN try - 1 ELSE try
OrdersInv ==
  /\ OrdersTypeOK /\ failed = order - 1
  /\ waiting => order <= MaxOrders /\ try \in 1 .. MaxAttempts
  /\ \A a \in sold \cup requests : a[1] < order \/ (a[1] = order /\ a[2] <= try)
  /\ MaxAttempts * Cardinality(Unanswered) + Waited <= delays
  /\ \A o \in 1 .. MaxOrders : o < order => Cardinality(Asked(o)) <= 1 + delays

(* One silence more costs all its attempts.                                *)
LEMMA CostOf ==
  ASSUME NEW c \in Nat, NEW d \in Nat
  PROVE  /\ MaxAttempts * c \in Nat
         /\ d <= c => MaxAttempts * d <= MaxAttempts * c
         /\ d <= c + 1 => MaxAttempts * d <= MaxAttempts * c + MaxAttempts
<1>1. ASSUME NEW x \in Nat, NEW y \in Nat, x <= y
      PROVE  MaxAttempts * x <= MaxAttempts * y
  <2>1. PICK z \in Nat : y = x + z
    <3>1. y - x \in Nat /\ y = x + (y - x)
      BY <1>1
    <3>2. QED
      BY <3>1
  <2>2. MaxAttempts * y = MaxAttempts * x + MaxAttempts * z
    BY <2>1, OrderBounds
  <2>3. MaxAttempts * z \in Nat /\ MaxAttempts * x \in Nat
    BY OrderBounds
  <2>4. QED
    BY <2>2, <2>3
<1>2. MaxAttempts * (c + 1) = MaxAttempts * c + MaxAttempts
  BY OrderBounds
<1>3. MaxAttempts * c \in Nat
  BY OrderBounds
<1>4. d <= c + 1 => MaxAttempts * d <= MaxAttempts * (c + 1)
  BY <1>1
<1>5. QED
  BY <1>1, <1>2, <1>3, <1>4

(* The attempts of an order and the silent orders can be counted.          *)
LEMMA AskedFinite ==
  /\ \A o : IsFiniteSet(Asked(o)) /\ Cardinality(Asked(o)) \in Nat
  /\ IsFiniteSet(Unanswered) /\ Cardinality(Unanswered) \in Nat
<1>1. IsFiniteSet(1 .. MaxAttempts) /\ IsFiniteSet(1 .. MaxOrders)
  BY OrderBounds, FS_Interval
<1>2. (\A o : Asked(o) \subseteq 1 .. MaxAttempts) /\ Unanswered \subseteq 1 .. MaxOrders
  BY DEF Asked, Unanswered
<1>3. QED
  BY <1>1, <1>2, FS_Subset, FS_CardinalityType

(* No order has been asked for more often than its delays allow.           *)
LEMMA AskedFew ==
  ASSUME OrdersInv, NEW o \in 1 .. MaxOrders
  PROVE  Cardinality(Asked(o)) <= 1 + delays
<1>1. /\ order \in Nat /\ try \in Nat /\ delays \in Nat
      /\ \A a \in sold \cup requests : a[1] < order \/ (a[1] = order /\ a[2] <= try)
      /\ MaxAttempts * Cardinality(Unanswered) + Waited <= delays
  BY OrderBounds DEF OrdersInv, OrdersTypeOK
<1>2. CASE o < order
  BY <1>2 DEF OrdersInv
<1>3. CASE ~(o < order)
  <2>1. Asked(o) \subseteq 1 .. try
    <3>1. ASSUME NEW t \in Asked(o) PROVE t \in 1 .. try
      <4>1. t \in 1 .. MaxAttempts /\ <<o, t>> \in sold \cup requests
        BY DEF Asked
      <4>2. <<o, t>>[1] = o /\ <<o, t>>[2] = t
        OBVIOUS
      <4>3. t <= try
        BY <1>1, <1>3, <4>1, <4>2
      <4>4. QED
        BY <1>1, <4>1, <4>3
    <3>2. QED
      BY <3>1
  <2>2. IsFiniteSet(1 .. try) /\ Cardinality(1 .. try) = try
    BY <1>1, FS_Interval
  <2>3. Cardinality(Asked(o)) <= try /\ Cardinality(Asked(o)) \in Nat
    BY <2>1, <2>2, AskedFinite, FS_Subset
  <2>4. try <= 1 + Waited /\ Waited \in Int
    BY <1>1 DEF Waited
  <2>5. MaxAttempts * Cardinality(Unanswered) \in Nat
    BY AskedFinite, CostOf
  <2>6. QED
    BY <1>1, <2>3, <2>4, <2>5
<1>4. QED
  BY <1>2, <1>3

(* The invariant holds at first.                                           *)
LEMMA OrdersBegin == OrdersInit => OrdersInv
<1> SUFFICES ASSUME OrdersInit PROVE OrdersInv
  OBVIOUS
<1>1. /\ order = 1 /\ try = 0 /\ waiting = FALSE /\ requests = {} /\ answers = {} /\ sold = {}
      /\ failed = 0 /\ leader = {} /\ elections = 0 /\ delays = 0
      /\ outcome = [o \in 1 .. MaxOrders |-> "open"]
  BY DEF OrdersInit
<1>2. OrdersTypeOK
  <2>1. outcome \in [1 .. MaxOrders -> {"open", "unread", "silent"}]
    BY <1>1
  <2>2. /\ order \in 1 .. MaxOrders + 1 /\ try \in 0 .. MaxAttempts /\ failed \in 0 .. MaxOrders
        /\ elections \in 0 .. MaxElections /\ delays \in 0 .. MaxDelays
    BY <1>1, OrderBounds
  <2>3. /\ leader \subseteq Seller /\ waiting \in BOOLEAN
        /\ requests \subseteq Attempt /\ answers \subseteq Attempt /\ sold \subseteq Attempt
    BY <1>1
  <2>4. QED
    BY <2>1, <2>2, <2>3 DEF OrdersTypeOK
<1>3. Cardinality(Unanswered) = 0
  <2>1. Unanswered = {}
    BY <1>1 DEF Unanswered
  <2>2. QED
    BY <2>1, FS_EmptySet
<1>4. MaxAttempts * Cardinality(Unanswered) + Waited <= delays
  BY <1>1, <1>3, OrderBounds DEF Waited
<1>5. QED
  BY <1>1, <1>2, <1>4 DEF OrdersInv

(* A step that asks for nothing new leaves few attempts of every order.    *)
LEMMA NothingAsked ==
  ASSUME OrdersInv, sold' \cup requests' \subseteq sold \cup requests,
         delays' >= delays, delays' \in Nat, order' \in {order, order + 1},
         order' = order => try' = try
  PROVE  /\ \A o \in 1 .. MaxOrders : o < order' => Cardinality(Asked(o))' <= 1 + delays'
         /\ \A a \in sold' \cup requests' : a[1] < order' \/ (a[1] = order' /\ a[2] <= try')
<1>1. order \in Nat /\ delays \in Nat /\ sold \cup requests \subseteq Attempt
  BY OrderBounds DEF OrdersInv, OrdersTypeOK
<1>2. ASSUME NEW o \in 1 .. MaxOrders PROVE Cardinality(Asked(o))' <= 1 + delays'
  <2>1. Asked(o)' \subseteq Asked(o)
    BY DEF Asked
  <2>2. Cardinality(Asked(o)') <= Cardinality(Asked(o)) /\ Cardinality(Asked(o)) \in Nat
    BY <2>1, AskedFinite, FS_Subset
  <2>3. IsFiniteSet(Asked(o)') /\ Cardinality(Asked(o)') \in Nat
    BY <2>1, AskedFinite, FS_Subset, FS_CardinalityType
  <2>4. QED
    BY <1>1, <2>2, <2>3, AskedFew
<1>3. ASSUME NEW a \in sold' \cup requests'
      PROVE  a[1] < order' \/ (a[1] = order' /\ a[2] <= try')
  <2>1. (a[1] < order \/ (a[1] = order /\ a[2] <= try)) /\ a[1] \in Nat
    BY <1>1 DEF OrdersInv, Attempt
  <2>2. QED
    BY <1>1, <2>1
<1>4. QED
  BY <1>2, <1>3

(* The leader changes, an instance takes a request, a message is lost.     *)
LEMMA OthersMove ==
  ASSUME OrdersInv, LeaderChanges \/ Vanish \/ \E a \in requests : SellerTakes(a)
  PROVE  OrdersInv'
<1>1. /\ OrdersTypeOK /\ try \in Nat /\ delays \in Nat
      /\ UNCHANGED <<order, failed, outcome, try, waiting>>
  BY OrderBounds DEF OrdersInv, OrdersTypeOK, LeaderChanges, Vanish, SellerTakes, tallyVars
<1>2. /\ sold' \cup requests' \subseteq sold \cup requests /\ answers' \subseteq requests \cup answers
      /\ \/ delays' = delays /\ requests' \cup answers' = requests \cup answers
         \/ delays' = delays + 1 /\ delays < MaxDelays
  <2>1. CASE LeaderChanges
    BY <2>1 DEF LeaderChanges
  <2>2. CASE Vanish
    BY <2>2 DEF Vanish, sellerVars
  <2>3. CASE \E a \in requests : SellerTakes(a)
    BY <2>3 DEF SellerTakes
  <2>4. QED
    BY <2>1, <2>2, <2>3
<1>3. OrdersTypeOK'
  <2>1. leader' \subseteq Seller /\ elections' \in 0 .. MaxElections
    BY <1>1, OrderBounds DEF OrdersTypeOK, LeaderChanges, Vanish, SellerTakes, sellerVars
  <2>2. requests' \subseteq Attempt /\ answers' \subseteq Attempt /\ sold' \subseteq Attempt
    BY <1>1, <1>2 DEF OrdersTypeOK
  <2>3. delays' \in 0 .. MaxDelays
    BY <1>1, <1>2, OrderBounds DEF OrdersTypeOK
  <2>4. QED
    BY <1>1, <2>1, <2>2, <2>3 DEF OrdersTypeOK
<1>4. Unanswered' = Unanswered
  BY <1>1 DEF Unanswered
<1>5. Waited' + delays <= Waited + delays' /\ Waited' \in Int /\ Waited \in Int
  <2>1. CASE delays' = delays /\ requests' \cup answers' = requests \cup answers
    BY <1>1, <2>1 DEF Waited, UnderWay
  <2>2. CASE delays' = delays + 1
    BY <1>1, <2>2 DEF Waited
  <2>3. QED
    BY <1>2, <2>1, <2>2
<1>6. MaxAttempts * Cardinality(Unanswered)' + Waited' <= delays'
  <2>1. /\ MaxAttempts * Cardinality(Unanswered) + Waited <= delays
        /\ MaxAttempts * Cardinality(Unanswered) \in Nat
    BY AskedFinite, CostOf DEF OrdersInv
  <2>2. delays' \in Nat /\ Cardinality(Unanswered)' = Cardinality(Unanswered)
    BY <1>1, <1>2, <1>4
  <2>3. \A c, d, e \in Nat, w, v \in Int : v + d <= w + e /\ c + w <= d => c + v <= e
    OBVIOUS
  <2>4. QED
    BY <1>1, <1>5, <2>1, <2>2, <2>3
<1>7. /\ \A o \in 1 .. MaxOrders : o < order' => Cardinality(Asked(o))' <= 1 + delays'
      /\ \A a \in sold' \cup requests' : a[1] < order' \/ (a[1] = order' /\ a[2] <= try')
  BY <1>1, <1>2, NothingAsked
<1>8. QED
  BY <1>1, <1>3, <1>6, <1>7 DEF OrdersInv

(* The client makes an attempt.                                            *)
LEMMA PlaceOrderStays ==
  ASSUME OrdersInv, PlaceOrder
  PROVE  OrdersInv'
<1>1. /\ OrdersTypeOK /\ try \in Nat /\ order \in 1 .. MaxOrders /\ delays \in Nat
      /\ try' \in 1 .. MaxAttempts
  BY OrderBounds DEF OrdersInv, OrdersTypeOK, PlaceOrder
<1>2. /\ ~waiting /\ waiting' = TRUE /\ try' = try + 1
      /\ requests' = requests \cup {<<order, try'>>}
      /\ UNCHANGED <<leader, sold, elections, answers, order, failed, outcome, delays>>
  BY DEF PlaceOrder, sellerVars, tallyVars
<1>3. OrdersTypeOK'
  <2>1. <<order, try'>> \in Attempt
    BY <1>1 DEF Attempt
  <2>2. try' \in 0 .. MaxAttempts /\ requests' \subseteq Attempt
    BY <1>1, <1>2, <2>1 DEF OrdersTypeOK
  <2>3. QED
    BY <1>1, <1>2, <2>2 DEF OrdersTypeOK
<1>4. Unanswered' = Unanswered /\ Waited' = Waited
  <2>1. UnderWay'
    BY <1>2 DEF UnderWay
  <2>2. QED
    BY <1>1, <1>2, <2>1 DEF Unanswered, Waited
<1>5. MaxAttempts * Cardinality(Unanswered)' + Waited' <= delays'
  BY <1>2, <1>4 DEF OrdersInv
<1>6. ASSUME NEW o \in 1 .. MaxOrders, o < order' PROVE Cardinality(Asked(o))' <= 1 + delays'
  <2>1. o # order /\ o < order
    BY <1>1, <1>2, <1>6
  <2>2. Asked(o)' = Asked(o)
    BY <1>2, <2>1 DEF Asked
  <2>3. QED
    BY <1>2, <2>1, <2>2 DEF OrdersInv
<1>7. ASSUME NEW a \in sold' \cup requests'
      PROVE  a[1] < order' \/ (a[1] = order' /\ a[2] <= try')
  <2>1. CASE a = <<order, try'>>
    BY <1>1, <1>2, <2>1
  <2>2. CASE a \in sold \cup requests
    <3>1. (a[1] < order \/ (a[1] = order /\ a[2] <= try)) /\ a \in Attempt
      BY <1>1, <2>2 DEF OrdersInv, OrdersTypeOK
    <3>2. a[2] \in Nat
      BY <3>1, OrderBounds DEF Attempt
    <3>3. QED
      BY <1>1, <1>2, <3>1, <3>2
  <2>3. QED
    BY <1>2, <1>7, <2>1, <2>2
<1>8. QED
  BY <1>1, <1>2, <1>3, <1>5, <1>6, <1>7 DEF OrdersInv

(* An order has an outcome: whatever the wait for it has cost is paid by   *)
(* the silence, if it is one.                                              *)
LEMMA SettleStays ==
  ASSUME OrdersInv, waiting, waiting' = FALSE, NEW came \in {"unread", "silent"}, Settle(came),
         sold' \cup requests' \subseteq sold \cup requests, answers' \subseteq answers,
         UNCHANGED <<leader, elections>>,
         delays' \in 0 .. MaxDelays, delays' >= delays,
         came = "silent" =>
           MaxAttempts * Cardinality(Unanswered) + MaxAttempts <= delays'
  PROVE  OrdersInv'
<1>1. /\ OrdersTypeOK /\ order \in 1 .. MaxOrders /\ order' = order + 1 /\ try' = 0
      /\ failed' = failed + 1 /\ failed = order - 1 /\ delays \in Nat /\ delays' \in Nat
      /\ outcome' = [outcome EXCEPT ![order] = came]
  BY OrderBounds DEF OrdersInv, OrdersTypeOK, Settle
<1>2. OrdersTypeOK'
  <2>1. order' \in 1 .. MaxOrders + 1 /\ failed' \in 0 .. MaxOrders /\ try' \in 0 .. MaxAttempts
    BY <1>1, OrderBounds
  <2>2. outcome' \in [1 .. MaxOrders -> {"open", "unread", "silent"}]
    BY <1>1 DEF OrdersTypeOK
  <2>3. requests' \subseteq Attempt /\ answers' \subseteq Attempt /\ sold' \subseteq Attempt
    BY <1>1 DEF OrdersTypeOK
  <2>4. QED
    BY <1>1, <2>1, <2>2, <2>3 DEF OrdersTypeOK
<1>3. outcome \in [1 .. MaxOrders -> {"open", "unread", "silent"}]
  BY <1>1 DEF OrdersTypeOK
<1>4. /\ Unanswered' \subseteq Unanswered \cup {order}
      /\ came = "unread" => Unanswered' \subseteq Unanswered
  BY <1>1, <1>3 DEF Unanswered
<1>5. /\ Cardinality(Unanswered) \in Nat /\ Cardinality(Unanswered') \in Nat
      /\ Cardinality(Unanswered') <= Cardinality(Unanswered) + 1
      /\ came = "unread" => Cardinality(Unanswered') <= Cardinality(Unanswered)
  <2>1. IsFiniteSet(Unanswered) /\ Cardinality(Unanswered) \in Nat
    BY AskedFinite
  <2>2. /\ IsFiniteSet(Unanswered \cup {order})
        /\ Cardinality(Unanswered \cup {order}) <= Cardinality(Unanswered) + 1
        /\ Cardinality(Unanswered \cup {order}) \in Nat
    <3>1. /\ IsFiniteSet(Unanswered \cup {order})
          /\ Cardinality(Unanswered \cup {order}) =
               IF order \in Unanswered THEN Cardinality(Unanswered)
               ELSE Cardinality(Unanswered) + 1
      BY <2>1, FS_AddElement
    <3>2. QED
      BY <2>1, <3>1
  <2>3. /\ IsFiniteSet(Unanswered')
        /\ Cardinality(Unanswered') <= Cardinality(Unanswered \cup {order})
    BY <1>4, <2>2, FS_Subset
  <2>4. came = "unread" => Cardinality(Unanswered') <= Cardinality(Unanswered)
    BY <1>4, <2>1, FS_Subset
  <2>5. Cardinality(Unanswered') \in Nat
    BY <2>3, FS_CardinalityType
  <2>6. QED
    BY <2>1, <2>2, <2>3, <2>4, <2>5
<1>6. MaxAttempts * Cardinality(Unanswered') <= delays'
  <2>1. CASE came = "silent"
    <3>1. /\ MaxAttempts * Cardinality(Unanswered') <=
               MaxAttempts * Cardinality(Unanswered) + MaxAttempts
          /\ MaxAttempts * Cardinality(Unanswered) \in Nat
          /\ MaxAttempts * Cardinality(Unanswered') \in Nat
      BY <1>5, CostOf
    <3>2. QED
      BY <1>1, <2>1, <3>1, OrderBounds
  <2>2. CASE came = "unread"
    <3>1. /\ MaxAttempts * Cardinality(Unanswered') <= MaxAttempts * Cardinality(Unanswered)
          /\ MaxAttempts * Cardinality(Unanswered) \in Nat
          /\ MaxAttempts * Cardinality(Unanswered') \in Nat
      BY <1>5, <2>2, CostOf
    <3>2. /\ MaxAttempts * Cardinality(Unanswered) + Waited <= delays
          /\ Waited \in Nat
      BY OrderBounds DEF OrdersInv, OrdersTypeOK, Waited
    <3>3. QED
      BY <1>1, <3>1, <3>2
  <2>3. QED
    BY <2>1, <2>2
<1>7. MaxAttempts * Cardinality(Unanswered)' + Waited' <= delays'
  <2>1. Waited' = 0
    BY <1>1 DEF Waited
  <2>2. MaxAttempts * Cardinality(Unanswered') \in Nat
    BY <1>5, CostOf
  <2>3. QED
    BY <1>1, <1>6, <2>1, <2>2
<1>8. /\ \A o \in 1 .. MaxOrders : o < order' => Cardinality(Asked(o))' <= 1 + delays'
      /\ \A a \in sold' \cup requests' : a[1] < order' \/ (a[1] = order' /\ a[2] <= try')
  BY <1>1, NothingAsked
<1>9. QED
  BY <1>1, <1>2, <1>7, <1>8 DEF OrdersInv

(* An answer comes, in time.                                               *)
LEMMA ReceiveOrderStays ==
  ASSUME OrdersInv, ReceiveOrder
  PROVE  OrdersInv'
<1>1. /\ waiting /\ waiting' = FALSE /\ Settle("unread") /\ answers' \subseteq answers
      /\ UNCHANGED <<leader, sold, elections, requests, delays>>
  BY DEF ReceiveOrder, Unread, sellerVars
<1>2. delays' \in 0 .. MaxDelays /\ delays' >= delays /\ sold' \cup requests' \subseteq sold \cup requests
  BY <1>1, OrderBounds DEF OrdersInv, OrdersTypeOK
<1>3. QED
  BY <1>1, <1>2, SettleStays

(* No answer comes in time.                                                *)
LEMMA AttemptExpiresStays ==
  ASSUME OrdersInv, AttemptExpires
  PROVE  OrdersInv'
<1>1. /\ waiting /\ waiting' = FALSE
      /\ UNCHANGED <<leader, sold, elections, requests, answers>>
      /\ sold' \cup requests' \subseteq sold \cup requests /\ answers' \subseteq answers
  BY DEF AttemptExpires, sellerVars
<1>2. OrdersTypeOK /\ try \in 1 .. MaxAttempts /\ try \in Nat /\ delays \in Nat
  BY <1>1, OrderBounds DEF OrdersInv, OrdersTypeOK
<1>3. /\ delays' \in 0 .. MaxDelays /\ delays' >= delays
      /\ delays' = IF UnderWay THEN delays + 1 ELSE delays
  BY <1>2, OrderBounds DEF AttemptExpires, OrdersTypeOK
<1>4. MaxAttempts * Cardinality(Unanswered) + try <= delays'
  <2>1. /\ MaxAttempts * Cardinality(Unanswered) + Waited <= delays
        /\ MaxAttempts * Cardinality(Unanswered) \in Nat
    BY AskedFinite, CostOf DEF OrdersInv
  <2>2. Waited = IF UnderWay THEN try - 1 ELSE try
    BY <1>1 DEF Waited
  <2>3. QED
    BY <1>2, <1>3, <2>1, <2>2
<1>5. CASE try < MaxAttempts
  <2>1. UNCHANGED <<try, order, failed, outcome>>
    BY <1>5 DEF AttemptExpires, Again, tallyVars
  <2>2. OrdersTypeOK'
    BY <1>1, <1>2, <1>3, <2>1 DEF OrdersTypeOK
  <2>3. Unanswered' = Unanswered /\ Waited' = try
    BY <1>1, <2>1 DEF Unanswered, Waited
  <2>4. /\ \A o \in 1 .. MaxOrders : o < order' => Cardinality(Asked(o))' <= 1 + delays'
        /\ \A a \in sold' \cup requests' : a[1] < order' \/ (a[1] = order' /\ a[2] <= try')
    <3>1. delays' \in Nat
      BY <1>2, <1>3
    <3>2. QED
      BY <1>1, <1>3, <2>1, <3>1, NothingAsked
  <2>5. QED
    BY <1>1, <1>4, <2>1, <2>2, <2>3, <2>4 DEF OrdersInv
<1>6. CASE ~(try < MaxAttempts)
  <2>1. Settle("silent") /\ try = MaxAttempts
    BY <1>2, <1>6, OrderBounds DEF AttemptExpires, Again
  <2>2. QED
    BY <1>1, <1>3, <1>4, <2>1, SettleStays
<1>7. QED
  BY <1>5, <1>6

(* Every step keeps the invariant.                                         *)
LEMMA OrdersInductive ==
  ASSUME OrdersInv, [OrdersNext]_orderVars
  PROVE  OrdersInv'
<1>1. CASE UNCHANGED orderVars
  BY <1>1 DEF orderVars, OrdersInv, OrdersTypeOK, Asked, Waited, UnderWay, Unanswered
<1>2. CASE OrdersNext
  BY <1>2, OthersMove, PlaceOrderStays, ReceiveOrderStays, AttemptExpiresStays DEF OrdersNext
<1>3. QED
  BY <1>1, <1>2

(* OrdersSound, for every number of orders, attempts, elections and        *)
(* delays: an order is processed once more only for a delay, and a silence *)
(* costs one for each attempt.                                             *)
THEOREM OrdersAreCountedRight == OrdersSpec => []OrdersSound
<1>1. OrdersInv => OrdersSound
  <2>1. ASSUME OrdersInv, NEW o \in 1 .. MaxOrders
        PROVE  Cardinality(SalesOf(o)) <= 1 + delays
    <3>1. SalesOf(o) \subseteq Asked(o)
      BY DEF SalesOf, Asked
    <3>2. /\ IsFiniteSet(SalesOf(o)) /\ Cardinality(Asked(o)) \in Nat
          /\ Cardinality(SalesOf(o)) <= Cardinality(Asked(o))
      BY <3>1, AskedFinite, FS_Subset
    <3>3. Cardinality(SalesOf(o)) \in Nat /\ delays \in Nat
      BY <2>1, <3>2, FS_CardinalityType, OrderBounds DEF OrdersInv, OrdersTypeOK
    <3>4. QED
      BY <2>1, <3>2, <3>3, AskedFew
  <2>2. ASSUME OrdersInv PROVE SilenceNeedsDelays
    <3>1. /\ MaxAttempts * Cardinality(Unanswered) + Waited <= delays
          /\ Waited \in Nat /\ delays \in Nat
      BY <2>2, OrderBounds DEF OrdersInv, OrdersTypeOK, Waited
    <3>2. MaxAttempts * Cardinality(Unanswered) \in Nat
      BY AskedFinite, CostOf
    <3>3. QED
      BY <3>1, <3>2 DEF SilenceNeedsDelays
  <2>3. QED
    BY <2>1, <2>2 DEF OrdersInv, OrdersSound, RepeatsNeedDelays
<1>2. QED
  BY <1>1, OrdersBegin, OrdersInductive, PTL DEF OrdersSpec

-----------------------------------------------------------------------------
(* Echo                                                                    *)

(* The assumptions on the bounds, one by one.                              *)
LEMMA EchoBounds ==
  BatchSize \in Nat \ {0} /\ MaxPings \in Nat /\ MaxGlitches \in Nat
BY EchoAssumption

-----------------------------------------------------------------------------
(* The requests the metrics are about.                                     *)
Taken(i) == {r \in Ping : by[r] = {i} /\ shape[r] # "refused"}
Answered(i) == {r \in Ping : by[r] = {i} /\ number[r] # 0}
Erred(i) == {r \in Ping : by[r] = {i} /\ at[r] = "erred"}
Sent == {r \in Ping : at[r] # "unsent"}

(* The client sends in order and counts once.                              *)
ClientFits ==
  /\ \E k \in 0 .. MaxPings : \A r \in Ping : at[r] = "unsent" <=> r > k
  /\ inBatch \subseteq Ping /\ Cardinality(inBatch) <= BatchSize
  /\ successes \in Nat /\ errors \in Nat
  /\ ClientCountsOnce

(* How far a request is, and what it has been given.                       *)
PingFits(r) ==
  /\ at[r] \in {"unsent", "sent"} => by[r] = {} /\ number[r] = 0
  /\ at[r] = "delayed" => number[r] = 0 /\ shape[r] = "delayed"
  /\ \A i \in Replica :
       by[r] = {i} /\ shape[r] # "refused" => 1 <= rank[r] /\ rank[r] <= sequence[i]

PingTypes ==
  /\ serving \subseteq Replica /\ nats \in [Replica -> BOOLEAN]
  /\ {sequence, good, bad} \subseteq [Replica -> Nat]
  /\ shape \in [Ping -> {"simple", "delayed", "refused"}]
  /\ at \in [Ping -> {"unsent", "sent", "delayed", "answered", "erred", "counted"}]
  /\ by \in [Ping -> SUBSET Replica] /\ {number, rank} \subseteq [Ping -> Nat]
  /\ glitches \in 0 .. MaxGlitches

EchoInv ==
  /\ PingTypes
  /\ ClientFits
  /\ \A r \in Ping : PingFits(r)
  /\ NumbersFollowOrder
  /\ \A i \in Replica : /\ sequence[i] = Cardinality(Taken(i))
                        /\ good[i] = Cardinality(Answered(i))
                        /\ bad[i] >= Cardinality(Erred(i))

(* Requests can be counted.                                                *)
LEMMA PingsCounted ==
  /\ IsFiniteSet(Ping) /\ Cardinality(Ping) = MaxPings
  /\ \A S \in SUBSET Ping :
       IsFiniteSet(S) /\ Cardinality(S) \in Nat /\ Cardinality(S) <= Cardinality(Ping)
<1>1. IsFiniteSet(Ping) /\ Cardinality(Ping) = MaxPings
  BY EchoBounds, FS_Interval DEF Ping
<1>2. ASSUME NEW S \in SUBSET Ping
      PROVE  IsFiniteSet(S) /\ Cardinality(S) \in Nat /\ Cardinality(S) <= Cardinality(Ping)
  BY <1>1, FS_Subset, FS_CardinalityType
<1>3. QED
  BY <1>1, <1>2

(* One request more.                                                       *)
LEMMA OneMore ==
  ASSUME NEW S \in SUBSET Ping, NEW r \in Ping, r \notin S
  PROVE  Cardinality(S \cup {r}) = Cardinality(S) + 1
BY PingsCounted, FS_AddElement

(* One request less.                                                       *)
LEMMA OneLess ==
  ASSUME NEW S \in SUBSET Ping, NEW r \in S
  PROVE  Cardinality(S \ {r}) = Cardinality(S) - 1
BY PingsCounted, FS_RemoveElement

(* None.                                                                   *)
LEMMA NoPings ==
  ASSUME NEW S, S = {}
  PROVE  Cardinality(S) = 0
BY FS_EmptySet

(* The invariant holds at first.                                           *)
LEMMA EchoBegins == EchoInit => EchoInv
<1> SUFFICES ASSUME EchoInit PROVE EchoInv
  OBVIOUS
<1>1. PingTypes
  <2>1. {sequence, good, bad} \subseteq [Replica -> Nat] /\ {number, rank} \subseteq [Ping -> Nat]
    BY DEF EchoInit
  <2>2. nats \in [Replica -> BOOLEAN] /\ serving \subseteq Replica
    BY DEF EchoInit
  <2>3. /\ shape \in [Ping -> {"simple", "delayed", "refused"}]
        /\ at \in [Ping -> {"unsent", "sent", "delayed", "answered", "erred", "counted"}]
        /\ by \in [Ping -> SUBSET Replica]
    BY DEF EchoInit
  <2>4. glitches \in 0 .. MaxGlitches
    BY EchoBounds DEF EchoInit
  <2>5. QED
    BY <2>1, <2>2, <2>3, <2>4 DEF PingTypes
<1>2. \A r \in Ping : at[r] = "unsent" /\ by[r] = {} /\ number[r] = 0 /\ rank[r] = 0
  BY DEF EchoInit
<1>3. ClientFits
  <2>1. {r \in Ping : at[r] # "unsent"} = {}
    BY <1>2
  <2>2. ClientCountsOnce /\ Cardinality(inBatch) = 0 /\ inBatch = {}
    BY <2>1, FS_EmptySet DEF EchoInit, ClientCountsOnce
  <2>3. \A r \in Ping : at[r] = "unsent" <=> r > 0
    BY <1>2 DEF Ping
  <2>4. 0 \in 0 .. MaxPings /\ successes = 0 /\ errors = 0 /\ 0 <= BatchSize
    BY EchoBounds DEF EchoInit
  <2>5. QED
    BY <2>2, <2>3, <2>4 DEF ClientFits
<1>4. \A r \in Ping : PingFits(r)
  BY <1>2 DEF PingFits
<1>5. ASSUME NEW i \in Replica
      PROVE  /\ sequence[i] = Cardinality(Taken(i))
             /\ good[i] = Cardinality(Answered(i))
             /\ bad[i] >= Cardinality(Erred(i))
  <2>1. Taken(i) = {} /\ Answered(i) = {} /\ Erred(i) = {}
    BY <1>2 DEF Taken, Answered, Erred
  <2>2. Cardinality(Taken(i)) = 0 /\ Cardinality(Answered(i)) = 0 /\ Cardinality(Erred(i)) = 0
    BY <2>1, FS_EmptySet
  <2>3. QED
    BY <2>2 DEF EchoInit
<1>6. NumbersFollowOrder
  BY <1>2 DEF NumbersFollowOrder
<1>7. QED
  BY <1>1, <1>3, <1>4, <1>5, <1>6 DEF EchoInv

-----------------------------------------------------------------------------
(* What the replicas do the client does not see.                           *)
LEMMA ClientKeeps ==
  ASSUME ClientFits, UNCHANGED countVars,
         \A r \in Ping : at'[r] = "unsent" <=> at[r] = "unsent"
  PROVE  ClientFits'
<1>1. successes' = successes /\ errors' = errors /\ inBatch' = inBatch
  BY DEF countVars
<1>2. {r \in Ping : at'[r] # "unsent"} = {r \in Ping : at[r] # "unsent"}
  OBVIOUS
<1>3. QED
  BY <1>1, <1>2 DEF ClientFits, ClientCountsOnce

(* The bound on glitches is kept.                                          *)
LEMMA GlitchFits ==
  ASSUME glitches \in 0 .. MaxGlitches, Glitch \/ NoGlitch
  PROVE  glitches' \in 0 .. MaxGlitches
BY EchoBounds DEF Glitch, NoGlitch

(* An instance starts or stops.                                            *)
LEMMA ReplicasStay ==
  ASSUME EchoInv, NEW i \in Replica, StartEcho(i) \/ StopEcho(i)
  PROVE  EchoInv'
<1>1. /\ sequence' = sequence /\ good' = good /\ bad' = bad /\ shape' = shape /\ at' = at
      /\ by' = by /\ number' = number /\ rank' = rank /\ UNCHANGED countVars
      /\ serving' \subseteq Replica /\ nats' \in [Replica -> BOOLEAN] /\ (Glitch \/ NoGlitch)
  BY DEF StartEcho, StopEcho, EchoInv, PingTypes, countVars
<1>2. PingTypes'
  BY <1>1, GlitchFits DEF EchoInv, PingTypes
<1>3. ClientFits'
  BY <1>1, ClientKeeps DEF EchoInv
<1>4. \A j : Taken(j)' = Taken(j) /\ Answered(j)' = Answered(j) /\ Erred(j)' = Erred(j)
  BY <1>1 DEF Taken, Answered, Erred
<1>5. QED
  BY <1>1, <1>2, <1>3, <1>4 DEF EchoInv, PingFits, NumbersFollowOrder

(* A request is taken once.                                                *)
LEMMA TakenOnce ==
  ASSUME EchoInv, NEW i \in Replica, NEW r \in Ping, Take(r, i)
  PROVE  /\ by[r] = {} /\ number[r] = 0 /\ by'[r] = {i} /\ by' \in [Ping -> SUBSET Replica]
         /\ \A q \in Ping : q # r => by'[q] = by[q]
BY DEF EchoInv, PingTypes, PingFits, Take

(* An instance refuses a request.                                          *)
LEMMA RefuseStays ==
  ASSUME EchoInv, NEW i \in Replica, NEW r \in Ping, Refuse(r, i)
  PROVE  EchoInv'
<1>1. /\ by[r] = {} /\ number[r] = 0 /\ by'[r] = {i} /\ by' \in [Ping -> SUBSET Replica]
      /\ \A q \in Ping : q # r => by'[q] = by[q]
  BY TakenOnce DEF Refuse
<1>2. /\ sequence' = sequence /\ good' = good /\ shape' = shape /\ number' = number /\ rank' = rank
      /\ serving' = serving /\ nats' = nats /\ glitches' = glitches /\ UNCHANGED countVars
      /\ at' = [at EXCEPT ![r] = "erred"] /\ bad' = [bad EXCEPT ![i] = @ + 1]
      /\ at[r] = "sent" /\ shape[r] = "refused"
  BY DEF Refuse, Take, NoGlitch, replicaVars
<1>3. /\ at'[r] = "erred" /\ \A q \in Ping : q # r => at'[q] = at[q]
      /\ \A j \in Replica : bad'[j] = IF j = i THEN bad[j] + 1 ELSE bad[j]
      /\ \A j \in Replica : bad[j] \in Nat
  BY <1>2 DEF EchoInv, PingTypes
<1>4. PingTypes'
  BY <1>1, <1>2 DEF EchoInv, PingTypes
<1>5. ClientFits'
  <2>1. \A q \in Ping : at'[q] = "unsent" <=> at[q] = "unsent"
    BY <1>2, <1>3
  <2>2. QED
    BY <1>2, <2>1, ClientKeeps DEF EchoInv
<1>6. \A q \in Ping : PingFits(q)'
  <2>1. PingFits(r)'
    BY <1>1, <1>2, <1>3 DEF PingFits
  <2>2. ASSUME NEW q \in Ping, q # r PROVE PingFits(q)'
    BY <1>1, <1>2, <1>3, <2>2 DEF EchoInv, PingFits
  <2>3. QED
    BY <2>1, <2>2
<1>7. NumbersFollowOrder'
  BY <1>2 DEF EchoInv, NumbersFollowOrder
<1>8. ASSUME NEW j \in Replica
      PROVE  /\ sequence'[j] = Cardinality(Taken(j)')
             /\ good'[j] = Cardinality(Answered(j)')
             /\ bad'[j] >= Cardinality(Erred(j)')
  <2>1. {j} # {}
    OBVIOUS
  <2>2. Taken(j)' = Taken(j)
    BY <1>1, <1>2, <2>1 DEF Taken
  <2>3. Answered(j)' = Answered(j)
    BY <1>1, <1>2, <2>1 DEF Answered
  <2>4. Erred(j)' = IF j = i THEN Erred(j) \cup {r} ELSE Erred(j)
    BY <1>1, <1>3, <2>1 DEF Erred
  <2>5. r \notin Erred(j) /\ Erred(j) \in SUBSET Ping
    BY <1>2 DEF Erred
  <2>6. Cardinality(Erred(j)') = IF j = i THEN Cardinality(Erred(j)) + 1 ELSE Cardinality(Erred(j))
    BY <2>4, <2>5, OneMore
  <2>7. bad[j] >= Cardinality(Erred(j)) /\ Cardinality(Erred(j)) \in Nat
    BY <2>5, PingsCounted DEF EchoInv
  <2>8. bad'[j] >= Cardinality(Erred(j)')
    BY <1>3, <2>6, <2>7
  <2>9. QED
    BY <1>2, <2>2, <2>3, <2>8 DEF EchoInv
<1>9. QED
  BY <1>4, <1>5, <1>6, <1>7, <1>8 DEF EchoInv

(* A request is answered, or its answer fails: it counts as a success or   *)
(* as a failure of the instance.                                           *)
LEMMA FinishCounts ==
  ASSUME EchoInv, NEW i \in Replica, NEW r \in Ping, Finishes(r, i),
         at[r] # "erred", number[r] = 0, by'[r] = {i}, sequence'[i] \in Nat \ {0},
         \A q \in Ping : q # r => by'[q] = by[q],
         by[r] = {} \/ by[r] = {i}
  PROVE  /\ \A j \in Replica : good'[j] = Cardinality(Answered(j)') /\ bad'[j] >= Cardinality(Erred(j)')
         /\ {good', bad'} \subseteq [Replica -> Nat] /\ number' \in [Ping -> Nat]
         /\ at' \in [Ping -> {"unsent", "sent", "delayed", "answered", "erred", "counted"}]
         /\ at'[r] \in {"answered", "erred"} /\ number'[r] \in {0, sequence'[i]}
         /\ \A q \in Ping : q # r => at'[q] = at[q] /\ number'[q] = number[q]
         /\ glitches' \in 0 .. MaxGlitches
<1>1. /\ {good, bad} \subseteq [Replica -> Nat] /\ number \in [Ping -> Nat]
      /\ at \in [Ping -> {"unsent", "sent", "delayed", "answered", "erred", "counted"}]
      /\ glitches \in 0 .. MaxGlitches
  BY DEF EchoInv, PingTypes
<1>2. glitches' \in 0 .. MaxGlitches
  BY <1>1, GlitchFits DEF Finishes
<1>3. ASSUME NEW j \in Replica
      PROVE  /\ r \notin Answered(j) /\ r \notin Erred(j)
             /\ Answered(j) \in SUBSET Ping /\ Erred(j) \in SUBSET Ping
             /\ Cardinality(Answered(j)) \in Nat /\ Cardinality(Erred(j)) \in Nat
             /\ good[j] = Cardinality(Answered(j)) /\ bad[j] >= Cardinality(Erred(j))
  BY PingsCounted DEF Answered, Erred, EchoInv
<1>4. CASE /\ at' = [at EXCEPT ![r] = "answered"] /\ good' = [good EXCEPT ![i] = @ + 1]
           /\ bad' = bad /\ number' = [number EXCEPT ![r] = sequence'[i]]
  <2>1. /\ at'[r] = "answered" /\ number'[r] = sequence'[i] /\ number' \in [Ping -> Nat]
        /\ at' \in [Ping -> {"unsent", "sent", "delayed", "answered", "erred", "counted"}]
        /\ \A q \in Ping : q # r => at'[q] = at[q] /\ number'[q] = number[q]
        /\ {good', bad'} \subseteq [Replica -> Nat]
        /\ \A j \in Replica : good'[j] = IF j = i THEN good[j] + 1 ELSE good[j]
    BY <1>1, <1>4
  <2>2. ASSUME NEW j \in Replica
        PROVE  good'[j] = Cardinality(Answered(j)') /\ bad'[j] >= Cardinality(Erred(j)')
    <3>1. Answered(j)' = IF j = i THEN Answered(j) \cup {r} ELSE Answered(j)
      BY <2>1 DEF Answered
    <3>2. Erred(j)' = Erred(j)
      BY <2>1 DEF Erred
    <3>3. Cardinality(Answered(j)')
            = IF j = i THEN Cardinality(Answered(j)) + 1 ELSE Cardinality(Answered(j))
      BY <1>3, <3>1, OneMore
    <3>4. QED
      BY <1>3, <1>4, <2>1, <3>2, <3>3
  <2>3. QED
    BY <1>2, <2>1, <2>2
<1>5. CASE /\ at' = [at EXCEPT ![r] = "erred"] /\ bad' = [bad EXCEPT ![i] = @ + 2]
           /\ good' = good /\ number' = number
  <2>1. /\ at'[r] = "erred" /\ number'[r] = 0 /\ number' \in [Ping -> Nat]
        /\ at' \in [Ping -> {"unsent", "sent", "delayed", "answered", "erred", "counted"}]
        /\ \A q \in Ping : q # r => at'[q] = at[q] /\ number'[q] = number[q]
        /\ {good', bad'} \subseteq [Replica -> Nat]
        /\ \A j \in Replica : bad'[j] = IF j = i THEN bad[j] + 2 ELSE bad[j]
        /\ \A j \in Replica : bad[j] \in Nat
    BY <1>1, <1>5
  <2>2. ASSUME NEW j \in Replica
        PROVE  good'[j] = Cardinality(Answered(j)') /\ bad'[j] >= Cardinality(Erred(j)')
    <3>1. Erred(j)' = IF j = i THEN Erred(j) \cup {r} ELSE Erred(j)
      BY <2>1 DEF Erred
    <3>2. Answered(j)' = Answered(j)
      BY <2>1 DEF Answered
    <3>3. Cardinality(Erred(j)')
            = IF j = i THEN Cardinality(Erred(j)) + 1 ELSE Cardinality(Erred(j))
      BY <1>3, <3>1, OneMore
    <3>4. good[j] = Cardinality(Answered(j)) /\ bad[j] >= Cardinality(Erred(j))
          /\ Cardinality(Erred(j)) \in Nat
      BY <1>3
    <3>5. QED
      BY <1>5, <2>1, <3>2, <3>3, <3>4
  <2>3. QED
    BY <1>2, <2>1, <2>2
<1>6. QED
  BY <1>4, <1>5 DEF Finishes

(* A request is taken up: its number, or its delay.                        *)
LEMMA ProcessStays ==
  ASSUME EchoInv, NEW i \in Replica, NEW r \in Ping, ProcessEcho(r, i)
  PROVE  EchoInv'
<1>1. /\ by[r] = {} /\ number[r] = 0 /\ by'[r] = {i} /\ by' \in [Ping -> SUBSET Replica]
      /\ \A q \in Ping : q # r => by'[q] = by[q]
  BY TakenOnce DEF ProcessEcho
<1>2. /\ shape[r] # "refused" /\ at[r] = "sent" /\ sequence' = [sequence EXCEPT ![i] = @ + 1]
      /\ rank' = [rank EXCEPT ![r] =
                    Cardinality({q \in Ping : by'[q] = {i} /\ shape[q] # "refused"})]
      /\ serving' = serving /\ nats' = nats /\ shape' = shape /\ UNCHANGED countVars
  BY DEF ProcessEcho, Take, replicaVars
<1>3. /\ sequence \in [Replica -> Nat] /\ rank \in [Ping -> Nat] /\ number \in [Ping -> Nat]
      /\ {good, bad} \subseteq [Replica -> Nat]
      /\ at \in [Ping -> {"unsent", "sent", "delayed", "answered", "erred", "counted"}]
      /\ shape \in [Ping -> {"simple", "delayed", "refused"}]
      /\ glitches \in 0 .. MaxGlitches
  BY DEF EchoInv, PingTypes
<1>4. \A j \in Replica : Taken(j)' = IF j = i THEN Taken(j) \cup {r} ELSE Taken(j)
  BY <1>1, <1>2 DEF Taken
<1>5. \A j \in Replica : /\ r \notin Taken(j) /\ Taken(j) \in SUBSET Ping
                         /\ Cardinality(Taken(j)) \in Nat /\ sequence[j] = Cardinality(Taken(j))
  BY <1>1, PingsCounted DEF Taken, EchoInv
<1>6. \A j \in Replica : sequence'[j] = Cardinality(Taken(j)')
  <2>1. ASSUME NEW j \in Replica
        PROVE  Cardinality(Taken(j)') = IF j = i THEN Cardinality(Taken(j)) + 1 ELSE Cardinality(Taken(j))
    BY <1>4, <1>5, OneMore
  <2>2. \A j \in Replica : sequence'[j] = IF j = i THEN sequence[j] + 1 ELSE sequence[j]
    BY <1>2, <1>3
  <2>3. QED
    BY <1>5, <2>1, <2>2
<1>7. /\ sequence' \in [Replica -> Nat] /\ sequence'[i] \in Nat \ {0}
      /\ \A j \in Replica : sequence[j] \in Nat /\ sequence'[j] >= sequence[j]
  BY <1>2, <1>3
<1>8. /\ rank'[r] = sequence'[i] /\ rank' \in [Ping -> Nat]
      /\ \A q \in Ping : q # r => rank'[q] = rank[q]
  <2>1. Taken(i)' = {q \in Ping : by'[q] = {i} /\ shape[q] # "refused"}
    BY <1>2 DEF Taken
  <2>2. rank' = [rank EXCEPT ![r] = sequence'[i]]
    BY <1>2, <1>6, <2>1
  <2>3. QED
    BY <1>3, <1>7, <2>2
<1>9. /\ \A j \in Replica : good'[j] = Cardinality(Answered(j)') /\ bad'[j] >= Cardinality(Erred(j)')
      /\ {good', bad'} \subseteq [Replica -> Nat] /\ number' \in [Ping -> Nat]
      /\ at' \in [Ping -> {"unsent", "sent", "delayed", "answered", "erred", "counted"}]
      /\ at'[r] \notin {"unsent", "sent"} /\ number'[r] \in {0, sequence'[i]}
      /\ at'[r] = "delayed" => number'[r] = 0 /\ shape[r] = "delayed"
      /\ \A q \in Ping : q # r => at'[q] = at[q] /\ number'[q] = number[q]
      /\ glitches' \in 0 .. MaxGlitches
  <2>1. CASE shape[r] = "delayed"
    <3>1. /\ at' = [at EXCEPT ![r] = "delayed"] /\ good' = good /\ bad' = bad /\ number' = number
          /\ glitches' = glitches
      BY <2>1 DEF ProcessEcho, NoGlitch
    <3>2. at'[r] = "delayed" /\ \A q \in Ping : q # r => at'[q] = at[q]
      BY <1>3, <3>1
    <3>3. ASSUME NEW j \in Replica PROVE Answered(j)' = Answered(j) /\ Erred(j)' = Erred(j)
      <4>1. Answered(j)' = Answered(j)
        BY <1>1, <3>1 DEF Answered
      <4>2. Erred(j)' = Erred(j)
        BY <1>1, <1>2, <3>2 DEF Erred
      <4>3. QED
        BY <4>1, <4>2
    <3>4. \A j \in Replica : good'[j] = Cardinality(Answered(j)') /\ bad'[j] >= Cardinality(Erred(j)')
      BY <3>1, <3>3 DEF EchoInv
    <3>5. QED
      BY <1>1, <1>3, <2>1, <3>1, <3>2, <3>4
  <2>2. CASE shape[r] # "delayed"
    <3>1. Finishes(r, i)
      BY <2>2 DEF ProcessEcho
    <3>2. /\ \A j \in Replica : good'[j] = Cardinality(Answered(j)') /\ bad'[j] >= Cardinality(Erred(j)')
          /\ {good', bad'} \subseteq [Replica -> Nat] /\ number' \in [Ping -> Nat]
          /\ at' \in [Ping -> {"unsent", "sent", "delayed", "answered", "erred", "counted"}]
          /\ at'[r] \in {"answered", "erred"} /\ number'[r] \in {0, sequence'[i]}
          /\ \A q \in Ping : q # r => at'[q] = at[q] /\ number'[q] = number[q]
          /\ glitches' \in 0 .. MaxGlitches
      BY <1>1, <1>2, <1>7, <3>1, FinishCounts
    <3>3. QED
      BY <3>2
  <2>3. QED
    BY <2>1, <2>2
<1>10. PingTypes'
  BY <1>1, <1>2, <1>7, <1>8, <1>9 DEF EchoInv, PingTypes
<1>11. ClientFits'
  <2>1. \A q \in Ping : at'[q] = "unsent" <=> at[q] = "unsent"
    BY <1>2, <1>9
  <2>2. QED
    BY <1>2, <2>1, ClientKeeps DEF EchoInv
<1>12. \A q \in Ping : PingFits(q)'
  <2>1. PingFits(r)'
    <3>1. \A j \in Replica : by'[r] = {j} => j = i
      BY <1>1
    <3>2. \A j \in Replica : by'[r] = {j} => 1 <= rank'[r] /\ rank'[r] <= sequence'[j]
      BY <1>7, <1>8, <3>1
    <3>3. QED
      BY <1>2, <1>9, <3>2 DEF PingFits
  <2>2. ASSUME NEW q \in Ping, q # r PROVE PingFits(q)'
    <3>1. /\ at'[q] = at[q] /\ number'[q] = number[q] /\ by'[q] = by[q] /\ rank'[q] = rank[q]
          /\ shape' = shape /\ rank[q] \in Nat
      BY <1>1, <1>2, <1>3, <1>8, <1>9, <2>2
    <3>2. ASSUME NEW j \in Replica, by[q] = {j}, shape[q] # "refused"
          PROVE  1 <= rank'[q] /\ rank'[q] <= sequence'[j]
      <4>1. 1 <= rank[q] /\ rank[q] <= sequence[j]
        BY <3>2 DEF EchoInv, PingFits
      <4>2. sequence[j] \in Nat /\ sequence'[j] \in Nat /\ sequence'[j] >= sequence[j]
        BY <1>7
      <4>3. QED
        BY <3>1, <4>1, <4>2
    <3>3. QED
      BY <3>1, <3>2 DEF EchoInv, PingFits
  <2>3. QED
    BY <2>1, <2>2
<1>13. NumbersFollowOrder'
  <2>1. number'[r] # 0 => number'[r] = rank'[r] /\ number'[r] >= rank'[r]
    BY <1>7, <1>8, <1>9
  <2>2. \A q \in Ping : q # r =>
          (number'[q] # 0 => number'[q] >= rank'[q] /\ (shape'[q] = "simple" => number'[q] = rank'[q]))
    BY <1>2, <1>8, <1>9 DEF EchoInv, NumbersFollowOrder
  <2>3. QED
    BY <2>1, <2>2 DEF NumbersFollowOrder
<1>14. QED
  BY <1>6, <1>9, <1>10, <1>11, <1>12, <1>13 DEF EchoInv

(* A delayed request is answered, with the number of now.                  *)
LEMMA WakeUpStays ==
  ASSUME EchoInv, NEW i \in Replica, NEW r \in Ping, WakeUp(r, i)
  PROVE  EchoInv'
<1>1. /\ at[r] = "delayed" /\ by[r] = {i} /\ sequence' = sequence /\ shape' = shape /\ by' = by
      /\ rank' = rank /\ serving' = serving /\ nats' = nats /\ UNCHANGED countVars
      /\ Finishes(r, i)
  BY DEF WakeUp, replicaVars
<1>2. /\ number[r] = 0 /\ shape[r] = "delayed" /\ 1 <= rank[r] /\ rank[r] <= sequence[i]
      /\ sequence[i] \in Nat /\ rank[r] \in Nat
  BY <1>1 DEF EchoInv, PingFits, PingTypes
<1>3. /\ sequence'[i] \in Nat \ {0} /\ by'[r] = {i} /\ at[r] # "erred"
      /\ \A q \in Ping : q # r => by'[q] = by[q]
  BY <1>1, <1>2
<1>4. /\ \A j \in Replica : good'[j] = Cardinality(Answered(j)') /\ bad'[j] >= Cardinality(Erred(j)')
      /\ {good', bad'} \subseteq [Replica -> Nat] /\ number' \in [Ping -> Nat]
      /\ at' \in [Ping -> {"unsent", "sent", "delayed", "answered", "erred", "counted"}]
      /\ at'[r] \in {"answered", "erred"} /\ number'[r] \in {0, sequence'[i]}
      /\ \A q \in Ping : q # r => at'[q] = at[q] /\ number'[q] = number[q]
      /\ glitches' \in 0 .. MaxGlitches
  BY <1>1, <1>2, <1>3, FinishCounts
<1>5. PingTypes'
  BY <1>1, <1>4 DEF EchoInv, PingTypes
<1>6. ClientFits'
  <2>1. \A q \in Ping : at'[q] = "unsent" <=> at[q] = "unsent"
    BY <1>1, <1>4
  <2>2. QED
    BY <1>1, <2>1, ClientKeeps DEF EchoInv
<1>7. \A q \in Ping : PingFits(q)'
  <2>1. PingFits(r)'
    <3>1. PingFits(r)
      BY DEF EchoInv
    <3>2. QED
      BY <1>1, <1>4, <3>1 DEF PingFits
  <2>2. ASSUME NEW q \in Ping, q # r PROVE PingFits(q)'
    <3>1. PingFits(q)
      BY DEF EchoInv
    <3>2. QED
      BY <1>1, <1>4, <2>2, <3>1 DEF PingFits
  <2>3. QED
    BY <2>1, <2>2
<1>8. NumbersFollowOrder'
  <2>1. shape'[r] # "simple" /\ (number'[r] # 0 => number'[r] >= rank'[r])
    BY <1>1, <1>2, <1>4
  <2>2. \A q \in Ping : q # r =>
          (number'[q] # 0 => number'[q] >= rank'[q] /\ (shape'[q] = "simple" => number'[q] = rank'[q]))
    BY <1>1, <1>4 DEF EchoInv, NumbersFollowOrder
  <2>3. QED
    BY <2>1, <2>2 DEF NumbersFollowOrder
<1>9. \A j \in Replica : sequence'[j] = Cardinality(Taken(j)')
  BY <1>1 DEF EchoInv, Taken
<1>10. QED
  BY <1>4, <1>5, <1>6, <1>7, <1>8, <1>9 DEF EchoInv

-----------------------------------------------------------------------------
(* The client.  The next batch is what follows on what was sent.           *)
LEMMA SendBatchStays ==
  ASSUME EchoInv, SendBatch
  PROVE  EchoInv'
<1>1. /\ sequence' = sequence /\ good' = good /\ bad' = bad /\ shape' = shape
      /\ by' = by /\ number' = number /\ rank' = rank /\ serving' = serving /\ nats' = nats
      /\ successes' = successes /\ errors' = errors /\ glitches' = glitches
      /\ inBatch = {}
      /\ inBatch' = {r \in NotSent : r <= MaxPings - Cardinality(NotSent) + BatchSize}
      /\ at' = [r \in Ping |-> IF r \in inBatch' THEN "sent" ELSE at[r]]
  BY DEF SendBatch, replicaVars, NoGlitch
<1>2. PICK k \in 0 .. MaxPings : \A r \in Ping : at[r] = "unsent" <=> r > k
  BY DEF EchoInv, ClientFits
<1>3. NotSent = k + 1 .. MaxPings
  BY <1>2, EchoBounds DEF NotSent, Ping
<1>4. Cardinality(NotSent) = MaxPings - k
  <2>1. k + 1 \in Int /\ MaxPings \in Int
    BY <1>2, EchoBounds
  <2>2. Cardinality(k + 1 .. MaxPings) = IF k + 1 > MaxPings THEN 0 ELSE MaxPings - (k + 1) + 1
    BY <2>1, FS_Interval
  <2>3. QED
    BY <1>2, <1>3, <2>2, EchoBounds
<1>5. inBatch' = {r \in k + 1 .. MaxPings : r <= k + BatchSize}
  <2>1. MaxPings - Cardinality(NotSent) + BatchSize = k + BatchSize
    BY <1>2, <1>4, EchoBounds
  <2>2. QED
    BY <1>1, <1>3, <2>1
<1>6. PICK n \in 0 .. MaxPings : n = IF k + BatchSize <= MaxPings THEN k + BatchSize ELSE MaxPings
  BY <1>2, EchoBounds
<1>7. inBatch' = k + 1 .. n
  BY <1>2, <1>5, <1>6, EchoBounds
<1>8. \A r \in Ping : at'[r] = IF r > k /\ r <= n THEN "sent" ELSE at[r]
  BY <1>1, <1>2, <1>6, <1>7, EchoBounds DEF Ping
<1>9. Cardinality(inBatch') = n - k /\ n - k <= BatchSize /\ inBatch' \subseteq Ping
  <2>1. k + 1 \in Int /\ n \in Int /\ n >= k
    BY <1>2, <1>6, EchoBounds
  <2>2. Cardinality(k + 1 .. n) = IF k + 1 > n THEN 0 ELSE n - (k + 1) + 1
    BY <2>1, FS_Interval
  <2>3. Cardinality(inBatch') = n - k
    BY <1>7, <2>1, <2>2, <1>2, <1>6
  <2>4. QED
    BY <1>2, <1>6, <1>7, <2>3, EchoBounds DEF Ping
<1>10. \A r \in Ping : at'[r] = "unsent" <=> r > n
  BY <1>2, <1>6, <1>8, EchoBounds DEF Ping
<1>11. ClientCountsOnce'
  <2>1. {r \in Ping : at[r] # "unsent"} = 1 .. k
    BY <1>2, EchoBounds DEF Ping
  <2>2. {r \in Ping : at'[r] # "unsent"} = 1 .. n
    BY <1>6, <1>10, EchoBounds DEF Ping
  <2>3. Cardinality(1 .. k) = k /\ Cardinality(1 .. n) = n
    <3>1. k \in Nat /\ n \in Nat
      BY EchoBounds
    <3>2. \A m \in Nat : Cardinality(1 .. m) = m
      <4>1. \A m \in Nat : Cardinality(1 .. m) = IF 1 > m THEN 0 ELSE m - 1 + 1
        BY FS_Interval
      <4>2. QED
        BY <4>1
    <3>3. QED
      BY <3>1, <3>2
  <2>4. successes + errors + 0 = k /\ successes \in Nat /\ errors \in Nat
    BY <1>1, <2>1, <2>3, NoPings DEF EchoInv, ClientFits, ClientCountsOnce
  <2>5. successes + errors + (n - k) = n
    BY <1>2, <1>6, <2>4
  <2>6. QED
    BY <1>1, <1>9, <2>2, <2>3, <2>5 DEF ClientCountsOnce
<1>12. ClientFits'
  BY <1>1, <1>6, <1>9, <1>10, <1>11 DEF EchoInv, ClientFits
<1>13. PingTypes'
  <2>1. at' \in [Ping -> {"unsent", "sent", "delayed", "answered", "erred", "counted"}]
    BY <1>1 DEF EchoInv, PingTypes
  <2>2. QED
    BY <1>1, <2>1 DEF EchoInv, PingTypes
<1>14. \A r \in Ping : at'[r] # at[r] => at[r] = "unsent" /\ at'[r] = "sent"
  BY <1>2, <1>8
<1>15. \A r \in Ping : PingFits(r)'
  BY <1>1, <1>14 DEF EchoInv, PingFits
<1>16. \A i \in Replica : Taken(i)' = Taken(i) /\ Answered(i)' = Answered(i) /\ Erred(i)' = Erred(i)
  BY <1>1, <1>14 DEF Taken, Answered, Erred
<1>17. QED
  BY <1>1, <1>12, <1>13, <1>15, <1>16 DEF EchoInv, NumbersFollowOrder

(* The client counts an answer.                                            *)
LEMMA CountAnswerStays ==
  ASSUME EchoInv, NEW r \in Ping, CountAnswer(r)
  PROVE  EchoInv'
<1>1. /\ sequence' = sequence /\ good' = good /\ bad' = bad /\ shape' = shape
      /\ by' = by /\ number' = number /\ rank' = rank /\ serving' = serving /\ nats' = nats
      /\ successes' = successes + 1 /\ errors' = errors /\ glitches' = glitches
      /\ r \in inBatch /\ inBatch' = inBatch \ {r}
      /\ at[r] \in {"answered", "erred"} /\ at' = [at EXCEPT ![r] = "counted"]
  BY DEF CountAnswer, EchoRest, replicaVars, NoGlitch
<1>2. at'[r] = "counted" /\ \A q \in Ping : q # r => at'[q] = at[q]
  BY <1>1 DEF EchoInv, PingTypes
<1>3. \A q \in Ping : at'[q] = "unsent" <=> at[q] = "unsent"
  BY <1>1, <1>2
<1>4. /\ inBatch' \subseteq Ping /\ Cardinality(inBatch') = Cardinality(inBatch) - 1
      /\ Cardinality(inBatch) \in Nat
  BY <1>1, OneLess, PingsCounted DEF EchoInv, ClientFits
<1>5. ClientFits'
  <2>1. {q \in Ping : at'[q] # "unsent"} = {q \in Ping : at[q] # "unsent"}
    BY <1>3
  <2>2. /\ successes + errors + Cardinality(inBatch) = Cardinality({q \in Ping : at[q] # "unsent"})
        /\ successes \in Nat /\ errors \in Nat /\ Cardinality(inBatch) <= BatchSize
    BY DEF EchoInv, ClientFits, ClientCountsOnce
  <2>3. /\ successes' + errors' + Cardinality(inBatch') = successes + errors + Cardinality(inBatch)
        /\ successes' \in Nat /\ errors' \in Nat /\ Cardinality(inBatch') <= BatchSize
    BY <1>1, <1>4, <2>2, EchoBounds
  <2>4. ClientCountsOnce'
    BY <2>1, <2>2, <2>3 DEF ClientCountsOnce
  <2>5. QED
    BY <1>3, <1>4, <2>3, <2>4 DEF EchoInv, ClientFits
<1>6. PingTypes'
  BY <1>1 DEF EchoInv, PingTypes
<1>7. \A q \in Ping : PingFits(q)'
  <2>1. \A q \in Ping : at'[q] = at[q] \/ at'[q] = "counted"
    BY <1>2
  <2>2. QED
    BY <1>1, <2>1 DEF EchoInv, PingFits
<1>8. ASSUME NEW i \in Replica PROVE bad'[i] >= Cardinality(Erred(i)')
  <2>1. Erred(i)' \subseteq Erred(i) /\ Erred(i) \subseteq Ping
    BY <1>1, <1>2 DEF Erred
  <2>2. Cardinality(Erred(i)') <= Cardinality(Erred(i)) /\ Cardinality(Erred(i)) \in Nat
        /\ Cardinality(Erred(i)') \in Nat
    BY <2>1, PingsCounted, FS_Subset
  <2>3. bad'[i] = bad[i] /\ bad[i] >= Cardinality(Erred(i)) /\ bad[i] \in Nat
    BY <1>1 DEF EchoInv, PingTypes
  <2>4. QED
    BY <2>2, <2>3
<1>9. \A i \in Replica : Taken(i)' = Taken(i) /\ Answered(i)' = Answered(i)
  BY <1>1 DEF Taken, Answered
<1>10. QED
  BY <1>1, <1>5, <1>6, <1>7, <1>8, <1>9 DEF EchoInv, NumbersFollowOrder

(* The client counts a timeout.                                            *)
LEMMA CountTimeoutStays ==
  ASSUME EchoInv, NEW r \in Ping, CountTimeout(r)
  PROVE  EchoInv'
<1>1. /\ sequence' = sequence /\ good' = good /\ bad' = bad /\ shape' = shape /\ at' = at
      /\ by' = by /\ number' = number /\ rank' = rank /\ serving' = serving /\ nats' = nats
      /\ successes' = successes /\ errors' = errors + 1
      /\ r \in inBatch /\ inBatch' = inBatch \ {r} /\ (Glitch \/ NoGlitch)
  BY DEF CountTimeout, EchoRest, replicaVars
<1>2. glitches' \in 0 .. MaxGlitches
  BY <1>1, GlitchFits DEF EchoInv, PingTypes
<1>3. /\ inBatch' \subseteq Ping /\ Cardinality(inBatch') = Cardinality(inBatch) - 1
      /\ Cardinality(inBatch) \in Nat
  BY <1>1, OneLess, PingsCounted DEF EchoInv, ClientFits
<1>4. ClientFits'
  <2>1. /\ successes + errors + Cardinality(inBatch) = Cardinality({q \in Ping : at[q] # "unsent"})
        /\ successes \in Nat /\ errors \in Nat /\ Cardinality(inBatch) <= BatchSize
    BY DEF EchoInv, ClientFits, ClientCountsOnce
  <2>2. /\ successes' + errors' + Cardinality(inBatch') = successes + errors + Cardinality(inBatch)
        /\ successes' \in Nat /\ errors' \in Nat /\ Cardinality(inBatch') <= BatchSize
    BY <1>1, <1>3, <2>1, EchoBounds
  <2>3. ClientCountsOnce'
    BY <1>1, <2>1, <2>2 DEF ClientCountsOnce
  <2>4. QED
    BY <1>1, <1>3, <2>2, <2>3 DEF EchoInv, ClientFits
<1>5. \A i \in Replica : Taken(i)' = Taken(i) /\ Answered(i)' = Answered(i) /\ Erred(i)' = Erred(i)
  BY <1>1 DEF Taken, Answered, Erred
<1>6. PingTypes'
  BY <1>1, <1>2 DEF EchoInv, PingTypes
<1>7. QED
  BY <1>1, <1>4, <1>5, <1>6 DEF EchoInv, PingFits, NumbersFollowOrder

(* Every step keeps the invariant.                                         *)
LEMMA EchoInductive ==
  ASSUME EchoInv, [EchoNext]_echoVars
  PROVE  EchoInv'
<1>1. CASE UNCHANGED echoVars
  <2>1. /\ UNCHANGED countVars /\ at' = at
    BY <1>1 DEF echoVars, countVars
  <2>2. ClientFits'
    BY <2>1, ClientKeeps DEF EchoInv
  <2>3. \A i : Taken(i)' = Taken(i) /\ Answered(i)' = Answered(i) /\ Erred(i)' = Erred(i)
    BY <1>1 DEF Taken, Answered, Erred, echoVars
  <2>4. QED
    BY <1>1, <2>2, <2>3 DEF EchoInv, PingTypes, PingFits, NumbersFollowOrder, echoVars
<1>2. CASE EchoNext
  BY <1>2, ReplicasStay, RefuseStays, ProcessStays, WakeUpStays, SendBatchStays,
     CountAnswerStays, CountTimeoutStays DEF EchoNext, ReplicaStep
<1>3. QED
  BY <1>1, <1>2

(* EchoSound, for every number of requests, instances and glitches and     *)
(* every size of a batch: the counts of the client and of the metrics, and *)
(* the numbers in the answers.                                             *)
THEOREM EchoNumbersAreRight == EchoSpec => []EchoSound
<1>1. EchoInv => EchoSound
  <2> SUFFICES ASSUME EchoInv PROVE EchoSound
    OBVIOUS
  <2>1. successes \in 0 .. Cardinality(Ping) /\ errors \in 0 .. Cardinality(Ping)
    <3>1. /\ successes + errors + Cardinality(inBatch) = Cardinality({q \in Ping : at[q] # "unsent"})
          /\ successes \in Nat /\ errors \in Nat /\ inBatch \in SUBSET Ping
      BY DEF EchoInv, ClientFits, ClientCountsOnce
    <3>2. {q \in Ping : at[q] # "unsent"} \in SUBSET Ping
      OBVIOUS
    <3>3. /\ Cardinality(inBatch) \in Nat /\ Cardinality({q \in Ping : at[q] # "unsent"}) \in Nat
          /\ Cardinality({q \in Ping : at[q] # "unsent"}) <= Cardinality(Ping)
      BY <3>1, <3>2, PingsCounted
    <3>4. Cardinality(Ping) \in Nat
      BY PingsCounted, EchoBounds
    <3>5. QED
      BY <3>1, <3>3, <3>4
  <2>2. EchoTypeOK
    BY <2>1 DEF EchoInv, PingTypes, ClientFits, EchoTypeOK
  <2>3. MetricsTell
    BY DEF EchoInv, MetricsTell, Answered, Erred
  <2>4. QED
    BY <2>2, <2>3 DEF EchoInv, ClientFits, EchoSound
<1>2. QED
  BY <1>1, EchoBegins, EchoInductive, PTL DEF EchoSpec

-----------------------------------------------------------------------------
(* HeartbeatElection                                                       *)

(* A number of seconds, small or counted.                                  *)
LEMMA SecondsCount ==
  ASSUME NEW k \in Nat, NEW m \in Nat, k <= 2 * m
  PROVE  k + 2 <= 2 * (m + 1) /\ k <= 2 * (m + 1)
OBVIOUS

(* No two of the set are different, or its cardinality says so.            *)
LEMMA OneAtMost ==
  ASSUME NEW S, \A a, b \in S : a = b
  PROVE  ~(Cardinality(S) > 1)
<1>1. CASE S = {}
  BY <1>1, FS_EmptySet
<1>2. CASE S # {}
  <2>1. PICK a \in S : TRUE
    BY <1>2
  <2>2. S = {a}
    BY <2>1
  <2>3. Cardinality({a}) = 1
    BY FS_Singleton, Zenon
  <2>4. QED
    BY <2>2, <2>3
<1>3. QED
  BY <1>1, <1>2

(* Who acts runs, and is not about to look again; the loops of the second  *)
(* example never turn.                                                     *)
RolesFit ==
  /\ acting \subseteq running /\ pausing \cap acting = {}
  /\ mode = "consumer" => acting = {} /\ arriving = {} /\ pausing = {}

(* Everybody but i has been told of i, or is about to be.                  *)
SentBy(i) ==
  \A j \in running \ {i} : <<i, j>> \in arriving \/ (j \notin acting /\ age[j] <= Silence)

(* Two that are active have paid for the seconds to the next heartbeat of  *)
(* one of them.                                                            *)
Paid ==
  \/ \A a, b \in acting : a = b
  \/ split + Period <= Period * mishaps
  \/ \E i \in Node : SentBy(i)
  \/ arriving = {} /\ \E i \in acting : split + due[i] <= Period * mishaps

(* Where nobody is active everybody has been without a heartbeat as long,  *)
(* and from the end of the silence on the next round is near.              *)
GapGrows ==
  /\ arriving # {} \/ acting # {} => gap = 0
  /\ \A i \in running : age[i] >= gap \/ age[i] > Silence
  /\ \A i \in running : gap > Silence + 1 => gap + due[i] <= Silence + 1 + Period

Held == {p \in Node \X Work : p[1] \in holder[p[2]]}
NonePending == \A w \in Work : ~Pending(w)
HeldCounted ==
  mode = "consumer" => /\ IsFiniteSet(Held) /\ Cardinality(Held) <= 1 + mishaps
                       /\ NonePending => Cardinality(Held) <= mishaps

LoopInv == RolesFit /\ SplitIsShort /\ Paid /\ GapGrows /\ GroupRecovers
ElectInv == ElectTypeOK /\ LoopInv /\ HeldCounted /\ DoneMeansHandled

(* The invariant holds at first.                                           *)
LEMMA ElectInitInv == ElectInit => ElectInv
<1> SUFFICES ASSUME ElectInit PROVE ElectInv
  OBVIOUS
<1>1. ElectTypeOK
  BY ElectionAssumption DEF ElectInit, ElectTypeOK, Silence, Period
<1>2. LoopInv
  BY ElectionAssumption
     DEF ElectInit, LoopInv, RolesFit, SplitIsShort, Paid, GapGrows, GroupRecovers, Silence, Period
<1>3. HeldCounted
  <2>1. Held = {}
    BY DEF ElectInit, Held
  <2>2. QED
    BY <2>1, FS_EmptySet DEF ElectInit, HeldCounted
<1>4. QED
  BY <1>1, <1>2, <1>3 DEF ElectInv, DoneMeansHandled, ElectInit

-----------------------------------------------------------------------------
(* A mishap pays for the seconds of one period.                            *)
LEMMA MishapPays ==
  ASSUME ElectTypeOK, SplitIsShort, Mishap
  PROVE  /\ mishaps' \in 0 .. MaxMishaps
         /\ \A s \in Nat : s <= split =>
              s <= Period * mishaps' /\ s + Period <= Period * mishaps'
<1>1. split \in Nat /\ mishaps \in Nat /\ split <= 2 * mishaps /\ mishaps' = mishaps + 1
      /\ mishaps < MaxMishaps /\ mishaps \in 0 .. MaxMishaps /\ MaxMishaps \in Nat
  BY ElectionAssumption DEF ElectTypeOK, SplitIsShort, Mishap, Period
<1>2. mishaps' \in 0 .. MaxMishaps
  BY <1>1
<1>3. split + 2 <= 2 * mishaps'
  BY <1>1
<1>4. \A s \in Nat : s <= split => s <= 2 * mishaps' /\ s + 2 <= 2 * mishaps'
  BY <1>1, <1>3
<1>5. QED
  BY <1>2, <1>4 DEF Period

(* A round that ends: the heartbeat is under way to everybody, or it       *)
(* failed, which is a mishap.                                              *)
LEMMA EndRoundPays ==
  ASSUME ElectTypeOK, RolesFit, SplitIsShort, NEW i \in running, EndRound(i, TRUE),
         running' = running, split' = split
  PROVE  /\ mishaps' \in 0 .. MaxMishaps
         /\ due' \in [Node -> 0 .. Period] /\ arriving' \subseteq Node \X Node
         /\ \A j \in Node : j # i => due'[j] = due[j]
         /\ SplitIsShort' /\ Paid'
<1>1. i \in Node /\ running \subseteq Node /\ due \in [Node -> 0 .. 2]
      /\ arriving \subseteq Node \X Node /\ split \in Nat /\ mishaps \in 0 .. MaxMishaps
  BY DEF ElectTypeOK, Period
<1>2. CASE Mishap /\ due' = [due EXCEPT ![i] = 1] /\ UNCHANGED arriving
  <2>1. mishaps' \in 0 .. MaxMishaps /\ SplitIsShort' /\ Paid'
    BY <1>1, <1>2, MishapPays DEF SplitIsShort, Paid
  <2>2. QED
    BY <1>1, <1>2, <2>1 DEF Period
<1>3. CASE /\ Fine /\ due' = [due EXCEPT ![i] = Period]
           /\ arriving' = arriving \cup {i} \X (running \ {i})
  <2>1. SentBy(i)'
    BY <1>3 DEF SentBy
  <2>2. mishaps' = mishaps
    BY <1>3 DEF Fine
  <2>3. SplitIsShort'
    BY <2>2 DEF SplitIsShort
  <2>4. Paid'
    BY <1>1, <2>1 DEF Paid
  <2>5. QED
    BY <1>1, <1>3, <2>2, <2>3, <2>4 DEF Period
<1>4. QED
  BY <1>2, <1>3 DEF EndRound

(* A round of one that does not act ends quietly.                          *)
LEMMA EndRoundQuiet ==
  ASSUME ElectTypeOK, NEW i \in running, EndRound(i, FALSE)
  PROVE  /\ mishaps' = mishaps /\ arriving' = arriving
         /\ due' \in [Node -> 0 .. Period]
         /\ due'[i] = Period /\ \A j \in Node : j # i => due'[j] = due[j]
<1>1. i \in Node /\ due \in [Node -> 0 .. 2]
  BY DEF ElectTypeOK, Period
<1>2. due' = [due EXCEPT ![i] = 2] /\ mishaps' = mishaps /\ arriving' = arriving
  BY DEF EndRound, Fine, Period
<1>3. QED
  BY <1>1, <1>2 DEF Period

-----------------------------------------------------------------------------
(* A round of the sticky loop.                                             *)
LEMMA RoundStays ==
  ASSUME ElectInv, NEW i \in Node, Round(i), mode = "sticky"
  PROVE  ElectTypeOK' /\ LoopInv'
<1> USE DEF ElectInv, LoopInv
<1>1. /\ i \in running /\ i \notin pausing /\ due[i] = 0
      /\ running' = running /\ acting' = acting /\ age' = age /\ split' = split /\ gap' = gap
      /\ elapsed' = elapsed /\ mode' = mode /\ holder' = holder /\ late' = late
      /\ acked' = acked /\ handled' = handled
  BY DEF Round, Due, workVars
<1>2. CASE Silent(i)
  <2>1. pausing' = pausing \cup {i} /\ mishaps' = mishaps /\ due' = due /\ arriving' = arriving
        /\ i \notin acting
    BY <1>2 DEF Round, Fine, Silent
  <2>2. ElectTypeOK'
    BY <1>1, <2>1 DEF ElectTypeOK
  <2>3. LoopInv'
    BY <1>1, <2>1 DEF RolesFit, SplitIsShort, Paid, SentBy, GapGrows, GroupRecovers
  <2>4. QED
    BY <2>2, <2>3
<1>3. CASE ~Silent(i) /\ i \in acting
  <2>1. EndRound(i, TRUE) /\ pausing' = pausing
    BY <1>3 DEF Round
  <2>2. /\ mishaps' \in 0 .. MaxMishaps
        /\ due' \in [Node -> 0 .. Period] /\ arriving' \subseteq Node \X Node
        /\ SplitIsShort' /\ Paid'
    BY <1>1, <2>1, EndRoundPays
  <2>3. ElectTypeOK'
    BY <1>1, <2>1, <2>2 DEF ElectTypeOK
  <2>4. gap = 0
    BY <1>3 DEF GapGrows
  <2>5. GapGrows' /\ GroupRecovers'
    BY <1>1, <2>4 DEF GapGrows, GroupRecovers, ElectTypeOK, Silence, Period
  <2>6. RolesFit'
    BY <1>1, <2>1 DEF RolesFit
  <2>7. QED
    BY <2>2, <2>3, <2>5, <2>6
<1>4. CASE ~Silent(i) /\ i \notin acting
  <2>1. EndRound(i, FALSE) /\ pausing' = pausing
    BY <1>4 DEF Round, EndRound
  <2>2. /\ mishaps' = mishaps /\ arriving' = arriving
        /\ due' \in [Node -> 0 .. Period]
        /\ due'[i] = Period /\ \A j \in Node : j # i => due'[j] = due[j]
    BY <1>1, <2>1, EndRoundQuiet
  <2>3. ElectTypeOK'
    BY <1>1, <2>1, <2>2 DEF ElectTypeOK
  <2>4. SplitIsShort' /\ RolesFit'
    BY <1>1, <2>1, <2>2 DEF SplitIsShort, RolesFit
  <2>5. Paid'
    <3>1. \A j \in acting : due'[j] = due[j]
      BY <1>4, <2>2 DEF ElectTypeOK
    <3>2. \A j \in Node : SentBy(j) => SentBy(j)'
      BY <1>1, <2>2 DEF SentBy
    <3>3. QED
      BY <1>1, <2>2, <3>1, <3>2 DEF Paid
  <2>6. GapGrows' /\ GroupRecovers'
    <3>1. gap <= 5
      BY <1>1, <1>4 DEF GapGrows, Silent, ElectTypeOK, Silence
    <3>2. QED
      BY <1>1, <2>2, <3>1 DEF GapGrows, GroupRecovers, ElectTypeOK, Silence, Period
  <2>7. QED
    BY <2>3, <2>4, <2>5, <2>6
<1>5. QED
  BY <1>2, <1>3, <1>4

(* The second look of an instance that saw no leader.                      *)
LEMMA LookAgainStays ==
  ASSUME ElectInv, NEW i \in Node, LookAgain(i), mode = "sticky"
  PROVE  ElectTypeOK' /\ LoopInv'
<1> USE DEF ElectInv, LoopInv
<1>1. /\ i \in running /\ i \in pausing /\ i \notin acting /\ due[i] = 0
      /\ running' = running /\ pausing' = pausing \ {i} /\ age' = age /\ split' = split
      /\ elapsed' = elapsed /\ mode' = mode /\ holder' = holder /\ late' = late
      /\ acked' = acked /\ handled' = handled
  BY DEF LookAgain, Due, workVars, RolesFit
<1>2. CASE age[i] > Silence
  <2>1. acting' = acting \cup {i} /\ gap' = 0 /\ EndRound(i, TRUE)
    BY <1>2 DEF LookAgain
  <2>2. /\ mishaps' \in 0 .. MaxMishaps
        /\ due' \in [Node -> 0 .. Period] /\ arriving' \subseteq Node \X Node
        /\ SplitIsShort' /\ Paid'
    BY <1>1, <2>1, EndRoundPays
  <2>3. ElectTypeOK'
    BY <1>1, <2>1, <2>2 DEF ElectTypeOK
  <2>4. GapGrows' /\ GroupRecovers'
    BY <1>1, <2>1 DEF GapGrows, GroupRecovers, ElectTypeOK, Silence, Period
  <2>5. RolesFit'
    BY <1>1, <2>1 DEF RolesFit
  <2>6. QED
    BY <2>2, <2>3, <2>4, <2>5
<1>3. CASE ~(age[i] > Silence)
  <2>1. acting' = acting /\ gap' = gap /\ EndRound(i, FALSE)
    BY <1>1, <1>3 DEF LookAgain, EndRound
  <2>2. /\ mishaps' = mishaps /\ arriving' = arriving
        /\ due' \in [Node -> 0 .. Period]
        /\ due'[i] = Period /\ \A j \in Node : j # i => due'[j] = due[j]
    BY <1>1, <2>1, EndRoundQuiet
  <2>3. ElectTypeOK'
    BY <1>1, <2>1, <2>2 DEF ElectTypeOK
  <2>4. SplitIsShort' /\ RolesFit'
    BY <1>1, <2>1, <2>2 DEF SplitIsShort, RolesFit
  <2>5. Paid'
    <3>1. \A j \in acting : due'[j] = due[j]
      BY <1>1, <2>2 DEF ElectTypeOK
    <3>2. \A j \in Node : SentBy(j) => SentBy(j)'
      BY <1>1, <2>1, <2>2 DEF SentBy
    <3>3. QED
      BY <1>1, <2>1, <2>2, <3>1, <3>2 DEF Paid
  <2>6. GapGrows' /\ GroupRecovers'
    <3>1. gap <= 5
      BY <1>1, <1>3 DEF GapGrows, ElectTypeOK, Silence
    <3>2. QED
      BY <1>1, <2>1, <2>2, <3>1 DEF GapGrows, GroupRecovers, ElectTypeOK, Silence, Period
  <2>7. QED
    BY <2>3, <2>4, <2>5, <2>6
<1>4. QED
  BY <1>2, <1>3

(* One who hears of another yields, and the silence ends.                  *)
LEMMA HearStays ==
  ASSUME ElectInv, NEW b \in arriving, Hear(b)
  PROVE  ElectTypeOK' /\ LoopInv'
<1> USE DEF ElectInv, LoopInv
<1>1. /\ arriving' = arriving \ {b} /\ acting' = acting \ {b[2]}
      /\ age' = [age EXCEPT ![b[2]] = 0] /\ mishaps' = mishaps
      /\ running' = running /\ pausing' = pausing /\ due' = due /\ split' = split
      /\ elapsed' = elapsed /\ mode' = mode /\ holder' = holder /\ late' = late
      /\ acked' = acked /\ handled' = handled /\ gap' = gap
  BY DEF Hear, Fine, workVars
<1>2. PICK x \in Node, y \in Node : b = <<x, y>>
  BY DEF ElectTypeOK
<1>3. b[2] = y
  BY <1>2
<1>4. /\ age' \in [Node -> 0 .. Silence + 1] /\ age'[y] = 0
      /\ \A j \in Node : j # y => age'[j] = age[j]
  BY <1>1, <1>3 DEF ElectTypeOK, Silence
<1>5. ElectTypeOK'
  BY <1>1, <1>4 DEF ElectTypeOK
<1>6. RolesFit' /\ SplitIsShort'
  BY <1>1 DEF RolesFit, SplitIsShort
<1>7. ASSUME NEW i \in Node, SentBy(i) PROVE SentBy(i)'
  <2> SUFFICES ASSUME NEW j \in running \ {i}
               PROVE  <<i, j>> \in arriving' \/ (j \notin acting' /\ age'[j] <= Silence)
    BY <1>1 DEF SentBy
  <2>1. j \in Node
    BY DEF ElectTypeOK
  <2>2. CASE j = y
    BY <1>1, <1>3, <1>4, <2>2 DEF Silence
  <2>3. CASE j # y
    BY <1>1, <1>2, <1>4, <1>7, <2>1, <2>3 DEF SentBy
  <2>4. QED
    BY <2>2, <2>3
<1>8. Paid'
  <2>1. arriving # {}
    OBVIOUS
  <2>2. CASE \A c, d \in acting : c = d
    BY <1>1, <2>2 DEF Paid
  <2>3. CASE split + Period <= Period * mishaps
    BY <1>1, <2>3 DEF Paid
  <2>4. CASE \E i \in Node : SentBy(i)
    BY <1>7, <2>4 DEF Paid
  <2>5. QED
    BY <2>1, <2>2, <2>3, <2>4 DEF Paid
<1>9. GapGrows' /\ GroupRecovers'
  <2>1. gap = 0
    BY DEF GapGrows
  <2>2. QED
    BY <1>1, <1>4, <2>1 DEF GapGrows, GroupRecovers, ElectTypeOK, Silence, Period
<1>10. QED
  BY <1>5, <1>6, <1>8, <1>9

(* A heartbeat is lost.                                                    *)
LEMMA LoseBeatStays ==
  ASSUME ElectInv, NEW b \in arriving, LoseBeat(b)
  PROVE  ElectTypeOK' /\ LoopInv'
<1> USE DEF ElectInv, LoopInv
<1>1. /\ arriving' = arriving \ {b} /\ acting' = acting /\ age' = age
      /\ running' = running /\ pausing' = pausing /\ due' = due /\ split' = split
      /\ elapsed' = elapsed /\ mode' = mode /\ holder' = holder /\ late' = late
      /\ acked' = acked /\ handled' = handled /\ gap' = gap
  BY DEF LoseBeat, workVars
<1>2. mishaps' \in 0 .. MaxMishaps /\ SplitIsShort' /\ Paid'
  BY <1>1, MishapPays DEF LoseBeat, SplitIsShort, Paid, ElectTypeOK
<1>3. ElectTypeOK'
  BY <1>1, <1>2 DEF ElectTypeOK
<1>4. RolesFit' /\ GapGrows' /\ GroupRecovers'
  BY <1>1 DEF RolesFit, GapGrows, GroupRecovers
<1>5. QED
  BY <1>2, <1>3, <1>4

(* An instance halts.                                                      *)
LEMMA HaltStays ==
  ASSUME ElectInv, NEW i \in Node, Halt(i)
  PROVE  ElectTypeOK' /\ LoopInv'
<1> USE DEF ElectInv, LoopInv
<1>1. /\ running' = running \ {i} /\ acting' = acting \ {i} /\ pausing' = pausing \ {i}
      /\ arriving' = {b \in arriving : b[2] # i} /\ age' = age /\ due' = due /\ split' = split
      /\ elapsed' = elapsed /\ mode' = mode /\ holder' = holder /\ late' = late
      /\ acked' = acked /\ handled' = handled /\ gap' = gap
  BY DEF Halt, workVars
<1>2. mishaps' \in 0 .. MaxMishaps /\ SplitIsShort' /\ Paid'
  BY <1>1, MishapPays DEF Halt, SplitIsShort, Paid, ElectTypeOK
<1>3. ElectTypeOK'
  BY <1>1, <1>2 DEF ElectTypeOK
<1>4. RolesFit' /\ GapGrows' /\ GroupRecovers'
  BY <1>1 DEF RolesFit, GapGrows, GroupRecovers
<1>5. QED
  BY <1>2, <1>3, <1>4

(* A second passes when no round is due and no heartbeat under way.        *)
LEMMA SecondStays ==
  ASSUME ElectInv, Second
  PROVE  ElectTypeOK' /\ LoopInv'
<1> USE DEF ElectInv, LoopInv
<1>1. /\ mode = "sticky" /\ elapsed < MaxClock /\ elapsed' = elapsed + 1
      /\ \A i \in running : due[i] > 0
      /\ arriving = {} /\ arriving' = {}
      /\ age' = [i \in Node |-> IF age[i] > Silence THEN age[i] ELSE age[i] + 1]
      /\ due' = [i \in Node |-> IF due[i] = 0 THEN 0 ELSE due[i] - 1]
      /\ split' = (IF Cardinality(acting) > 1 THEN split + 1 ELSE 0)
      /\ gap' = (IF acting = {} /\ running # {} THEN gap + 1 ELSE 0)
      /\ mishaps' = mishaps /\ running' = running /\ acting' = acting /\ pausing' = pausing
      /\ mode' = mode /\ holder' = holder /\ late' = late /\ acked' = acked /\ handled' = handled
  BY DEF Second, Fine, workVars
<1>2. /\ age \in [Node -> 0 .. 6] /\ due \in [Node -> 0 .. 2] /\ running \subseteq Node
      /\ elapsed \in 0 .. MaxClock /\ MaxClock \in Nat
      /\ mishaps \in Nat /\ split \in Nat /\ gap \in Nat /\ acting \subseteq running
  BY ElectionAssumption DEF ElectTypeOK, RolesFit, Silence, Period
<1>3. \A i \in Node : /\ age'[i] = (IF age[i] > 5 THEN age[i] ELSE age[i] + 1)
                      /\ due'[i] = (IF due[i] = 0 THEN 0 ELSE due[i] - 1)
                      /\ age'[i] \in 0 .. 6 /\ due'[i] \in 0 .. 2
  BY <1>1, <1>2 DEF Silence
<1>4. age' \in [Node -> 0 .. 6] /\ due' \in [Node -> 0 .. 2]
  BY <1>1, <1>3
<1>5. split' \in Nat /\ gap' \in Nat /\ elapsed' \in 0 .. MaxClock
  BY <1>1, <1>2
<1>6. ElectTypeOK'
  BY <1>1, <1>4, <1>5 DEF ElectTypeOK, Silence, Period
<1>7. RolesFit'
  BY <1>1 DEF RolesFit
<1>8. SplitIsShort' /\ Paid'
  <2>1. CASE \A a, b \in acting : a = b
    <3>1. split' = 0
      BY <1>1, <2>1, OneAtMost
    <3>2. QED
      BY <1>1, <1>2, <2>1, <3>1 DEF SplitIsShort, Paid, Period
  <2>2. CASE ~(\A a, b \in acting : a = b)
    <3>1. split' <= split + 1 /\ split' \in Nat
      BY <1>1, <1>2
    <3>2. ~\E i \in Node : SentBy(i)
      <4> SUFFICES ASSUME NEW i \in Node, SentBy(i) PROVE FALSE
        OBVIOUS
      <4>1. \A j \in acting : j = i
        BY <1>1, <1>2 DEF SentBy
      <4>2. QED
        BY <2>2, <4>1
    <3>3. PICK i \in acting : split + due[i] <= 2 * mishaps
      <4>1. CASE split + 2 <= 2 * mishaps
        <5>1. PICK i \in acting : TRUE
          BY <2>2
        <5>2. due[i] \in 0 .. 2
          BY <1>2, <5>1
        <5>3. split + due[i] <= 2 * mishaps
          BY <1>2, <4>1, <5>2
        <5>4. QED
          BY <5>3
      <4>2. QED
        BY <2>2, <3>2, <4>1 DEF Paid, Period
    <3>4. i \in Node /\ due[i] \in 1 .. 2 /\ due'[i] = due[i] - 1
      BY <1>1, <1>2, <1>3, <3>3
    <3>5. split' + due'[i] <= 2 * mishaps /\ split' <= 2 * mishaps
      BY <1>2, <3>1, <3>3, <3>4
    <3>6. QED
      BY <1>1, <3>3, <3>5 DEF SplitIsShort, Paid, Period
  <2>3. QED
    BY <2>1, <2>2
<1>9. GapGrows' /\ GroupRecovers'
  <2>1. CASE acting = {} /\ running # {}
    <3>1. gap' = gap + 1
      BY <1>1, <2>1
    <3>2. \A i \in running : age[i] >= gap \/ age[i] > 5
      BY DEF GapGrows, Silence
    <3>3. \A i \in running : age'[i] >= gap' \/ age'[i] > 5
      BY <1>2, <1>3, <3>1, <3>2
    <3>4. \A i \in running : gap > 6 => gap + due[i] <= 8
      BY DEF GapGrows, Silence, Period
    <3>5. \A i \in running : gap' > 6 => gap' + due'[i] <= 8
      BY <1>1, <1>2, <1>3, <3>1, <3>4
    <3>6. gap' <= 8
      BY <1>1, <1>2, <2>1, <3>1, <3>4
    <3>7. QED
      BY <1>1, <2>1, <3>3, <3>5, <3>6 DEF GapGrows, GroupRecovers, Silence, Period
  <2>2. CASE ~(acting = {} /\ running # {})
    <3>1. gap' = 0
      BY <1>1, <2>2
    <3>2. QED
      BY <1>1, <1>2, <1>3, <3>1 DEF GapGrows, GroupRecovers, Silence, Period
  <2>3. QED
    BY <2>1, <2>2
<1>10. QED
  BY <1>6, <1>7, <1>8, <1>9

-----------------------------------------------------------------------------
(* A step of the loops leaves the work alone.                              *)
LEMMA WorkAlone ==
  ASSUME ElectInv, ElectTypeOK', mode' = mode, holder' = holder, late' = late,
         acked' = acked, handled' = handled, mishaps' >= mishaps
  PROVE  HeldCounted' /\ DoneMeansHandled'
<1>1. Held' = Held /\ (NonePending' <=> NonePending)
  BY DEF Held, NonePending, Pending
<1>2. mishaps \in Nat /\ mishaps' \in Nat
  BY ElectionAssumption DEF ElectInv, ElectTypeOK
<1>3. HeldCounted'
  <2> SUFFICES ASSUME mode = "consumer"
               PROVE  /\ IsFiniteSet(Held) /\ Cardinality(Held) <= 1 + mishaps'
                      /\ NonePending => Cardinality(Held) <= mishaps'
    BY <1>1 DEF HeldCounted
  <2>1. /\ IsFiniteSet(Held) /\ Cardinality(Held) <= 1 + mishaps
        /\ NonePending => Cardinality(Held) <= mishaps
    BY DEF ElectInv, HeldCounted
  <2>2. Cardinality(Held) \in Nat
    BY <2>1, FS_CardinalityType
  <2>3. QED
    BY <1>2, <2>1, <2>2
<1>4. QED
  BY <1>3 DEF ElectInv, DoneMeansHandled

(* A step of the work leaves the loops alone, but may be a mishap.         *)
LEMMA LoopsAlone ==
  ASSUME ElectInv, WorkOnly, Fine \/ Mishap
  PROVE  LoopInv' /\ mishaps' \in 0 .. MaxMishaps
<1>1. /\ running' = running /\ acting' = acting /\ age' = age /\ due' = due
      /\ pausing' = pausing /\ arriving' = arriving /\ mode' = mode /\ split' = split
      /\ gap' = gap
  BY DEF WorkOnly, loopVars
<1>2. mishaps' \in 0 .. MaxMishaps /\ SplitIsShort' /\ Paid'
  <2>1. CASE Fine
    BY <1>1, <2>1 DEF ElectInv, LoopInv, ElectTypeOK, Fine, SplitIsShort, Paid, SentBy
  <2>2. CASE Mishap
    BY <1>1, <2>2, MishapPays DEF ElectInv, LoopInv, ElectTypeOK, SplitIsShort, Paid
  <2>3. QED
    BY <2>1, <2>2
<1>3. QED
  BY <1>1, <1>2 DEF ElectInv, LoopInv, RolesFit, GapGrows, GroupRecovers

(* An order is fetched from the queue.                                     *)
LEMMA FetchStays ==
  ASSUME ElectInv, NEW i \in Node, NEW w \in Work, Fetch(i, w)
  PROVE  ElectInv'
<1>1. /\ Waits(w) /\ MayPull(i) /\ holder' = [holder EXCEPT ![w] = @ \cup {i}]
      /\ late' = late \ {w} /\ mishaps' = mishaps /\ acked' = acked /\ handled' = handled
      /\ WorkOnly /\ mode' = mode /\ running' = running
  BY DEF Fetch, Fine, WorkOnly
<1>2. LoopInv'
  BY <1>1, LoopsAlone DEF Fine
<1>3. ElectTypeOK'
  <2>1. holder' \in [Work -> SUBSET Node] /\ late' \in SUBSET Work
    BY <1>1 DEF ElectInv, ElectTypeOK
  <2>2. QED
    BY <1>1, <2>1 DEF ElectInv, ElectTypeOK, WorkOnly, loopVars
<1>4. HeldCounted'
  <2> SUFFICES ASSUME mode = "consumer"
               PROVE  /\ IsFiniteSet(Held') /\ Cardinality(Held') <= 1 + mishaps
                      /\ NonePending' => Cardinality(Held') <= mishaps
    BY <1>1 DEF HeldCounted
  <2>1. NonePending
    BY <1>1 DEF MayPull, NonePending
  <2>2. IsFiniteSet(Held) /\ Cardinality(Held) <= mishaps
    BY <2>1 DEF ElectInv, HeldCounted
  <2>3. Held' = Held \cup {<<i, w>>}
    <3>1. \A v \in Work : holder'[v] = IF v = w THEN holder[w] \cup {i} ELSE holder[v]
      BY <1>1 DEF ElectInv, ElectTypeOK
    <3>2. \A x \in Node, v \in Work : x \in holder'[v] <=> x \in holder[v] \/ (x = i /\ v = w)
      BY <3>1
    <3>3. \A p \in Node \X Work :
            p[1] \in holder'[p[2]] <=> p[1] \in holder[p[2]] \/ p = <<i, w>>
      <4> SUFFICES ASSUME NEW x \in Node, NEW v \in Work
                   PROVE  x \in holder'[v] <=> x \in holder[v] \/ <<x, v>> = <<i, w>>
        OBVIOUS
      <4>1. <<x, v>> = <<i, w>> <=> x = i /\ v = w
        OBVIOUS
      <4>2. QED
        BY <3>2, <4>1
    <3>4. <<i, w>> \in Node \X Work
      OBVIOUS
    <3>5. QED
      BY <3>3, <3>4 DEF Held
  <2>4. IsFiniteSet(Held') /\ Cardinality(Held') <= Cardinality(Held) + 1
        /\ Cardinality(Held') \in Nat /\ Cardinality(Held) \in Nat
    <3>1. /\ IsFiniteSet(Held \cup {<<i, w>>}) /\ Cardinality(Held) \in Nat
          /\ \/ Cardinality(Held \cup {<<i, w>>}) = Cardinality(Held)
             \/ Cardinality(Held \cup {<<i, w>>}) = Cardinality(Held) + 1
      BY <2>2, FS_AddElement, FS_CardinalityType, Zenon
    <3>2. QED
      BY <2>3, <3>1
  <2>5. ~NonePending'
    BY <1>1 DEF NonePending, Pending, ElectInv, ElectTypeOK
  <2>6. mishaps \in Nat
    BY ElectionAssumption DEF ElectInv, ElectTypeOK
  <2>7. QED
    BY <2>2, <2>4, <2>5, <2>6
<1>5. QED
  BY <1>1, <1>2, <1>3, <1>4 DEF ElectInv, DoneMeansHandled

(* Somebody lets go of a piece of work: one pair fewer.                    *)
LEMMA LettingGoCounts ==
  ASSUME ElectInv, NEW i \in Node, NEW w \in Work, i \in holder[w], LetsGo(i, w),
         mode' = mode, mishaps' \in Nat, mishaps' >= mishaps
  PROVE  holder' \in [Work -> SUBSET Node] /\ late' \in SUBSET Work /\ HeldCounted'
<1>1. holder' = [holder EXCEPT ![w] = @ \ {i}] /\ late' = late \ {w}
  BY DEF LetsGo
<1>2. holder' \in [Work -> SUBSET Node] /\ late' \in SUBSET Work
  BY <1>1 DEF ElectInv, ElectTypeOK
<1>3. HeldCounted'
  <2> SUFFICES ASSUME mode = "consumer"
               PROVE  IsFiniteSet(Held') /\ Cardinality(Held') <= mishaps'
    <3>1. mishaps' <= 1 + mishaps'
      OBVIOUS
    <3>2. IsFiniteSet(Held') => Cardinality(Held') \in Nat
      BY FS_CardinalityType
    <3>3. QED
      BY <3>1, <3>2 DEF HeldCounted
  <2>1. IsFiniteSet(Held) /\ Cardinality(Held) <= 1 + mishaps
    BY DEF ElectInv, HeldCounted
  <2>2. Held' = Held \ {<<i, w>>} /\ <<i, w>> \in Held
    <3>1. \A v \in Work : holder'[v] = IF v = w THEN holder[w] \ {i} ELSE holder[v]
      BY <1>1 DEF ElectInv, ElectTypeOK
    <3>2. \A x \in Node, v \in Work : x \in holder'[v] <=> x \in holder[v] /\ ~(x = i /\ v = w)
      BY <3>1
    <3>3. QED
      BY <3>2 DEF Held
  <2>3. IsFiniteSet(Held') /\ Cardinality(Held') = Cardinality(Held) - 1
        /\ Cardinality(Held) \in Nat
    BY <2>1, <2>2, FS_RemoveElement, FS_CardinalityType
  <2>4. mishaps \in Nat
    BY ElectionAssumption DEF ElectInv, ElectTypeOK
  <2>5. QED
    BY <2>1, <2>3, <2>4
<1>4. QED
  BY <1>2, <1>3

(* An order goes back to the queue.                                        *)
LEMMA GiveBackStays ==
  ASSUME ElectInv, NEW i \in Node, NEW w \in Work, GiveBack(i, w)
  PROVE  ElectInv'
<1>1. /\ i \in holder[w] /\ LetsGo(i, w) /\ mishaps' = mishaps /\ acked' = acked
      /\ handled' = handled /\ WorkOnly /\ mode' = mode
  BY DEF GiveBack, Fine, WorkOnly
<1>2. LoopInv'
  BY <1>1, LoopsAlone DEF Fine
<1>3. mishaps \in Nat
  BY ElectionAssumption DEF ElectInv, ElectTypeOK
<1>4. holder' \in [Work -> SUBSET Node] /\ late' \in SUBSET Work /\ HeldCounted'
  BY <1>1, <1>3, LettingGoCounts
<1>5. ElectTypeOK'
  BY <1>1, <1>4 DEF ElectInv, ElectTypeOK, WorkOnly, loopVars
<1>6. QED
  BY <1>1, <1>2, <1>4, <1>5 DEF ElectInv, DoneMeansHandled

(* An order is processed.                                                  *)
LEMMA WorkStays ==
  ASSUME ElectInv, NEW i \in Node, NEW w \in Work, Process(i, w)
  PROVE  ElectInv'
<1>1. /\ i \in holder[w] /\ LetsGo(i, w) /\ WorkOnly /\ mode' = mode /\ (Fine \/ Mishap)
      /\ handled' = handled \/ handled' = [handled EXCEPT ![w] = @ + 1]
      /\ \/ acked' = acked
         \/ acked' = acked \cup {w} /\ handled' = [handled EXCEPT ![w] = @ + 1]
  BY DEF Process, WorkOnly
<1>2. LoopInv' /\ mishaps' \in 0 .. MaxMishaps
  BY <1>1, LoopsAlone
<1>3. mishaps \in Nat /\ mishaps' \in Nat /\ mishaps' >= mishaps
  BY <1>1, ElectionAssumption DEF ElectInv, ElectTypeOK, Fine, Mishap
<1>4. holder' \in [Work -> SUBSET Node] /\ late' \in SUBSET Work /\ HeldCounted'
  BY <1>1, <1>3, LettingGoCounts
<1>5. handled' \in [Work -> Nat] /\ acked' \in SUBSET Work
  BY <1>1 DEF ElectInv, ElectTypeOK
<1>6. ElectTypeOK'
  BY <1>1, <1>2, <1>4, <1>5 DEF ElectInv, ElectTypeOK, WorkOnly, loopVars
<1>7. DoneMeansHandled'
  <2>1. \A v \in Work : handled'[v] >= handled[v] /\ handled[v] \in Nat /\ handled'[v] \in Nat
    BY <1>1, <1>5 DEF ElectInv, ElectTypeOK
  <2>2. \A v \in acked' : v \in acked \/ (v = w /\ handled'[w] > 0)
    BY <1>1 DEF ElectInv, ElectTypeOK
  <2>3. \A v \in acked : v \in Work /\ handled[v] > 0
    BY DEF ElectInv, ElectTypeOK, DoneMeansHandled
  <2>4. QED
    BY <2>1, <2>2, <2>3 DEF DoneMeansHandled
<1>8. QED
  BY <1>2, <1>4, <1>6, <1>7 DEF ElectInv

(* What is given out again is late from now on; a holder that was stopped  *)
(* holds it no longer.                                                     *)
LEMMA RedeliverStays ==
  ASSUME ElectInv, NEW w \in Work, Redeliver(w)
  PROVE  ElectInv'
<1>1. /\ Pending(w) /\ holder' = [holder EXCEPT ![w] = @ \cap running]
      /\ late' = late \cup {w} /\ acked' = acked /\ handled' = handled
      /\ WorkOnly /\ mode' = mode /\ (Fine \/ Mishap)
      /\ holder[w] \cap running # {} => Mishap
  BY DEF Redeliver, WorkOnly
<1>2. LoopInv' /\ mishaps' \in 0 .. MaxMishaps
  BY <1>1, LoopsAlone
<1>3. holder' \in [Work -> SUBSET Node] /\ late' \in SUBSET Work
  BY <1>1 DEF ElectInv, ElectTypeOK
<1>4. ElectTypeOK'
  BY <1>1, <1>2, <1>3 DEF ElectInv, ElectTypeOK, WorkOnly, loopVars
<1>5. HeldCounted'
  <2> SUFFICES ASSUME mode = "consumer"
               PROVE  IsFiniteSet(Held') /\ Cardinality(Held') <= mishaps'
    <3>1. mishaps' \in Nat /\ mishaps' <= 1 + mishaps'
      <4>1. MaxMishaps \in Nat
        BY ElectionAssumption
      <4>2. \A k \in 0 .. MaxMishaps : k \in Nat /\ k <= 1 + k
        BY <4>1
      <4>3. QED
        BY <1>2, <4>2
    <3>2. IsFiniteSet(Held') => Cardinality(Held') \in Nat
      BY FS_CardinalityType
    <3>3. QED
      BY <1>1, <3>1, <3>2 DEF HeldCounted
  <2>1. IsFiniteSet(Held) /\ Cardinality(Held) <= 1 + mishaps /\ mishaps \in Nat
    BY ElectionAssumption DEF ElectInv, HeldCounted, ElectTypeOK
  <2>2. \A v \in Work : holder'[v] = IF v = w THEN holder[w] \cap running ELSE holder[v]
    BY <1>1 DEF ElectInv, ElectTypeOK
  <2>3. Held' \in SUBSET Held
    BY <2>2 DEF Held
  <2>4. /\ IsFiniteSet(Held') /\ Cardinality(Held') <= Cardinality(Held)
        /\ Cardinality(Held') \in Nat /\ Cardinality(Held) \in Nat
    BY <2>1, <2>3, FS_Subset, FS_CardinalityType
  <2>5. CASE Mishap
    BY <2>1, <2>4, <2>5 DEF Mishap
  <2>6. CASE ~Mishap
    <3>1. mishaps' = mishaps /\ holder'[w] = {}
      BY <1>1, <2>2, <2>6 DEF Fine
    <3>2. PICK i \in holder[w] : TRUE
      BY <1>1 DEF Pending
    <3>3. i \in Node
      BY <3>2 DEF ElectInv, ElectTypeOK
    <3>4. <<i, w>> \in Held /\ <<i, w>> \notin Held'
      BY <3>1, <3>2, <3>3 DEF Held
    <3>5. Held' # Held
      BY <3>4
    <3>6. Cardinality(Held') # Cardinality(Held)
      BY <2>1, <2>3, <3>5, FS_Subset
    <3>7. QED
      BY <2>1, <2>4, <3>1, <3>6
  <2>7. QED
    BY <2>4, <2>5, <2>6
<1>6. QED
  BY <1>1, <1>2, <1>4, <1>5 DEF ElectInv, DoneMeansHandled

-----------------------------------------------------------------------------
(* Every step keeps the invariant.                                         *)
LEMMA ElectStep ==
  ASSUME ElectInv, [ElectNext]_electVars
  PROVE  ElectInv'
<1> DEFINE quiet == /\ mode' = mode /\ holder' = holder /\ late' = late /\ acked' = acked
                    /\ handled' = handled /\ mishaps' >= mishaps
<1>0. mishaps \in Nat
  BY ElectionAssumption DEF ElectInv, ElectTypeOK
<1>1. ASSUME LoopStep PROVE ElectInv'
  <2>1. PICK i \in Node : Round(i) \/ LookAgain(i)
    BY <1>1 DEF LoopStep
  <2>2. ElectTypeOK' /\ LoopInv'
    BY <1>1, <2>1, RoundStays, LookAgainStays DEF LoopStep
  <2>3. quiet
    BY <1>0, <2>1 DEF Round, LookAgain, EndRound, workVars, Fine, Mishap
  <2>4. HeldCounted' /\ DoneMeansHandled'
    BY <2>2, <2>3, WorkAlone
  <2>5. QED
    BY <2>2, <2>4 DEF ElectInv
<1>2. ASSUME NEW b \in arriving, Hear(b) \/ LoseBeat(b) PROVE ElectInv'
  <2>1. ElectTypeOK' /\ LoopInv'
    BY <1>2, HearStays, LoseBeatStays
  <2>2. quiet
    BY <1>0, <1>2 DEF Hear, LoseBeat, workVars, Fine, Mishap
  <2>3. HeldCounted' /\ DoneMeansHandled'
    BY <2>1, <2>2, WorkAlone
  <2>4. QED
    BY <2>1, <2>3 DEF ElectInv
<1>3. ASSUME NEW i \in Node, Halt(i) PROVE ElectInv'
  <2>1. ElectTypeOK' /\ LoopInv'
    BY <1>3, HaltStays
  <2>2. quiet
    BY <1>0, <1>3 DEF Halt, workVars, Mishap
  <2>3. HeldCounted' /\ DoneMeansHandled'
    BY <2>1, <2>2, WorkAlone
  <2>4. QED
    BY <2>1, <2>3 DEF ElectInv
<1>4. ASSUME Second PROVE ElectInv'
  <2>1. ElectTypeOK' /\ LoopInv'
    BY <1>4, SecondStays
  <2>2. quiet
    BY <1>0, <1>4 DEF Second, workVars, Fine
  <2>3. HeldCounted' /\ DoneMeansHandled'
    BY <2>1, <2>2, WorkAlone
  <2>4. QED
    BY <2>1, <2>3 DEF ElectInv
<1>5. ASSUME WorkStep PROVE ElectInv'
  BY <1>5, FetchStays, GiveBackStays, WorkStays, RedeliverStays DEF WorkStep
<1>6. ASSUME UNCHANGED electVars PROVE ElectInv'
  <2>1. ElectTypeOK' /\ LoopInv' /\ quiet
    BY <1>0, <1>6
       DEF electVars, loopVars, workVars, ElectInv, ElectTypeOK, LoopInv, RolesFit, SplitIsShort,
           Paid, SentBy, GapGrows, GroupRecovers
  <2>2. HeldCounted' /\ DoneMeansHandled'
    BY <2>1, WorkAlone
  <2>3. QED
    BY <2>1, <2>2 DEF ElectInv
<1>7. QED
  BY <1>1, <1>2, <1>3, <1>4, <1>5, <1>6 DEF ElectNext, Arrive

(* Without a lock there are two active instances only for moments, paid    *)
(* for by lost heartbeats, and soon one again; orders are worked at one at *)
(* a time but for the slow ones; what leaves the queue was processed.      *)
THEOREM OneIsActiveSoon == ElectSpec => []ElectionsSound
<1>1. ElectInv => ElectionsSound
  <2> SUFFICES ASSUME ElectInv PROVE OneOrderAtATime
    BY DEF ElectInv, LoopInv, ElectionsSound
  <2>1. QED
    BY DEF ElectInv, HeldCounted, Held, OneOrderAtATime
<1>2. QED
  BY <1>1, ElectInitInv, ElectStep, PTL DEF ElectSpec

-----------------------------------------------------------------------------
(* InstanceRecords                                                         *)

(* The record of a crashed instance is as old as its crash, or older.      *)
Aged == \A i \in Inst : up[i] = "crashed" /\ Kept(i) => record[i].age >= gone[i]

(* Who had been dead too long when the reading began still is.             *)
StillExpired == \A i \in expired : up[i] = "crashed" /\ gone[i] > Stale

(* Who was fit to be shown all along is, and is shown or still to be read. *)
StillFit ==
  reader # "idle" =>
    \A i \in Inst \ absent :
      /\ Kept(i) /\ Takes(reader, record[i])
      /\ ~slipped => i \in answer \cup unread

(* A run of the script that has begun is one of those the bound allows.    *)
MayClean == reader = "script" => cleans < MaxCleans

RecordInv ==
  RecordTypeOK /\ Aged /\ StillExpired /\ StillFit /\ MayClean /\ DeadIsNotShown

(* An age grows up to the bound, and keeps its order.                      *)
LEMMA OlderIs ==
  ASSUME NEW a \in 0 .. MaxAge
  PROVE  Older(a) \in 0 .. MaxAge /\ Older(a) >= a /\ \A b \in 0 .. MaxAge : a >= b => Older(a) >= Older(b)
BY RecordAssumption DEF Older, MaxAge

(* A record of another age.                                                *)
LEMMA OldRecord ==
  ASSUME NEW r \in Record, NEW a \in 0 .. MaxAge
  PROVE  /\ [r EXCEPT !.age = a] \in Record /\ [r EXCEPT !.age = a].age = a
         /\ [r EXCEPT !.age = a].status = r.status
BY DEF Record

(* A change of the records: the reading under way notes who is not fit.    *)
LEMMA NotingKeeps ==
  ASSUME RecordInv, readingVars' = readingVars, Noting
  PROVE  StillFit' /\ absent' \subseteq Inst /\ absent' \in SUBSET Inst
<1>1. reader' = reader /\ unread' = unread /\ answer' = answer /\ slipped' = slipped
  BY DEF readingVars
<1>2. CASE reader = "idle"
  BY <1>1, <1>2 DEF Noting, StillFit
<1>3. CASE reader # "idle"
  <2>1. absent' = absent \cup {i \in Inst : ~Fit(record'[i])}
    BY <1>3 DEF Noting
  <2>2. \A i \in Inst \ absent' : i \in Inst \ absent /\ Fit(record'[i])
    BY <2>1
  <2>3. \A i \in Inst \ absent' : Kept(i)' /\ Takes(reader, record'[i])
    BY <1>1, <2>2 DEF Fit, Kept
  <2>4. \A i \in Inst \ absent' : ~slipped => i \in answer \cup unread
    BY <1>3, <2>2 DEF RecordInv, StillFit
  <2>5. absent' \subseteq Inst
    BY <2>1 DEF RecordInv, RecordTypeOK
  <2>6. StillFit'
    BY <1>1, <2>3, <2>4 DEF StillFit, Takes
  <2>7. QED
    BY <2>5, <2>6
<1>4. QED
  BY <1>2, <1>3

(* What leaves the reading alone, and nobody's death undone.               *)
LEMMA InstancesKeep ==
  ASSUME RecordInv, readingVars' = readingVars, Noting, doomed' \subseteq doomed,
         cleans' = cleans, recordFaults' = recordFaults,
         record' \in [Inst -> Record \cup {NoRecord}],
         up' \in [Inst -> {"up", "crashed", "off"}], beat' \in [Inst -> {"waits", "due"}],
         gone' \in [Inst -> 0 .. MaxAge], Aged',
         \A i \in Inst : up[i] = "crashed" => up'[i] = "crashed" /\ gone'[i] >= gone[i]
  PROVE  RecordInv'
<1>1. StillFit' /\ absent' \subseteq Inst
  BY NotingKeeps
<1>2. reader' = reader /\ unread' = unread /\ answer' = answer /\ slipped' = slipped
      /\ expired' = expired
  BY DEF readingVars, scriptVars
<1>3. RecordTypeOK'
  BY <1>1, <1>2 DEF RecordInv, RecordTypeOK
<1>4. DeadIsNotShown' /\ MayClean'
  BY <1>2 DEF RecordInv, DeadIsNotShown, MayClean
<1>5. StillExpired'
  <2> SUFFICES ASSUME NEW i \in expired PROVE up'[i] = "crashed" /\ gone'[i] > Stale
    BY <1>2 DEF StillExpired
  <2>1. i \in Inst /\ up[i] = "crashed" /\ gone[i] > Stale
    BY DEF RecordInv, RecordTypeOK, StillExpired
  <2>2. gone'[i] >= gone[i] /\ gone[i] \in Nat /\ gone'[i] \in Nat /\ Stale \in Nat
    BY <2>1, RecordAssumption DEF RecordInv, RecordTypeOK, MaxAge
  <2>3. QED
    BY <2>1, <2>2
<1>6. QED
  BY <1>1, <1>3, <1>4, <1>5 DEF RecordInv

(* The invariant holds at first.                                           *)
LEMMA RecordInitInv == RecordInit => RecordInv
<1> SUFFICES ASSUME RecordInit PROVE RecordInv
  OBVIOUS
<1>1. 0 \in 0 .. MaxAge /\ 0 \in 0 .. MaxCleans /\ 0 \in 0 .. MaxRecordFaults
  BY RecordAssumption DEF MaxAge
<1>2. RecordTypeOK
  BY <1>1 DEF RecordInit, RecordTypeOK, Reading
<1>3. QED
  BY <1>2 DEF RecordInit, RecordInv, Aged, StillExpired, StillFit, DeadIsNotShown, MayClean, Kept

(* An instance writes or removes its record, or the script does.           *)
LEMMA InstanceStays ==
  ASSUME RecordInv, NEW i \in Inst, Start(i) \/ Beat(i) \/ Deregister(i) \/ ScriptDeletes(i)
  PROVE  RecordInv'
<1>1. /\ record \in [Inst -> Record \cup {NoRecord}] /\ up \in [Inst -> {"up", "crashed", "off"}]
      /\ beat \in [Inst -> {"waits", "due"}] /\ gone \in [Inst -> 0 .. MaxAge]
      /\ gone' = gone /\ recordFaults' = recordFaults
  BY DEF RecordInv, RecordTypeOK, Start, Beat, Deregister, ScriptDeletes
<1>2. Noting /\ readingVars' = readingVars
      /\ doomed' \subseteq doomed /\ cleans' = cleans
  <2>1. CASE Start(i) \/ Beat(i) \/ Deregister(i)
    BY <2>1 DEF Start, Beat, Deregister, readingVars, scriptVars
  <2>2. CASE ScriptDeletes(i)
    BY <2>2 DEF ScriptDeletes, readingVars, scriptVars
  <2>3. QED
    BY <2>1, <2>2
<1>3. PICK r \in Record \cup {NoRecord} : record' = [record EXCEPT ![i] = r]
  <2>1. \A s \in RecordStatus : [status |-> s, age |-> 0] \in Record
    BY RecordAssumption DEF Record, MaxAge
  <2>2. "ACTIVE" \in RecordStatus
    BY DEF RecordStatus
  <2>3. QED
    BY <2>1, <2>2 DEF Start, Beat, Deregister, ScriptDeletes
<1>4. record' \in [Inst -> Record \cup {NoRecord}] /\ \A j \in Inst : j # i => record'[j] = record[j]
  BY <1>1, <1>3
<1>5. /\ up' \in [Inst -> {"up", "crashed", "off"}] /\ beat' \in [Inst -> {"waits", "due"}]
      /\ \A j \in Inst : up[j] = "crashed" => up'[j] = "crashed"
      /\ \A j \in Inst : up'[j] = "crashed" => up[j] = "crashed"
  BY <1>1 DEF Start, Beat, Deregister, ScriptDeletes
<1>6. up'[i] = "crashed" => record'[i] = NoRecord
  BY <1>1 DEF Start, Beat, Deregister, ScriptDeletes
<1>7. Aged'
  BY <1>1, <1>4, <1>5, <1>6 DEF Aged, Kept, RecordInv
<1>8. \A j \in Inst : gone'[j] >= gone[j]
  BY <1>1, RecordAssumption DEF MaxAge
<1>9. QED
  BY <1>1, <1>2, <1>4, <1>5, <1>7, <1>8, InstancesKeep

(* An instance crashes.                                                    *)
LEMMA CrashStays ==
  ASSUME RecordInv, NEW i \in Inst, Crash(i)
  PROVE  RecordInv'
<1>1. /\ record \in [Inst -> Record \cup {NoRecord}] /\ up \in [Inst -> {"up", "crashed", "off"}]
      /\ beat \in [Inst -> {"waits", "due"}] /\ gone \in [Inst -> 0 .. MaxAge]
      /\ up[i] = "up" /\ up' = [up EXCEPT ![i] = "crashed"] /\ gone' = [gone EXCEPT ![i] = 0]
      /\ beat' = [beat EXCEPT ![i] = "waits"] /\ record' = record /\ absent' = absent
      /\ reader' = reader /\ unread' = unread /\ answer' = answer /\ slipped' = slipped
      /\ expired' = expired /\ doomed' = doomed /\ cleans' = cleans /\ recordFaults' = recordFaults
  BY DEF RecordInv, RecordTypeOK, Crash, readingVars, scriptVars
<1>2. 0 \in 0 .. MaxAge
  BY RecordAssumption DEF MaxAge
<1>3. RecordTypeOK'
  BY <1>1, <1>2 DEF RecordInv, RecordTypeOK
<1>4. Aged'
  <2> SUFFICES ASSUME NEW j \in Inst, up'[j] = "crashed", Kept(j) PROVE record[j].age >= gone'[j]
    BY <1>1 DEF Aged, Kept
  <2>1. CASE j = i
    <3>1. record[j].age \in 0 .. MaxAge
      BY <1>1 DEF Kept, Record
    <3>2. QED
      BY <1>1, <2>1, <3>1
  <2>2. CASE j # i
    BY <1>1, <2>2 DEF RecordInv, Aged
  <2>3. QED
    BY <2>1, <2>2
<1>5. StillExpired'
  <2>1. i \notin expired
    BY <1>1 DEF RecordInv, StillExpired
  <2>2. QED
    BY <1>1, <2>1 DEF RecordInv, RecordTypeOK, StillExpired
<1>6. StillFit' /\ DeadIsNotShown' /\ MayClean'
  BY <1>1 DEF RecordInv, StillFit, DeadIsNotShown, Kept, Takes, MayClean
<1>7. QED
  BY <1>3, <1>4, <1>5, <1>6 DEF RecordInv

(* Every record and every crash grows older together.                      *)
LEMMA TickStays ==
  ASSUME RecordInv, Tick
  PROVE  RecordInv'
<1>1. /\ record \in [Inst -> Record \cup {NoRecord}] /\ up \in [Inst -> {"up", "crashed", "off"}]
      /\ gone \in [Inst -> 0 .. MaxAge] /\ up' = up /\ recordFaults' = recordFaults
      /\ beat' = [i \in Inst |-> IF up[i] = "up" THEN "due" ELSE "waits"]
      /\ record' = [i \in Inst |-> IF Kept(i) THEN [record[i] EXCEPT !.age = Older(@)] ELSE NoRecord]
      /\ gone' = [i \in Inst |-> IF up[i] = "crashed" THEN Older(gone[i]) ELSE gone[i]]
  BY DEF RecordInv, RecordTypeOK, Tick
<1>2. \A i \in Inst : Kept(i) => /\ record[i] \in Record /\ record[i].age \in 0 .. MaxAge
                                 /\ record'[i] = [record[i] EXCEPT !.age = Older(record[i].age)]
                                 /\ record'[i] \in Record /\ record'[i].age = Older(record[i].age)
  <2> SUFFICES ASSUME NEW i \in Inst, Kept(i)
               PROVE  /\ record[i] \in Record /\ record[i].age \in 0 .. MaxAge
                      /\ record'[i] = [record[i] EXCEPT !.age = Older(record[i].age)]
                      /\ record'[i] \in Record /\ record'[i].age = Older(record[i].age)
    OBVIOUS
  <2>1. record[i] \in Record
    BY <1>1 DEF Kept
  <2>2. record[i].age \in 0 .. MaxAge
    BY <2>1 DEF Record
  <2>3. record'[i] = [record[i] EXCEPT !.age = Older(record[i].age)]
    BY <1>1
  <2>4. Older(record[i].age) \in 0 .. MaxAge
    BY <2>2, OlderIs
  <2>5. QED
    BY <2>1, <2>2, <2>3, <2>4, OldRecord
<1>3. \A i \in Inst : ~Kept(i) => record'[i] = NoRecord
  BY <1>1
<1>4. record' \in [Inst -> Record \cup {NoRecord}]
  BY <1>1, <1>2, <1>3
<1>5. \A i \in Inst : /\ gone[i] \in 0 .. MaxAge /\ gone'[i] \in 0 .. MaxAge /\ gone'[i] >= gone[i]
                      /\ up[i] = "crashed" => gone'[i] = Older(gone[i])
  <2> SUFFICES ASSUME NEW i \in Inst
               PROVE  /\ gone[i] \in 0 .. MaxAge /\ gone'[i] \in 0 .. MaxAge /\ gone'[i] >= gone[i]
                      /\ up[i] = "crashed" => gone'[i] = Older(gone[i])
    OBVIOUS
  <2>1. gone[i] \in 0 .. MaxAge /\ gone'[i] = IF up[i] = "crashed" THEN Older(gone[i]) ELSE gone[i]
    BY <1>1
  <2>2. QED
    BY <2>1, OlderIs
<1>6. gone' \in [Inst -> 0 .. MaxAge] /\ beat' \in [Inst -> {"waits", "due"}]
  BY <1>1, <1>5
<1>7. Aged'
  <2> SUFFICES ASSUME NEW i \in Inst, up[i] = "crashed", Kept(i)'
               PROVE  record'[i].age >= gone'[i]
    BY <1>1 DEF Aged
  <2>1. Kept(i)
    BY <1>3 DEF Kept
  <2>2. record[i].age >= gone[i]
    BY <2>1 DEF RecordInv, Aged
  <2>3. record[i].age \in 0 .. MaxAge /\ gone[i] \in 0 .. MaxAge
    BY <1>2, <1>5, <2>1
  <2>4. Older(record[i].age) >= Older(gone[i])
    BY <2>2, <2>3, OlderIs
  <2>5. record'[i].age = Older(record[i].age) /\ gone'[i] = Older(gone[i])
    BY <1>2, <1>5, <2>1
  <2>6. QED
    BY <2>4, <2>5
<1>8. Noting /\ readingVars' = readingVars /\ doomed' \subseteq doomed /\ cleans' = cleans
  BY DEF Tick, readingVars, scriptVars
<1>9. QED
  <2>1. \A i \in Inst : up[i] = "crashed" => up'[i] = "crashed" /\ gone'[i] >= gone[i]
    BY <1>1, <1>5
  <2>2. up' \in [Inst -> {"up", "crashed", "off"}]
    BY <1>1
  <2>3. recordFaults' = recordFaults
    BY <1>1
  <2>4. QED
    BY <1>4, <1>6, <1>7, <1>8, <2>1, <2>2, <2>3, InstancesKeep

-----------------------------------------------------------------------------
(* A reading begins: nobody has slipped through yet.                       *)
LEMMA ReadingStays ==
  ASSUME RecordInv, NEW who \in Reading \ {"idle"}, BeginReading(who)
  PROVE  RecordInv'
<1>1. /\ reader' = who /\ unread' = {i \in Inst : Kept(i)} /\ answer' = {} /\ slipped' = FALSE
      /\ absent' = {i \in Inst : ~Fit(record[i])}
      /\ expired' = {i \in Inst : up[i] = "crashed" /\ gone[i] > Stale}
      /\ record' = record /\ up' = up /\ beat' = beat /\ gone' = gone /\ doomed' = doomed
      /\ cleans' = cleans /\ recordFaults' = recordFaults
  BY DEF BeginReading, scriptVars
<1>2. RecordTypeOK'
  <2>1. slipped' \in BOOLEAN
    BY <1>1, Zenon
  <2>2. reader' \in Reading /\ unread' \subseteq Inst /\ answer' \subseteq Inst
        /\ absent' \subseteq Inst /\ expired' \subseteq Inst
    BY <1>1
  <2>3. QED
    BY <1>1, <2>1, <2>2 DEF RecordInv, RecordTypeOK
<1>3. StillFit'
  <2> SUFFICES ASSUME NEW i \in Inst, i \notin absent'
               PROVE  Kept(i)' /\ Takes(reader', record'[i]) /\ i \in answer' \cup unread'
    BY DEF StillFit
  <2>1. Fit(record[i])
    BY <1>1
  <2>2. QED
    BY <1>1, <2>1 DEF Fit, Kept
<1>4. MayClean'
  BY <1>1 DEF BeginReading, MayClean
<1>5. QED
  BY <1>1, <1>2, <1>3, <1>4 DEF RecordInv, Aged, StillExpired, DeadIsNotShown, Kept

(* Who is fit is taken when its key is read, unless the read fails; the    *)
(* dead are not fit for the monitor.                                       *)
LEMMA ReadStays ==
  ASSUME RecordInv, NEW i \in Inst, ReadOne(i)
  PROVE  RecordInv'
<1>1. /\ reader # "idle" /\ i \in unread /\ unread' = unread \ {i}
      /\ record' = record /\ up' = up /\ beat' = beat /\ gone' = gone /\ reader' = reader
      /\ absent' = absent /\ expired' = expired /\ doomed' = doomed /\ cleans' = cleans
  BY DEF ReadOne, scriptVars
<1>2. \/ /\ answer' = IF Kept(i) /\ Takes(reader, record[i]) THEN answer \cup {i} ELSE answer
         /\ slipped' = slipped /\ recordFaults' = recordFaults
      \/ /\ recordFaults < MaxRecordFaults /\ recordFaults' = recordFaults + 1
         /\ slipped' = TRUE /\ answer' = answer
  BY DEF ReadOne
<1>3. RecordTypeOK'
  <2>1. slipped' \in BOOLEAN
    BY <1>2, Zenon DEF RecordInv, RecordTypeOK
  <2>2. answer' \subseteq Inst /\ unread' \subseteq Inst
    BY <1>1, <1>2 DEF RecordInv, RecordTypeOK
  <2>3. recordFaults' \in 0 .. MaxRecordFaults
    BY <1>2, RecordAssumption DEF RecordInv, RecordTypeOK
  <2>4. QED
    BY <1>1, <2>1, <2>2, <2>3 DEF RecordInv, RecordTypeOK
<1>4. StillFit'
  <2> SUFFICES ASSUME NEW j \in Inst, j \notin absent
               PROVE  Kept(j) /\ Takes(reader, record[j]) /\ (~slipped' => j \in answer' \cup unread')
    BY <1>1 DEF StillFit, Kept
  <2>1. Kept(j) /\ Takes(reader, record[j]) /\ (~slipped => j \in answer \cup unread)
    BY <1>1 DEF RecordInv, StillFit
  <2>2. QED
    BY <1>1, <1>2, <2>1
<1>5. DeadIsNotShown'
  <2> SUFFICES ASSUME reader = "monitor", i \in expired, Kept(i), Takes(reader, record[i]) PROVE FALSE
    BY <1>1, <1>2 DEF RecordInv, DeadIsNotShown
  <2>1. up[i] = "crashed" /\ gone[i] > Stale /\ record[i].age >= gone[i]
    BY DEF RecordInv, StillExpired, Aged
  <2>2. record[i] \in Record /\ gone[i] \in Nat /\ Stale \in Nat
    BY RecordAssumption DEF RecordInv, RecordTypeOK, Kept, MaxAge
  <2>3. record[i].age \in Nat
    BY <2>2, RecordAssumption DEF Record, MaxAge
  <2>4. record[i].age <= Stale
    BY DEF Takes, Fresh
  <2>5. QED
    BY <2>1, <2>2, <2>3, <2>4
<1>6. QED
  BY <1>1, <1>3, <1>4, <1>5 DEF RecordInv, Aged, StillExpired, MayClean, Kept

(* A reading ends.                                                         *)
LEMMA EndStays ==
  ASSUME RecordInv, EndReading
  PROVE  RecordInv'
<1>1. /\ reader' = "idle" /\ answer' = {} /\ absent' = {} /\ expired' = {} /\ slipped' = FALSE
      /\ record' = record /\ up' = up /\ beat' = beat /\ gone' = gone /\ unread' = unread
      /\ recordFaults' = recordFaults
      /\ doomed' \in {answer, doomed} /\ cleans' \in {cleans, cleans + 1}
  BY DEF EndReading, scriptVars
<1>2. cleans' \in 0 .. MaxCleans /\ doomed' \subseteq Inst
  BY RecordAssumption DEF EndReading, scriptVars, RecordInv, RecordTypeOK, MayClean
<1>3. slipped' \in BOOLEAN
  BY <1>1, Zenon
<1>4. RecordTypeOK'
  BY <1>1, <1>2, <1>3 DEF RecordInv, RecordTypeOK, Reading
<1>5. QED
  BY <1>1, <1>4 DEF RecordInv, Aged, StillExpired, StillFit, MayClean, DeadIsNotShown, Kept

(* Every step keeps the invariant.                                         *)
LEMMA RecordStays == RecordInv /\ [RecordNext]_recordVars => RecordInv'
<1> SUFFICES ASSUME RecordInv, [RecordNext]_recordVars PROVE RecordInv'
  OBVIOUS
<1>1. CASE Tick
  BY <1>1, TickStays
<1>2. CASE EndReading
  BY <1>2, EndStays
<1>3. CASE \E who \in Reading \ {"idle"} : BeginReading(who)
  BY <1>3, ReadingStays
<1>4. CASE \E i \in Inst : InstanceStep(i) \/ ReadOne(i) \/ ScriptDeletes(i)
  BY <1>4, InstanceStays, CrashStays, ReadStays DEF InstanceStep
<1>5. CASE UNCHANGED recordVars
  BY <1>5 DEF recordVars, RecordInv, RecordTypeOK, Aged, StillExpired, StillFit, MayClean,
              DeadIsNotShown, Kept, Takes
<1>6. QED
  BY <1>1, <1>2, <1>3, <1>4, <1>5 DEF RecordNext

(* What was fit to be shown and is not to be read any more was shown.      *)
LEMMA RecordInvSound == RecordInv => ListingSound
<1> SUFFICES ASSUME RecordInv, reader # "idle", unread = {}, ~slipped PROVE Inst \ absent \subseteq answer
  BY DEF RecordInv, ListingSound, LiveIsShown
<1>1. QED
  BY DEF RecordInv, StillFit

(* For every group of instances and every threshold: no listing of the     *)
(* monitor shows an instance that was dead too long when it began, and no  *)
(* reading misses one that was fit to be shown during the whole of it.     *)
THEOREM ListingsAreRight == RecordSpec => []ListingSound
<1>1. RecordSpec => []RecordInv
  BY RecordInitInv, RecordStays, PTL DEF RecordSpec
<1>2. QED
  BY <1>1, RecordInvSound, PTL
=============================================================================
