------------------------------- MODULE Pools --------------------------------
(***************************************************************************)
(* Who gets the next call: the connections of a NATSAdapter in turn, the   *)
(* instances of a service by RoundRobinSelector, and the connections a     *)
(* SimpleConnectionPool lends out.                                         *)
(***************************************************************************)
EXTENDS Naturals, Sequences, SequencesExt

CONSTANTS
  AdapterSize, \* pool_size: the connections a connect of the adapter makes
  PoolSize,    \* connections of a pool at most
  MinSize,     \* connections a pool begins with
  Target,      \* the instances of a service
  Borrower,    \* the tasks that use a pool
  MaxLinks,    \* bound: connections with which an adapter connects again
  MaxTurns,    \* bound: selections of an instance
  MaxOutages   \* bound: connections that break, connects that fail

ASSUME PoolAssumption ==
  /\ {AdapterSize, PoolSize, MinSize} \subseteq Nat \ {0} /\ MinSize <= PoolSize
  /\ {MaxLinks, MaxTurns, MaxOutages} \subseteq Nat

VARIABLES
  links,     \* the adapter's connections: TRUE when connected
  current,   \* _current_conn
  chosen,    \* what _get_connection did last
  circle,    \* history: the connections there were when current was last set
  shown,     \* the healthy instances, in the order discovery has them
  counter,   \* the round-robin counter of the service
  picks,     \* history: selections of each since the list changed
  pool,      \* the pool's connections: whether in use and whether connected
  borrower,  \* what each task is at, and the connection it has
  locked,    \* who holds the pool's lock
  outages

linkVars == <<links, current, chosen, circle>>
pickVars == <<shown, counter, picks>>
lendVars == <<pool, borrower, locked>>
poolVars == <<linkVars, pickVars, lendVars, outages>>

PoolTypeOK ==
  /\ links \in Seq(BOOLEAN) /\ {current, circle} \subseteq Nat
  /\ chosen \in {"none", "gave", "raised"}
  /\ shown \in Seq(Target) /\ counter \in 0 .. MaxTurns /\ picks \in [Target -> 0 .. MaxTurns]
  /\ pool \in Seq([used: BOOLEAN, up: BOOLEAN])
  /\ borrower \in [Borrower -> [at: {"idle", "connecting", "has", "refused"}, conn: Nat]]
  /\ locked \subseteq Borrower /\ outages \in 0 .. MaxOutages

PoolInit ==
  /\ links = <<>> /\ current = 0 /\ chosen = "none" /\ circle = 0
  /\ shown = <<>> /\ counter = 0 /\ picks = [t \in Target |-> 0]
  /\ pool = [k \in 1 .. MinSize |-> [used |-> FALSE, up |-> TRUE]]
  /\ borrower = [b \in Borrower |-> [at |-> "idle", conn |-> 0]] /\ locked = {}
  /\ outages = 0

Outage == outages < MaxOutages /\ outages' = outages + 1
NoOutage == UNCHANGED outages
LinksChange == chosen' = "none"

-----------------------------------------------------------------------------
(* The adapter.  A connect adds to the connections there are, and one that *)
(* fails leaves those it made; a disconnect forgets the connections but    *)
(* not whose turn it was.                                                  *)

ConnectAll ==
  /\ Len(links) <= MaxLinks /\ LinksChange
  /\ \/ NoOutage /\ links' = links \o [k \in 1 .. AdapterSize |-> TRUE]
     \/ /\ Outage
        /\ \E n \in 0 .. AdapterSize - 1 : links' = links \o [k \in 1 .. n |-> TRUE]
  /\ UNCHANGED <<current, circle, pickVars, lendVars>>

Disconnect ==
  /\ links # <<>> /\ links' = <<>> /\ LinksChange
  /\ NoOutage /\ UNCHANGED <<current, circle, pickVars, lendVars>>

LinkBreaks(k) ==
  /\ Outage /\ links[k] /\ links' = [links EXCEPT ![k] = FALSE] /\ LinksChange
  /\ UNCHANGED <<current, circle, pickVars, lendVars>>
LinkRecovers(k) ==
  /\ ~links[k] /\ links' = [links EXCEPT ![k] = TRUE] /\ LinksChange
  /\ NoOutage /\ UNCHANGED <<current, circle, pickVars, lendVars>>

Step(k, n) == (k + n) % Len(links)
Up(k) == links[k + 1]

(* Mutant of Search: it stops one connection early.                        *)
SearchShort ==
  LET tried == {n \in 1 .. Len(links) - 1 : Up(Step(current + 1, n))}
  IN IF tried = {} THEN Step(current, Len(links)) ELSE Step(current + 1, Min(tried))
(* From a connection that is down the search goes on with the one after    *)
(* the next, once around.                                                  *)
Search ==
  LET tried == {n \in 1 .. Len(links) : Up(Step(current + 1, n))}
  IN IF tried = {} THEN Step(current + 1, Len(links)) ELSE Step(current + 1, Min(tried))

Give(k, following) ==
  /\ current' = following /\ chosen' = IF Up(k) THEN "gave" ELSE "raised"
  /\ circle' = Len(links)

(* _get_connection: with fewer connections than there were the index lies  *)
(* beyond them, and stays there.                                           *)
GetConnection ==
  /\ IF current >= Len(links)
     THEN chosen' = "raised" /\ UNCHANGED <<current, circle>>
     ELSE IF Up(current) THEN Give(current, Step(current, 1)) ELSE Give(Search, Search)
  /\ NoOutage /\ UNCHANGED <<links, pickVars, lendVars>>

-----------------------------------------------------------------------------
(* The selectors.                                                          *)

(* Discovery has another list of healthy instances: one more, one less.    *)
ListChanges ==
  /\ \/ \E t \in Target : (\A k \in DOMAIN shown : shown[k] # t) /\ shown' = Append(shown, t)
     \/ \E k \in DOMAIN shown : shown' = RemoveAt(shown, k)
  /\ picks' = [t \in Target |-> 0]
  /\ NoOutage /\ UNCHANGED <<counter, linkVars, lendVars>>

RoundRobin(k) == shown[1 + (k % Len(shown))]

SelectInstance ==
  /\ shown # <<>> /\ counter < MaxTurns
  /\ counter' = counter + 1 /\ picks' = [picks EXCEPT ![RoundRobin(counter)] = @ + 1]
  /\ NoOutage /\ UNCHANGED <<shown, linkVars, lendVars>>

-----------------------------------------------------------------------------
(* The pool.  The lock is held across the connect.                         *)

PoolOnly == UNCHANGED <<linkVars, pickVars>>
Becomes(b, at, k) == borrower' = [borrower EXCEPT ![b] = [at |-> at, conn |-> k]]
Free == {k \in DOMAIN pool : ~pool[k].used /\ pool[k].up}

Acquire(b) ==
  /\ borrower[b].at \in {"idle", "refused"} /\ locked = {} /\ NoOutage /\ PoolOnly
  /\ IF Free # {}
     THEN /\ pool' = [pool EXCEPT ![Min(Free)].used = TRUE] /\ Becomes(b, "has", Min(Free))
          /\ UNCHANGED locked
     ELSE /\ UNCHANGED pool
          /\ IF Len(pool) < PoolSize
             THEN Becomes(b, "connecting", 0) /\ locked' = {b}
             ELSE Becomes(b, "refused", 0) /\ UNCHANGED locked

Connected(b) ==
  /\ borrower[b].at = "connecting" /\ locked' = locked \ {b} /\ PoolOnly
  /\ \/ /\ NoOutage /\ pool' = Append(pool, [used |-> TRUE, up |-> TRUE])
        /\ Becomes(b, "has", Len(pool) + 1)
     \/ Outage /\ UNCHANGED pool /\ Becomes(b, "idle", 0)

Release(b) ==
  /\ borrower[b].at = "has" /\ locked = {}
  /\ pool' = [pool EXCEPT ![borrower[b].conn].used = FALSE] /\ Becomes(b, "idle", 0)
  /\ NoOutage /\ PoolOnly /\ UNCHANGED locked

(* A connection of the pool breaks, for good once nats.py stops trying.    *)
PoolLinkBreaks(k) ==
  /\ Outage /\ pool[k].up /\ pool' = [pool EXCEPT ![k].up = FALSE]
  /\ PoolOnly /\ UNCHANGED <<borrower, locked>>

LinkNext ==
  \/ ConnectAll \/ Disconnect \/ GetConnection
  \/ \E k \in DOMAIN links : LinkBreaks(k) \/ LinkRecovers(k)
PickNext == ListChanges \/ SelectInstance
LendNext ==
  \/ \E b \in Borrower : Acquire(b) \/ Connected(b) \/ Release(b)
  \/ \E k \in DOMAIN pool : PoolLinkBreaks(k)
PoolNext == LinkNext \/ PickNext \/ LendNext

PoolSpec == PoolInit /\ [][PoolNext]_poolVars

-----------------------------------------------------------------------------
(* _get_connection raises only when no connection is up, however often the *)
(* adapter was connected, whatever broke and wherever the round stood; or  *)
(* when there are fewer connections than when the round was there.         *)
LiveLinkFound ==
  chosen = "raised" => Len(links) < circle \/ \A k \in DOMAIN links : ~links[k]

(* While the list stays the same its instances are selected in turn,       *)
(* wherever the counter stood when the list last changed.                  *)
InstancesTakeTurns ==
  \A k, l \in DOMAIN shown : picks[shown[k]] <= picks[shown[l]] + 1

(* A connection is lent to one task at a time, and the pool never has more *)
(* than it may, with tasks acquiring while another one connects.           *)
LentOnce ==
  /\ Len(pool) <= PoolSize
  /\ \A b, c \in Borrower :
       borrower[b].at = "has" /\ borrower[c].at = "has" /\ b # c
         => borrower[b].conn # borrower[c].conn

(* The types, and that calls, instances and tasks get what is theirs.      *)
PoolsSound == PoolTypeOK /\ LiveLinkFound /\ InstancesTakeTurns /\ LentOnce
=============================================================================
