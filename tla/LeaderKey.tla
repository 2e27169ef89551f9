----------------------------- MODULE LeaderKey ------------------------------
(***************************************************************************)
(* The leader key of one sticky-active group,                              *)
(* "sticky-active.{service}.{group}.leader", in the key-value bucket, with *)
(* the operations NATSKVStore (infrastructure/nats_kv_store.py) performs   *)
(* on it and the watchers that follow it.                                  *)
(*                                                                         *)
(* A revision is only ever compared for equality with the revision a       *)
(* caller read before, so no number is kept: `current' is the set of       *)
(* callers whose remembered revision is still the revision of the key.     *)
(* Of the value only the owner and the age of last_heartbeat matter.       *)
(***************************************************************************)
EXTENDS Sequences

CONSTANTS
  Instance,        \* the instances of the group
  NoOne,           \* no instance: the key is absent
  LeaseExpires,    \* the bucket has a max_age, so an unrefreshed key goes
                   \* away.  FALSE for a bucket NATSKVStore.connect creates
                   \* (max_age=0), TRUE for one created beforehand with one
  ExpiryNotifies   \* a watcher sees a delete marker when the key expires

ASSUME KeyAssumption ==
  /\ NoOne \notin Instance
  /\ LeaseExpires \in BOOLEAN
  /\ ExpiryNotifies \in BOOLEAN

VARIABLES
  leader,     \* instance_id in the leader value, NoOne when the key is absent
  fresh,      \* last_heartbeat is within leader_ttl (5 s) of now
  current,    \* the callers whose remembered revision is the current one
  watching,   \* the instances with an open watch on the key
  inbox       \* inbox[i]: watch events sent to i and not read yet, an
              \* instance for a PUT by it, NoOne for a DELETE

keyVars == <<leader, fresh, current, watching, inbox>>

(* An instance reads a revision to use it later in two places: when it     *)
(* refreshes its lease and when it gives leadership up.                    *)
Reader == {"heartbeat", "release"} \X Instance

KeyType ==
  /\ leader \in Instance \cup {NoOne}
  /\ fresh \in BOOLEAN
  /\ current \subseteq Reader
  /\ watching \subseteq Instance
  /\ inbox \in [Instance -> Seq(Instance \cup {NoOne})]

KeyInit ==
  /\ leader = NoOne
  /\ fresh = FALSE
  /\ current = {}
  /\ watching = {}
  /\ inbox = [i \in Instance |-> <<>>]

-----------------------------------------------------------------------------
(* Every write of the key reaches every open watch, in order.              *)
Notify(event) ==
  /\ inbox' = [i \in Instance |->
                 IF i \in watching THEN Append(inbox[i], event) ELSE inbox[i]]
  /\ UNCHANGED watching

(* kv.put: whatever the key held, it now holds i's value.                  *)
PutKey(i) ==
  /\ leader' = i
  /\ fresh' = TRUE
  /\ current' = {}
  /\ Notify(i)

(* Mutant of CreateKey: a plain put, whoever holds the key.                *)
PutRegardless(i) == PutKey(i)

(* kv.create succeeds on an absent (or deleted) key only.                  *)
CreateKey(i) == leader = NoOne /\ PutKey(i)

(* The key goes away and leaves a delete marker for the watchers.          *)
DeleteKey ==
  /\ leader' = NoOne
  /\ fresh' = FALSE
  /\ current' = {}
  /\ Notify(NoOne)

(* Mutant of DeleteRevision: the revision is not passed on.                *)
DeleteRegardless(r) == DeleteKey

(* kv.delete(key, last=revision) with the revision caller r read.          *)
DeleteRevision(r) == r \in current /\ DeleteKey

(* kv.get: caller r remembers the revision it sees.                        *)
RememberRevision(r) ==
  /\ current' = current \cup {r}
  /\ UNCHANGED <<leader, fresh, watching, inbox>>

(* Callers of instance i that are gone no longer hold a revision.          *)
Readers(i) == {r \in Reader : r[2] = i}

(* kv.watch(key, include_history=False) first delivers the last value; a   *)
(* delete marker found at that point is skipped.                           *)
OpenWatch(i) ==
  /\ watching' = watching \cup {i}
  /\ inbox' = [inbox EXCEPT ![i] = IF leader = NoOne THEN <<>> ELSE <<leader>>]
  /\ UNCHANGED <<leader, fresh, current>>

CloseWatch(i) ==
  /\ watching' = watching \ {i}
  /\ inbox' = [inbox EXCEPT ![i] = <<>>]

TakeEvent(i) ==
  /\ inbox[i] # <<>>
  /\ inbox' = [inbox EXCEPT ![i] = Tail(inbox[i])]
  /\ UNCHANGED <<leader, fresh, current, watching>>

-----------------------------------------------------------------------------
(* get_current_leader ignores a leader whose last heartbeat is too old.    *)
VisibleLeader == IF fresh THEN leader ELSE NoOne

(* More than leader_ttl passes without a refresh.                          *)
LeaseAges ==
  /\ leader # NoOne /\ fresh
  /\ fresh' = FALSE
  /\ UNCHANGED <<leader, current, watching, inbox>>

(* The broker drops the unrefreshed key.                                   *)
LeaseRunsOut ==
  /\ LeaseExpires
  /\ leader # NoOne /\ ~fresh
  /\ leader' = NoOne
  /\ current' = {}
  /\ fresh' = fresh
  /\ IF ExpiryNotifies THEN Notify(NoOne) ELSE UNCHANGED <<watching, inbox>>
=============================================================================
