----------------------------- MODULE LeaderLock -----------------------------
(***************************************************************************)
(* What the leader key of a sticky-active group promises, whoever uses it: *)
(* a lock over the instances of the group.  A free lock may be acquired, a *)
(* held lock is given up by its holder or lapses, and a lock never passes  *)
(* from one holder to another without being free in between.               *)
(*                                                                         *)
(* ports/election_repository.py is the contract stated here:               *)
(*   attempt_leadership   - Acquire, "atomic create-or-get"                *)
(*   release_leadership   - Release, by the current leader only            *)
(*   the ttl_seconds of both - Lapse                                       *)
(***************************************************************************)
CONSTANTS Instance,   \* the instances of one sticky-active group
          NoOne,      \* no instance
          MayLapse    \* whether an unattended lock is taken away

VARIABLE holder       \* the instance the lock belongs to, or NoOne

LockType == holder \in Instance \cup {NoOne}

LockInit == holder = NoOne

Acquire(i) == holder = NoOne /\ holder' = i

Release(i) == holder = i /\ holder' = NoOne

Lapse == MayLapse /\ holder # NoOne /\ holder' = NoOne

LockNext == Lapse \/ \E i \in Instance : Acquire(i) \/ Release(i)

LockSpec == LockInit /\ [][LockNext]_holder
=============================================================================
