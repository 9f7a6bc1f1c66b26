-------------------------------- MODULE Synch --------------------------------
(* Locks and condition variables of kern/thread/synch.c on wait channels.    *)
(* A stretch under the primitive's own spinlock is one step; wchan_sleep and *)
(* the wakeups are those of Threads, seen from the threads: a thread on a    *)
(* channel does nothing until it is taken off it.                            *)
EXTENDS Sequences, Functions

CONSTANT NULL

VARIABLES
  owner,   \* lk_owner of each lock
  lkq,     \* threads on lk_wchan of each lock
  cvq      \* threads on cv_wchan of each condition variable

syncvars == <<owner, lkq, cvq>>

Asleep(t) == (\E l \in DOMAIN lkq : t \in Range(lkq[l])) \/ (\E v \in DOMAIN cvq : t \in Range(cvq[v]))

(* wchan_wakeone on the channel with queue q. *)
wchan_wakeone(q) == IF q = <<>> THEN q ELSE Tail(q)

(* lock_acquire, when the lock is found free and when it is not.  A thread   *)
(* that has been woken finds out the same way as one that comes new.         *)
lock_acquire(t, l) ==
  /\ owner[l] = NULL
  /\ owner' = [owner EXCEPT ![l] = t]
  /\ UNCHANGED <<lkq, cvq>>

LockSleep(t, l) ==
  /\ owner[l] \notin {NULL, t}
  /\ lkq' = [lkq EXCEPT ![l] = Append(@, t)]
  /\ UNCHANGED <<owner, cvq>>

Released(l) ==
  /\ owner' = [owner EXCEPT ![l] = NULL]
  /\ lkq' = [lkq EXCEPT ![l] = wchan_wakeone(@)]

lock_release(t, l) == owner[l] = t /\ Released(l) /\ UNCHANGED cvq

(* A critical section that nothing outside can look into, in one step:       *)
(* lock_acquire, a body that touches only what the lock protects, and        *)
(* lock_release.                                                             *)
Section(t, l) == owner[l] = NULL /\ Released(l)

(* cv_wait up to the sleep: the lock is given up with cv_lock held, so that  *)
(* no signal falls between the two.                                          *)
cv_wait(t, v, l) ==
  /\ owner[l] = t
  /\ Released(l)
  /\ cvq' = [cvq EXCEPT ![v] = Append(@, t)]

cv_signal(v) == cvq' = [cvq EXCEPT ![v] = wchan_wakeone(@)]

cv_broadcast(v) == cvq' = [cvq EXCEPT ![v] = <<>>]
==============================================================================
