-------------------------------- MODULE Lock --------------------------------
(***************************************************************************)
(* anagram::Lock (include/anagram_lock.h), the spin lock behind every      *)
(* shared structure of the program.  Acquire() spins while it reads        *)
(* lock_ # 0 and then stores 1 with __sync_lock_test_and_set; the value    *)
(* that call returns is dropped.  The read that ends the spin and the      *)
(* store are therefore two steps.  A spin that reads 1 yields and changes  *)
(* nothing: it is a stuttering step and has no action.                     *)
(*                                                                         *)
(* Clients instantiate this module over their own lock_ and at, and state  *)
(* the fairness of their threads.                                          *)
(***************************************************************************)
EXTENDS Naturals

CONSTANT Threads

VARIABLES
  lock_,   \* the word of memory
  at       \* where each thread is: outside, spinning, past the spin, inside

vars == <<lock_, at>>

Init ==
  /\ lock_ = 0
  /\ at = [t \in Threads |-> "out"]

\* A thread calls Acquire().
Call(t) ==
  /\ at[t] = "out"
  /\ at' = [at EXCEPT ![t] = "spin"]
  /\ UNCHANGED lock_

\* The loop reads 0 and ends.
SeeFree(t) ==
  /\ at[t] = "spin"
  /\ lock_ = 0
  /\ at' = [at EXCEPT ![t] = "seen"]
  /\ UNCHANGED lock_

\* __sync_lock_test_and_set(&lock_, 1), its result ignored.
TestAndSet(t) ==
  /\ at[t] = "seen"
  /\ lock_' = 1
  /\ at' = [at EXCEPT ![t] = "held"]

\* Mutant of Release: the store to lock_ is forgotten.
ReleaseWithoutStore(t) ==
  /\ at[t] = "held"
  /\ at' = [at EXCEPT ![t] = "out"]
  /\ UNCHANGED lock_

Release(t) ==
  /\ at[t] = "held"
  /\ lock_' = 0
  /\ at' = [at EXCEPT ![t] = "out"]

Next == \E t \in Threads : Call(t) \/ SeeFree(t) \/ TestAndSet(t) \/ Release(t)

Spec == Init /\ [][Next]_vars

-----------------------------------------------------------------------------
\* The word is 0 or 1 and every thread is at one place of Acquire/Release.
TypeOK ==
  /\ lock_ \in {0, 1}
  /\ at \in [Threads -> {"out", "spin", "seen", "held"}]

\* A set lock always has somebody inside who will release it, however the
\* reads and stores of any number of threads interleave: the race in Acquire
\* (anagram_lock.h:40-45) cannot leave the word set with nobody to clear it.
NeverOrphaned == lock_ = 1 => \E t \in Threads : at[t] = "held"

\* What the users of the lock rely on ("Atomic operation - one at a time, so
\* lock", output_queue.cc:133): at most one thread is inside.
MutualExclusion ==
  \A t, u \in Threads : at[t] = "held" /\ at[u] = "held" => t = u
=============================================================================
