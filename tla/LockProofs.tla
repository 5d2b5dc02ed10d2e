----------------------------- MODULE LockProofs -----------------------------
(***************************************************************************)
(* What the lock does guarantee, for any number of threads.                *)
(***************************************************************************)
EXTENDS Lock, TLAPS

\* Every step of Acquire and Release leaves lock_ and at well typed
\* (anagram_lock.h:38-58).
THEOREM LockType == Spec => []TypeOK
<1>1. Init => TypeOK
  BY DEF Init, TypeOK
<1>2. TypeOK /\ [Next]_vars => TypeOK'
  <2> SUFFICES ASSUME TypeOK, [Next]_vars
               PROVE  TypeOK'
    OBVIOUS
  <2>1. ASSUME NEW t \in Threads, Call(t)
        PROVE  TypeOK'
    BY <2>1 DEF TypeOK, Call
  <2>2. ASSUME NEW t \in Threads, SeeFree(t)
        PROVE  TypeOK'
    BY <2>2 DEF TypeOK, SeeFree
  <2>3. ASSUME NEW t \in Threads, TestAndSet(t)
        PROVE  TypeOK'
    BY <2>3 DEF TypeOK, TestAndSet
  <2>4. ASSUME NEW t \in Threads, Release(t)
        PROVE  TypeOK'
    BY <2>4 DEF TypeOK, Release
  <2>5. CASE UNCHANGED vars
    BY <2>5 DEF TypeOK, vars
  <2> QED
    BY <2>1, <2>2, <2>3, <2>4, <2>5 DEF Next
<1> QED
  BY <1>1, <1>2, PTL DEF Spec

\* However the reads and stores of Acquire and Release interleave, a set lock
\* has a thread inside that will clear it: the race between the read and the
\* store (anagram_lock.h:40-45) can let two threads in but can shut none out.
THEOREM LockNeverOrphaned == Spec => []NeverOrphaned
<1>1. Init => NeverOrphaned
  BY DEF Init, NeverOrphaned
<1>2. TypeOK /\ NeverOrphaned /\ [Next]_vars => NeverOrphaned'
  <2> SUFFICES ASSUME TypeOK, NeverOrphaned, [Next]_vars
               PROVE  NeverOrphaned'
    OBVIOUS
  <2>1. ASSUME NEW t \in Threads, Call(t)
        PROVE  NeverOrphaned'
    BY <2>1 DEF TypeOK, NeverOrphaned, Call
  <2>2. ASSUME NEW t \in Threads, SeeFree(t)
        PROVE  NeverOrphaned'
    BY <2>2 DEF TypeOK, NeverOrphaned, SeeFree
  <2>3. ASSUME NEW t \in Threads, TestAndSet(t)
        PROVE  NeverOrphaned'
    BY <2>3 DEF TypeOK, NeverOrphaned, TestAndSet
  <2>4. ASSUME NEW t \in Threads, Release(t)
        PROVE  NeverOrphaned'
    BY <2>4 DEF TypeOK, NeverOrphaned, Release
  <2>5. CASE UNCHANGED vars
    BY <2>5 DEF NeverOrphaned, vars
  <2> QED
    BY <2>1, <2>2, <2>3, <2>4, <2>5 DEF Next
<1> QED
  BY <1>1, <1>2, LockType, PTL DEF Spec
=============================================================================
