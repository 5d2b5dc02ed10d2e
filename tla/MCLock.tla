------------------------------- MODULE MCLock -------------------------------
(* Instance of Lock for TLC: two threads.                                  *)
EXTENDS Lock
CONSTANTS t1, t2
MCThreads == {t1, t2}
=============================================================================
