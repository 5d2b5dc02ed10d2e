------------------------------- MODULE RunJob -------------------------------
(***************************************************************************)
(* anagram::RunJob and anagram::Worker (src/main.cc): the main thread      *)
(* builds a frame (the output queue, the parameter blocks, the subset map),*)
(* starts the worker threads, joins them and destroys the frame.  Worker 0 *)
(* gathers the candidate words under gather_lock; every worker then        *)
(* combines them.                                                          *)
(*                                                                         *)
(* The number of worker threads depends on the machine                     *)
(* (hardware_concurrency() - 1, at least 1); the joins are seven lines of  *)
(* code.  The nap that is to let worker 0 go first ends at any time.       *)
(* thread_total is a volatile int: every read and write of it is a step.   *)
(* The work of a gather and of a combination is one step here, which ends  *)
(* unless it waits for ever in a push to a queue that nobody drains.       *)
(*                                                                         *)
(* What the code leaves undefined may end the program, or do nothing: the  *)
(* use of what was freed, a join of no thread, a map used by two threads.  *)
(***************************************************************************)
EXTENDS Integers

CONSTANTS
  MaxThreadTot,   \* bound: the largest number of worker threads
  JoinTot,        \* the number of pthread_join calls: 7 in the code
  MayFail         \* which calls may fail, a subset of {"queue", "malloc", "create"}

ASSUME ConstantsAssumption ==
  /\ MaxThreadTot \in Nat \ {0} /\ JoinTot \in Nat \ {0}
  /\ MayFail \subseteq {"queue", "malloc", "create"}

Workers == 0 .. MaxThreadTot - 1

VARIABLES
  thread_tot,    \* the number of worker threads, the parameter of RunJob
  main,          \* where the main thread is in RunJob
  crashed,       \* has the program crashed?
  created,       \* i, the number of workers created
  joined,        \* the number of joins done
  mreg,          \* thread_total in a register of the main thread
  params,        \* are the malloc'ed parameter blocks there?
  frame,         \* are the queue and the subset map there?
  service,       \* has the queue its service thread?
  late,          \* history: worker 0 did not get in during the nap
  lock_, at,     \* gather_lock
  pc,            \* where each worker is
  reg,           \* thread_total in a register of each worker
  thread_total,
  gathered       \* has worker 0 filled the subset map?

jobVars == <<thread_tot, params, frame, service>>
mainVars == <<jobVars, main, created, joined, mreg, late>>
lockVars == <<lock_, at>>
workerVars == <<lockVars, pc, reg, gathered>>
vars == <<mainVars, crashed, workerVars, thread_total>>

L == INSTANCE Lock WITH Threads <- Workers

Init ==
  /\ thread_tot \in 1 .. MaxThreadTot
  /\ main = "construct" /\ crashed = FALSE
  /\ created = 0 /\ joined = 0 /\ mreg = 0
  /\ params = FALSE /\ frame = FALSE /\ service = TRUE /\ late = FALSE
  /\ L!Init
  /\ pc = [w \in Workers |-> "unborn"]
  /\ reg = [w \in Workers |-> 0]
  /\ thread_total = 0
  /\ gathered = FALSE

-----------------------------------------------------------------------------
\* The queue is constructed, with or without its service thread, and the blocks
\* are allocated.
Construct ==
  /\ main = "construct"
  /\ frame' = TRUE
  /\ service' \in IF "queue" \in MayFail THEN BOOLEAN ELSE {TRUE}
  /\ \/ main' = "create" /\ params' = TRUE
     \/ "malloc" \in MayFail /\ main' = "destroy" /\ UNCHANGED params
  /\ UNCHANGED <<thread_tot, crashed, created, joined, mreg, late, workerVars, thread_total>>

\* pthread_create of the next worker.  Only the first one is waited for.
Create ==
  /\ main = "create"
  /\ pc' = [pc EXCEPT ![created] = "start"]
  /\ main' = IF created = 0 THEN "nap" ELSE "load"
  /\ UNCHANGED <<jobVars, crashed, created, joined, mreg, late, lockVars, reg, gathered,
                 thread_total>>

\* pthread_create fails: the workers that run are left to themselves.
CreateFails ==
  /\ main = "create"
  /\ "create" \in MayFail
  /\ main' = "free"
  /\ UNCHANGED <<jobVars, crashed, created, joined, mreg, late, workerVars, thread_total>>

\* "Wait a few milliseconds to allow first thread to get in".
NapEnds ==
  /\ main = "nap"
  /\ main' = "load"
  /\ late' = ~ (at[0] = "held" \/ gathered)
  /\ UNCHANGED <<jobVars, crashed, created, joined, mreg, workerVars, thread_total>>

\* ++thread_total, and the loop.
LoadTotal ==
  /\ main = "load"
  /\ mreg' = thread_total
  /\ main' = "store"
  /\ UNCHANGED <<jobVars, crashed, created, joined, late, workerVars, thread_total>>

\* Mutant of StoreTotal: one worker too many is created.
StoreTotalOneMore ==
  /\ main = "store"
  /\ thread_total' = mreg + 1
  /\ created' = created + 1
  /\ main' = IF created + 1 <= thread_tot THEN "create" ELSE "join"
  /\ UNCHANGED <<jobVars, crashed, joined, mreg, late, workerVars>>

StoreTotal ==
  /\ main = "store"
  /\ thread_total' = mreg + 1
  /\ created' = created + 1
  /\ main' = IF created + 1 < thread_tot THEN "create" ELSE "join"
  /\ UNCHANGED <<jobVars, crashed, joined, mreg, late, workerVars>>

\* Mutant of JoinWorker: the last join is left out.
JoinWorkerButLast ==
  /\ main = "join" /\ joined < JoinTot /\ joined < thread_tot
  /\ joined < JoinTot - 1 => pc[joined] = "done"
  /\ joined' = joined + 1
  /\ UNCHANGED <<jobVars, main, crashed, created, mreg, late, workerVars, thread_total>>

JoinWorker ==
  /\ main = "join" /\ joined < JoinTot /\ joined < thread_tot
  /\ pc[joined] = "done"
  /\ joined' = joined + 1
  /\ UNCHANGED <<jobVars, main, crashed, created, mreg, late, workerVars, thread_total>>

\* A join of a handle behind the end of pthread_struct: whatever the heap holds
\* there, the call may return, never return, or crash.
JoinWild ==
  /\ main = "join" /\ joined < JoinTot /\ joined >= thread_tot
  /\ \/ joined' = joined + 1 /\ UNCHANGED <<main, crashed>>
     \/ main' = "hung" /\ UNCHANGED <<joined, crashed>>
     \/ crashed' = TRUE /\ UNCHANGED <<joined, main>>
  /\ UNCHANGED <<jobVars, created, mreg, late, workerVars, thread_total>>

JoinsDone ==
  /\ main = "join" /\ joined = JoinTot
  /\ main' = "free"
  /\ UNCHANGED <<jobVars, crashed, created, joined, mreg, late, workerVars, thread_total>>

FreeBlocks ==
  /\ main = "free"
  /\ params' = FALSE
  /\ main' = "destroy"
  /\ UNCHANGED <<thread_tot, frame, service, crashed, created, joined, mreg, late, workerVars,
                 thread_total>>

\* The subset map and the queue go, and RunJob returns.  The queue joins its
\* service thread; when there is none, that is a join of no thread, too.
DestroyFrame ==
  /\ main = "destroy"
  /\ frame' = FALSE
  /\ \/ main' = "returned" /\ UNCHANGED crashed
     \/ ~service /\ main' = "hung" /\ UNCHANGED crashed
     \/ ~service /\ crashed' = TRUE /\ UNCHANGED main
  /\ UNCHANGED <<thread_tot, params, service, created, joined, mreg, late, workerVars,
                 thread_total>>

-----------------------------------------------------------------------------
Uses == {"start", "acquire", "hung", "combine"}

\* A worker uses what the main thread has freed.
UseFreed(w) ==
  /\ \/ pc[w] = "start" /\ ~params
     \/ pc[w] \in Uses /\ ~frame
  /\ crashed' = TRUE
  /\ UNCHANGED <<mainVars, workerVars, thread_total>>

\* A worker goes through the subset map while worker 0 fills it.
UseUngathered(w) ==
  /\ pc[w] = "combine"
  /\ pc[0] = "acquire" /\ at[0] = "held" /\ ~gathered
  /\ crashed' = TRUE
  /\ UNCHANGED <<mainVars, workerVars, thread_total>>

\* Two workers insert into the map of anagrams: subset_lock does not exclude.
\* With -o there are no insertions.
InsertRace(w) ==
  /\ pc[w] = "combine" /\ \E v \in Workers \ {w} : pc[v] = "combine"
  /\ crashed' = TRUE
  /\ UNCHANGED <<mainVars, workerVars, thread_total>>

\* A worker reads its parameter block and asks for gather_lock.
ReadParams(w) ==
  /\ pc[w] = "start"
  /\ L!Call(w)
  /\ pc' = [pc EXCEPT ![w] = "acquire"]
  /\ UNCHANGED <<mainVars, crashed, reg, gathered, thread_total>>

SeeFree(w) ==
  /\ L!SeeFree(w)
  /\ UNCHANGED <<mainVars, crashed, pc, reg, gathered, thread_total>>

TestAndSet(w) ==
  /\ L!TestAndSet(w)
  /\ UNCHANGED <<mainVars, crashed, pc, reg, gathered, thread_total>>

\* Worker 0 fills the subset map.
Gather ==
  /\ pc[0] = "acquire" /\ at[0] = "held" /\ ~gathered
  /\ gathered' = TRUE
  /\ UNCHANGED <<mainVars, crashed, lockVars, pc, reg, thread_total>>

\* More texts are pushed than a queue holds that nobody drains, in the gather or
\* in a combination: the push waits for ever.
PushHangs(w) ==
  /\ ~service
  /\ \/ pc[w] = "combine"
     \/ w = 0 /\ pc[w] = "acquire" /\ at[w] = "held" /\ ~gathered
  /\ pc' = [pc EXCEPT ![w] = "hung"]
  /\ UNCHANGED <<mainVars, crashed, lockVars, reg, gathered, thread_total>>

\* Mutant of Release: the first worker lets the others go before it gathers.
ReleaseEarly(w) ==
  /\ pc[w] = "acquire"
  /\ L!Release(w)
  /\ pc' = [pc EXCEPT ![w] = "combine"]
  /\ UNCHANGED <<mainVars, crashed, reg, gathered, thread_total>>

\* Mutant of Release: the lock stays set.
ReleaseForgotten(w) ==
  /\ pc[w] = "acquire" /\ at[w] = "held"
  /\ w = 0 => gathered
  /\ pc' = [pc EXCEPT ![w] = "combine"]
  /\ at' = [at EXCEPT ![w] = "out"]
  /\ UNCHANGED <<mainVars, crashed, lock_, reg, gathered, thread_total>>

\* The other workers only pass through the lock.
Release(w) ==
  /\ pc[w] = "acquire"
  /\ w = 0 => gathered
  /\ L!Release(w)
  /\ pc' = [pc EXCEPT ![w] = "combine"]
  /\ UNCHANGED <<mainVars, crashed, reg, gathered, thread_total>>

\* CombineSubsetsFast ends.  The frame is not used any more.
Combine(w) ==
  /\ pc[w] = "combine"
  /\ pc' = [pc EXCEPT ![w] = "test"]
  /\ UNCHANGED <<mainVars, crashed, lockVars, reg, gathered, thread_total>>

\* if (thread_total) --thread_total: two reads and a write.
TestTotal(w) ==
  /\ pc[w] = "test"
  /\ pc' = [pc EXCEPT ![w] = IF thread_total # 0 THEN "load" ELSE "done"]
  /\ UNCHANGED <<mainVars, crashed, lockVars, reg, gathered, thread_total>>

LoadTotalAgain(w) ==
  /\ pc[w] = "load"
  /\ reg' = [reg EXCEPT ![w] = thread_total]
  /\ pc' = [pc EXCEPT ![w] = "store"]
  /\ UNCHANGED <<mainVars, crashed, lockVars, gathered, thread_total>>

Decrement(w) ==
  /\ pc[w] = "store"
  /\ thread_total' = reg[w] - 1
  /\ pc' = [pc EXCEPT ![w] = "done"]
  /\ UNCHANGED <<mainVars, crashed, lockVars, reg, gathered>>

MainStep ==
  /\ ~crashed
  /\ \/ Construct \/ Create \/ CreateFails \/ NapEnds \/ LoadTotal \/ StoreTotal
     \/ JoinWorker \/ JoinWild \/ JoinsDone \/ FreeBlocks \/ DestroyFrame

WorkerStep(w) ==
  /\ ~crashed
  /\ \/ UseFreed(w) \/ UseUngathered(w) \/ ReadParams(w) \/ SeeFree(w) \/ TestAndSet(w)
     \/ PushHangs(w) \/ Release(w) \/ Combine(w) \/ TestTotal(w) \/ LoadTotalAgain(w)
     \/ Decrement(w)
     \/ w = 0 /\ Gather

\* The program has ended, or somebody waits for ever.
Finished ==
  /\ crashed \/ main \in {"returned", "hung"} \/ \E w \in Workers : pc[w] = "hung"
  /\ UNCHANGED vars

Next ==
  MainStep \/ Finished \/ \E w \in Workers : WorkerStep(w) \/ (~crashed /\ InsertRace(w))

Spec == Init /\ [][Next]_vars

-----------------------------------------------------------------------------
\* Every thread is at a place of its code, the counters of RunJob are within the
\* number of workers and of joins, and workers are created in their order.
TypeOK ==
  /\ thread_tot \in 1 .. MaxThreadTot
  /\ main \in {"construct", "create", "nap", "load", "store", "join", "free", "destroy",
               "returned", "hung"}
  /\ crashed \in BOOLEAN
  /\ created \in 0 .. thread_tot /\ joined \in 0 .. JoinTot
  /\ main \in {"construct", "create", "nap", "load", "store"} => created < thread_tot
  /\ main = "nap" => created = 0
  /\ \A w \in Workers : \/ w > created
                        \/ w = created /\ main \notin {"nap", "load", "store"}
                        => pc[w] = "unborn"
  /\ params \in BOOLEAN /\ frame \in BOOLEAN /\ service \in BOOLEAN /\ late \in BOOLEAN
  /\ L!TypeOK
  /\ pc \in [Workers -> {"unborn", "start", "acquire", "hung", "combine", "test", "load",
                         "store", "done"}]
  /\ mreg \in Int /\ reg \in [Workers -> Int] /\ thread_total \in Int
  /\ gathered \in BOOLEAN

Combining == {"combine", "test", "load", "store", "done"}

\* "Non-first threads will block on this until the gathering process is
\* complete" (main.cc:489-490): nobody combines a subset map that worker 0 is
\* still filling, ...
GatherAlwaysFirst == \A w \in Workers : pc[w] \in Combining => gathered

\* ... which the code ensures only if worker 0 has the lock when the nap ends
\* (main.cc:607-611): then no number of workers gets past it, whatever the
\* lock's race lets through otherwise.
GatherFirst == \A w \in Workers : pc[w] \in Combining => gathered \/ (late /\ w # 0)

\* A pthread_create failed and left workers behind, as the code says itself
\* (main.cc:601-602).
StartFailed == created \in 1 .. thread_tot - 1 /\ main \in {"free", "destroy", "returned", "hung"}

FrameThere(w) == (pc[w] = "start" => params) /\ (pc[w] \in Uses => frame)

\* "Twiddle our thumbs while threads do their thing" (main.cc:616): RunJob frees
\* the parameter blocks, and leaves the frame with the queue and the subset map,
\* only when no worker will use them any more, ...
FrameOutlivesAll == StartFailed \/ \A w \in Workers : FrameThere(w)

\* ... which its joins ensure for as many workers as there are joins (main.cc:618-629),
\* on a machine of any size.
FrameOutlivesJoined == StartFailed \/ \A w \in Workers : w < JoinTot => FrameThere(w)

-----------------------------------------------------------------------------
(***************************************************************************)
(* Inductive invariants.  If worker 0 got in during the nap, it has the    *)
(* gather lock before any other worker exists, and nobody gets past the    *)
(* lock until it has gathered.                                             *)
(***************************************************************************)
GatherInv ==
  /\ \A w \in Workers : at[w] # "out" => pc[w] \in {"acquire", "hung"}
  /\ created = 0 /\ main \in {"construct", "create", "nap"} => ~late
  /\ ~late =>
       /\ \/ created > 0 \/ main \in {"load", "store"} \/ \E w \in Workers \ {0} : pc[w] # "unborn"
          => at[0] = "held" \/ gathered
       /\ at[0] = "held" /\ ~gathered => lock_ = 1
       /\ \A w \in Workers \ {0} : at[w] \in {"seen", "held"} => gathered
  /\ GatherFirst

\* The frame lives until the workers that are joined have done.
FrameInv ==
  /\ main = "construct" => \A w \in Workers : pc[w] = "unborn"
  /\ main \in {"create", "nap", "load", "store", "join"} => params /\ frame
  /\ main \in {"construct", "create", "nap", "load", "store"} => joined = 0
  /\ joined > 0 => created = thread_tot
  /\ \A w \in Workers : w < joined => pc[w] \in {"unborn", "done"}
  /\ main = "join" => created = thread_tot
  /\ main \in {"free", "destroy", "returned"} =>
       created = 0 \/ StartFailed \/ joined = JoinTot
  /\ main = "hung" => StartFailed \/ \A w \in Workers : w < JoinTot => pc[w] \in {"unborn", "done"}
=============================================================================
