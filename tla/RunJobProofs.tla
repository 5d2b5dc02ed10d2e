---------------------------- MODULE RunJobProofs ----------------------------
(***************************************************************************)
(* RunJob for any number of worker threads and of joins: the gather comes  *)
(* first whenever worker 0 gets in during the nap, and the frame outlives  *)
(* every worker that has a join.                                           *)
(***************************************************************************)
EXTENDS RunJob, TLAPS

\* The counters of RunJob stay within the numbers of workers and of joins, and
\* the workers are created in their order, whatever fails (main.cc:557-629).
THEOREM JobType == Spec => []TypeOK
  <1>1. Init => TypeOK
    <2> SUFFICES ASSUME Init
                 PROVE  TypeOK
      OBVIOUS
    <2>1. /\ thread_tot \in 1 .. MaxThreadTot
          /\ created \in 0 .. thread_tot /\ joined \in 0 .. JoinTot /\ created < thread_tot
      BY ConstantsAssumption DEF ConstantsAssumption, Init
    <2>2. L!TypeOK
      BY DEF Init, L!Init, L!TypeOK
    <2>3. /\ pc \in [Workers -> {"unborn", "start", "acquire", "hung", "combine", "test",
                              "load", "store", "done"}]
          /\ reg \in [Workers -> Int]
          /\ \A w \in Workers : pc[w] = "unborn"
      BY DEF Init
    <2>4. /\ params \in BOOLEAN /\ frame \in BOOLEAN /\ gathered \in BOOLEAN
          /\ service \in BOOLEAN /\ late \in BOOLEAN /\ crashed \in BOOLEAN
      BY DEF Init
    <2>5. mreg \in Int /\ thread_total \in Int
      BY DEF Init
    <2>6. main = "construct"
      BY DEF Init
    <2> QED
      BY <2>1, <2>2, <2>3, <2>4, <2>5, <2>6 DEF TypeOK
  <1>2. TypeOK /\ [Next]_vars => TypeOK'
    <2> SUFFICES ASSUME TypeOK, [Next]_vars
                 PROVE  TypeOK'
      OBVIOUS
    <2> USE ConstantsAssumption
        DEF ConstantsAssumption, TypeOK, L!TypeOK, jobVars, mainVars, lockVars, workerVars, Workers
    <2>1. CASE MainStep
      <3>1. CASE Construct
        BY <3>1 DEF Construct
      <3>2. CASE CreateFails
        BY <3>2 DEF CreateFails
      <3>3. CASE NapEnds
        BY <3>3 DEF NapEnds
      <3>4. CASE LoadTotal
        BY <3>4 DEF LoadTotal
      <3>5. CASE Create
        <4>1. created \in Workers /\ created \in Nat
          BY <3>5 DEF Create
        <4> QED
          BY <3>5, <4>1 DEF Create
      <3>6. CASE StoreTotal
        BY <3>6 DEF StoreTotal
      <3>7. CASE JoinWorker
        BY <3>7 DEF JoinWorker
      <3>8. CASE JoinWild
        <4>1. /\ joined' = joined \/ (joined' = joined + 1 /\ joined < JoinTot)
              /\ main = "join" /\ main' \in {"join", "hung"}
              /\ crashed' \in BOOLEAN
          BY <3>8 DEF JoinWild
        <4>2. UNCHANGED <<thread_tot, params, frame, service, created, mreg, late, lock_, at, pc,
                          reg, gathered, thread_total>>
          BY <3>8 DEF JoinWild
        <4> QED
          BY <4>1, <4>2
      <3>9. CASE JoinsDone \/ FreeBlocks \/ DestroyFrame
        BY <3>9 DEF JoinsDone, FreeBlocks, DestroyFrame
      <3> QED
        BY <2>1, <3>1, <3>2, <3>3, <3>4, <3>5, <3>6, <3>7, <3>8, <3>9 DEF MainStep
    <2>2. ASSUME NEW w \in Workers, WorkerStep(w)
          PROVE  TypeOK'
      <3>1. CASE UseFreed(w) \/ UseUngathered(w)
        <4>1. crashed' = TRUE
          BY <3>1 DEF UseFreed, UseUngathered
        <4>2. UNCHANGED <<mainVars, workerVars, thread_total>>
          BY <3>1 DEF UseFreed, UseUngathered
        <4> QED
          BY <4>1, <4>2
      <3>2. CASE ReadParams(w)
        BY <3>2 DEF ReadParams, L!Call
      <3>9. CASE PushHangs(w)
        BY <3>9 DEF PushHangs
      <3>3. CASE SeeFree(w) \/ TestAndSet(w)
        <4>1. L!TypeOK' /\ UNCHANGED <<mainVars, crashed, pc, reg, gathered, thread_total>>
          BY <3>3 DEF SeeFree, TestAndSet, L!SeeFree, L!TestAndSet
        <4> QED
          BY <4>1
      <3>4. CASE Release(w)
        <4>1. /\ L!TypeOK' /\ UNCHANGED <<mainVars, crashed, reg, gathered, thread_total>>
              /\ pc' = [pc EXCEPT ![w] = "combine"] /\ pc[w] = "acquire"
          BY <3>4 DEF Release, L!Release
        <4>2. \A v \in Workers : pc[v] = "unborn" => pc'[v] = "unborn"
          BY <4>1
        <4>3. pc' \in [Workers -> {"unborn", "start", "acquire", "hung", "combine", "test",
                                    "load", "store", "done"}]
          BY <4>1
        <4> QED
          BY <4>1, <4>2, <4>3
      <3>5. CASE Combine(w) \/ TestTotal(w)
        <4>1. /\ pc[w] # "unborn"
              /\ \E p \in {"test", "load", "done"} : pc' = [pc EXCEPT ![w] = p]
              /\ UNCHANGED <<mainVars, crashed, lockVars, reg, gathered, thread_total>>
          BY <3>5 DEF Combine, TestTotal
        <4> QED
          BY <4>1
      <3>6. CASE LoadTotalAgain(w)
        BY <3>6 DEF LoadTotalAgain
      <3>7. CASE Decrement(w)
        <4>1. reg[w] - 1 \in Int
          OBVIOUS
        <4> QED
          BY <3>7, <4>1 DEF Decrement
      <3>8. CASE Gather
        BY <3>8 DEF Gather
      <3> QED
        BY <2>2, <3>1, <3>2, <3>3, <3>4, <3>5, <3>6, <3>7, <3>8, <3>9 DEF WorkerStep
    <2>3. ASSUME NEW w \in Workers, InsertRace(w)
          PROVE  TypeOK'
      BY <2>3 DEF InsertRace
    <2>4. CASE UNCHANGED vars
      BY <2>4 DEF vars
    <2> QED
      BY <2>1, <2>2, <2>3, <2>4 DEF Next, Finished
  <1> QED
    BY <1>1, <1>2, PTL DEF Spec

\* "Non-first threads will block on this until the gathering process is
\* complete" (main.cc:489-490) holds of any number of threads in every run in which
\* worker 0 has the lock when the nap ends, and of worker 0 itself in all runs.
THEOREM JobGathersFirst == Spec => []GatherFirst
  <1>1. Init => GatherInv
    <2> SUFFICES ASSUME Init
                 PROVE  GatherInv
      OBVIOUS
    <2>1. \A w \in Workers : pc[w] = "unborn" /\ at[w] = "out"
      BY DEF Init, L!Init
    <2>2. 0 \in Workers
      BY ConstantsAssumption DEF ConstantsAssumption, Workers
    <2> QED
      BY <2>1, <2>2 DEF Init, GatherInv, GatherFirst, Combining
  <1>2. TypeOK /\ GatherInv /\ [Next]_vars => GatherInv'
    <2> SUFFICES ASSUME TypeOK, GatherInv, [Next]_vars
                 PROVE  GatherInv'
      OBVIOUS
    <2> USE ConstantsAssumption
        DEF ConstantsAssumption, TypeOK, L!TypeOK, jobVars, mainVars, lockVars, workerVars, GatherInv,
            GatherFirst, Combining, Workers
    <2>1. CASE Create
      <3>1. created \in Workers /\ pc[created] = "unborn" /\ at[created] = "out"
        BY <2>1 DEF Create
      <3>2. /\ \A w \in Workers : pc'[w] = IF w = created THEN "start" ELSE pc[w]
            /\ UNCHANGED <<created, lockVars, gathered, late>> /\ main' \in {"nap", "load"}
            /\ main = "create" /\ (created = 0 => main' = "nap")
        BY <2>1, <3>1 DEF Create
      <3> QED
        BY <3>1, <3>2
    <2>2. CASE NapEnds
      <3>1. /\ main' = "load" /\ main = "nap" /\ created = 0
            /\ UNCHANGED <<created, lockVars, pc, gathered>>
        BY <2>2 DEF NapEnds
      <3>2. \A w \in Workers \ {0} : pc[w] = "unborn" /\ at[w] = "out"
        BY <3>1
      <3>3. late' <=> ~ (at[0] = "held" \/ gathered)
        BY <2>2 DEF NapEnds
      <3>4. pc[0] \in Combining => gathered
        BY ConstantsAssumption DEF ConstantsAssumption
      <3>5. CASE at[0] = "held" \/ gathered
        <4>1. ~late' /\ ~late
          BY <3>1, <3>3, <3>5
        <4>2. at[0] = "held" /\ ~gathered => lock_ = 1
          BY <4>1
        <4>3. \A w \in Workers : pc[w] \in Combining => gathered
          BY <3>2, <3>4
        <4>4. \A w \in Workers : at[w] # "out" => pc[w] \in {"acquire", "hung"}
          OBVIOUS
        <4>5. (at[0] = "held" \/ gathered)'
          BY <3>1, <3>5
        <4>6. (at[0] = "held" /\ ~gathered => lock_ = 1)'
          BY <3>1, <4>2
        <4>7. (\A w \in Workers \ {0} : at[w] \in {"seen", "held"} => gathered)'
          BY <3>1, <3>2
        <4>8. GatherFirst'
          BY <3>1, <4>3
        <4>9. (\A w \in Workers : at[w] # "out" => pc[w] \in {"acquire", "hung"})'
          BY <3>1, <4>4
        <4> QED
          BY <3>1, <4>1, <4>5, <4>6, <4>7, <4>8, <4>9
      <3>6. CASE ~ (at[0] = "held" \/ gathered)
        BY <3>1, <3>2, <3>3, <3>4, <3>6
      <3> QED
        BY <3>5, <3>6
    <2>3. CASE StoreTotal
      BY <2>3 DEF StoreTotal
    <2>4. CASE Construct \/ CreateFails \/ LoadTotal \/ JoinWorker \/ JoinWild \/ JoinsDone
               \/ FreeBlocks \/ DestroyFrame
      <3>1. UNCHANGED <<created, late, lock_, at, pc, gathered>>
        BY <2>4 DEF Construct, CreateFails, LoadTotal, JoinWorker, JoinWild, JoinsDone,
                    FreeBlocks, DestroyFrame
      <3>2. /\ main' \in {"load", "store"} => main \in {"load", "store"}
            /\ main' \in {"construct", "create", "nap"} => main \in {"construct", "create", "nap"}
        BY <2>4 DEF Construct, CreateFails, LoadTotal, JoinWorker, JoinWild, JoinsDone,
                    FreeBlocks, DestroyFrame
      <3> QED
        BY <3>1, <3>2
    <2>5. ASSUME NEW w \in Workers, WorkerStep(w)
          PROVE  GatherInv'
      <3>1. CASE UseFreed(w) \/ UseUngathered(w)
        BY <3>1 DEF UseFreed, UseUngathered
      <3>9. CASE PushHangs(w)
        BY <3>9 DEF PushHangs
      <3>2. CASE ReadParams(w)
        BY <3>2 DEF ReadParams, L!Call
      <3>3. CASE SeeFree(w)
        BY <3>3 DEF SeeFree, L!SeeFree
      <3>4. CASE TestAndSet(w)
        BY <3>4 DEF TestAndSet, L!TestAndSet
      <3>5. CASE Release(w)
        BY <3>5 DEF Release, L!Release
      <3>6. CASE Combine(w)
        BY <3>6 DEF Combine
      <3>7. CASE TestTotal(w) \/ LoadTotalAgain(w) \/ Decrement(w)
        <4>1. /\ pc[w] \in Combining
              /\ \E p \in Combining : pc' = [pc EXCEPT ![w] = p]
              /\ UNCHANGED <<created, main, late, lock_, at, gathered>>
          BY <3>7 DEF TestTotal, LoadTotalAgain, Decrement
        <4> QED
          BY <4>1
      <3>8. CASE Gather
        BY <3>8 DEF Gather
      <3> QED
        BY <2>5, <3>1, <3>2, <3>3, <3>4, <3>5, <3>6, <3>7, <3>8, <3>9 DEF WorkerStep
    <2>6. ASSUME NEW w \in Workers, InsertRace(w)
          PROVE  GatherInv'
      BY <2>6 DEF InsertRace
    <2>7. CASE UNCHANGED vars
      BY <2>7 DEF vars
    <2> QED
      BY <2>1, <2>2, <2>3, <2>4, <2>5, <2>6, <2>7 DEF Next, MainStep, Finished
  <1>3. GatherInv => GatherFirst
    BY DEF GatherInv
  <1> QED
    BY <1>1, <1>2, <1>3, JobType, PTL DEF Spec

\* The workers that are joined are done, and whoever is past the joins has done all
\* of them, unless no worker or not every worker was created (main.cc:616-629).
LEMMA JobFrameInv == Spec => []FrameInv
  <1>1. Init => FrameInv
    BY ConstantsAssumption DEF ConstantsAssumption, Init, FrameInv, Workers
  <1>2. TypeOK /\ FrameInv /\ [Next]_vars => FrameInv'
    <2> SUFFICES ASSUME TypeOK, FrameInv, [Next]_vars
                 PROVE  FrameInv'
      OBVIOUS
    <2> USE ConstantsAssumption
        DEF ConstantsAssumption, TypeOK, jobVars, mainVars, lockVars, workerVars, FrameInv,
            StartFailed, Workers
    <2>1. CASE Construct \/ Create \/ CreateFails \/ NapEnds \/ LoadTotal \/ StoreTotal
      <3>1. CASE Create
        <4>1. /\ created \in Workers /\ joined = 0
              /\ main' \in {"nap", "load"} /\ UNCHANGED <<joined, params, frame>>
              /\ params /\ frame
          BY <3>1 DEF Create
        <4> QED
          BY <4>1
      <3>2. CASE StoreTotal
        BY <3>2 DEF StoreTotal
      <3>3. CASE Construct
        BY <3>3 DEF Construct
      <3>4. CASE CreateFails
        BY <3>4 DEF CreateFails
      <3>5. CASE NapEnds \/ LoadTotal
        BY <3>5 DEF NapEnds, LoadTotal
      <3> QED
        BY <2>1, <3>1, <3>2, <3>3, <3>4, <3>5
    <2>2. CASE JoinWorker \/ JoinWild \/ JoinsDone \/ FreeBlocks \/ DestroyFrame
      <3>1. CASE JoinWorker
        BY <3>1 DEF JoinWorker
      <3>2. CASE JoinWild
        BY <3>2 DEF JoinWild
      <3>3. CASE JoinsDone
        BY <3>3 DEF JoinsDone
      <3>4. CASE FreeBlocks \/ DestroyFrame
        BY <3>4 DEF FreeBlocks, DestroyFrame
      <3> QED
        BY <2>2, <3>1, <3>2, <3>3, <3>4
    <2>3. ASSUME NEW w \in Workers, WorkerStep(w)
          PROVE  FrameInv'
      <3>1. CASE UseFreed(w) \/ UseUngathered(w)
        BY <3>1 DEF UseFreed, UseUngathered
      <3>8. CASE PushHangs(w)
        BY <3>8 DEF PushHangs
      <3>2. CASE ReadParams(w)
        BY <3>2 DEF ReadParams
      <3>3. CASE SeeFree(w) \/ TestAndSet(w)
        BY <3>3 DEF SeeFree, TestAndSet
      <3>4. CASE Release(w)
        BY <3>4 DEF Release
      <3>5. CASE Combine(w) \/ TestTotal(w)
        BY <3>5 DEF Combine, TestTotal
      <3>6. CASE LoadTotalAgain(w) \/ Decrement(w)
        BY <3>6 DEF LoadTotalAgain, Decrement
      <3>7. CASE Gather
        BY <3>7 DEF Gather
      <3> QED
        BY <2>3, <3>1, <3>2, <3>3, <3>4, <3>5, <3>6, <3>7, <3>8 DEF WorkerStep
    <2>4. ASSUME NEW w \in Workers, InsertRace(w)
          PROVE  FrameInv'
      BY <2>4 DEF InsertRace
    <2>5. CASE UNCHANGED vars
      BY <2>5 DEF vars
    <2> QED
      BY <2>1, <2>2, <2>3, <2>4, <2>5 DEF Next, MainStep, Finished
  <1> QED
    BY <1>1, <1>2, JobType, PTL DEF Spec

\* RunJob leaves its frame only when none of the workers that it joins uses it any
\* more (main.cc:616-629), on a machine of any size; where a pthread_create failed
\* after others the code makes no such promise.
THEOREM JobFrameOutlivesJoined == Spec => []FrameOutlivesJoined
  <1>1. TypeOK /\ FrameInv => FrameOutlivesJoined
    BY ConstantsAssumption
       DEF ConstantsAssumption, TypeOK, FrameInv, FrameOutlivesJoined, FrameThere, StartFailed,
           Uses, Workers
  <1> QED
    BY <1>1, JobFrameInv, JobType, PTL

-----------------------------------------------------------------------------
\* A worker that was created is one of thread_tot, on any machine (main.cc:590).
LEMMA WorkerCounts ==
  ASSUME TypeOK, NEW w \in Workers, pc[w] # "unborn"
  PROVE  w < thread_tot
  BY ConstantsAssumption DEF ConstantsAssumption, TypeOK, Workers

\* What crashes the main thread (main.cc:618-624, output_queue.cc:89).
LEMMA MainCrash ==
  ASSUME TypeOK, MainStep, crashed'
  PROVE  ~service' \/ thread_tot' # JoinTot
  <1> USE DEF TypeOK, mainVars, jobVars, workerVars
  <1>1. ~crashed
    BY DEF MainStep
  <1>2. CASE JoinWild
    BY <1>2 DEF JoinWild
  <1>3. CASE DestroyFrame
    BY <1>1, <1>3 DEF DestroyFrame
  <1>4. CASE Construct \/ Create \/ CreateFails \/ NapEnds \/ LoadTotal \/ StoreTotal
             \/ JoinWorker \/ JoinsDone \/ FreeBlocks
    BY <1>1, <1>4 DEF Construct, Create, CreateFails, NapEnds, LoadTotal, StoreTotal,
                      JoinWorker, JoinsDone, FreeBlocks
  <1> QED
    BY <1>2, <1>3, <1>4 DEF MainStep

\* What crashes a worker, but for a meeting of two in the map of anagrams
\* (main.cc:412-503).
LEMMA WorkerCrash ==
  ASSUME TypeOK, GatherFirst, FrameOutlivesJoined, NEW w \in Workers, WorkerStep(w), crashed'
  PROVE  StartFailed' \/ thread_tot' # JoinTot \/ late'
  <1>1. ~crashed
    BY DEF WorkerStep
  <1>2. CASE UseFreed(w)
    <2>1. pc[w] # "unborn" /\ ~FrameThere(w)
      BY <1>2 DEF UseFreed, FrameThere, Uses
    <2>2. w < thread_tot
      BY <2>1, WorkerCounts
    <2>3. StartFailed \/ thread_tot # JoinTot
      BY <2>1, <2>2 DEF FrameOutlivesJoined
    <2>4. StartFailed' = StartFailed /\ thread_tot' = thread_tot
      BY <1>2 DEF UseFreed, mainVars, jobVars, StartFailed
    <2> QED
      BY <2>3, <2>4
  <1>3. CASE UseUngathered(w)
    BY <1>3 DEF UseUngathered, mainVars, GatherFirst, Combining
  <1>4. CASE ReadParams(w) \/ SeeFree(w) \/ TestAndSet(w) \/ PushHangs(w) \/ Release(w)
             \/ Combine(w) \/ TestTotal(w) \/ LoadTotalAgain(w) \/ Decrement(w) \/ Gather
    BY <1>1, <1>4 DEF ReadParams, SeeFree, TestAndSet, PushHangs, Release, Combine, TestTotal,
                      LoadTotalAgain, Decrement, Gather
  <1> QED
    BY <1>2, <1>3, <1>4 DEF WorkerStep
=============================================================================
