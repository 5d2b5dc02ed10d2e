-------------------------- MODULE MainProgramProofs --------------------------
(***************************************************************************)
(* The program for any number of workers and any argument lists: its steps *)
(* are RunJob's or leave RunJob alone, so that what is proved of RunJob    *)
(* holds in the program; main reads the map of anagrams only when the      *)
(* workers that it joins are done, and a crash has one of five causes.     *)
(***************************************************************************)
EXTENDS MainProgram, RunJobProofs

\* What main does outside RunJob, and the interrupt, leave the job's state alone.
LEMMA ProgramStepsJob == [MainNext]_<<vars, programVars>> => [Next]_vars
  <1> SUFFICES ASSUME [MainNext]_<<vars, programVars>>
               PROVE  [Next]_vars
    OBVIOUS
  <1>1. CASE MainThread
    <2>1. CASE ParseWord \/ ParseFlag \/ Usage \/ HideCursor \/ ReadDictionaries
      BY <2>1 DEF ParseWord, ParseFlag, Usage, HideCursor, ReadDictionaries
    <2>2. CASE JobStep
      BY <2>2 DEF JobStep, Next
    <2>3. CASE JobReturns \/ PrintResults \/ ShowCursor
      BY <2>3 DEF JobReturns, PrintResults, ShowCursor
    <2> QED
      BY <1>1, <2>1, <2>2, <2>3 DEF MainThread
  <1>2. CASE WorkersRun
    BY <1>2 DEF WorkersRun, Running, Next
  <1>3. CASE SigtermHandler \/ Over \/ UNCHANGED <<vars, programVars>>
    BY <1>3 DEF SigtermHandler, Over
  <1> QED
    BY <1>1, <1>2, <1>3 DEF MainNext

\* The program runs RunJob as module RunJob has it: main calls it once (main.cc:814),
\* and neither the arguments nor an interrupt get in its way.
THEOREM ProgramRunsJob == MainSpec => Spec
  <1>1. MainInit => Init
    BY DEF MainInit
  <1> QED
    BY <1>1, ProgramStepsJob, PTL DEF MainSpec, Spec

\* In the program, too, nobody combines before the gather if worker 0 has the lock when
\* the nap ends (main.cc:489-490, 607-611).
THEOREM ProgramGathersFirst == MainSpec => []GatherFirst
  BY JobGathersFirst, ProgramRunsJob, PTL

\* However and whenever the program exits, the cursor is shown (main.cc:636-645,
\* 764-767, 830).
THEOREM ProgramRestoresCursor == MainSpec => []CursorRestored
  <1>1. MainInit => CursorInv
    BY DEF MainInit, CursorInv
  <1>2. CursorInv /\ [MainNext]_<<vars, programVars>> => CursorInv'
    <2> SUFFICES ASSUME CursorInv, [MainNext]_<<vars, programVars>>
                 PROVE  CursorInv'
      OBVIOUS
    <2> USE DEF CursorInv, programVars, Exit
    <2>1. CASE MainThread
      <3>1. CASE ParseWord \/ ParseFlag
        BY <3>1 DEF ParseWord, ParseFlag
      <3>2. CASE Usage
        BY <3>2 DEF Usage
      <3>3. CASE HideCursor \/ ReadDictionaries
        BY <3>3 DEF HideCursor, ReadDictionaries
      <3>4. CASE JobStep \/ JobReturns \/ PrintResults
        BY <3>4 DEF JobStep, JobReturns, PrintResults
      <3>5. CASE ShowCursor
        BY <3>5 DEF ShowCursor
      <3> QED
        BY <2>1, <3>1, <3>2, <3>3, <3>4, <3>5 DEF MainThread
    <2>2. CASE SigtermHandler
      BY <2>2 DEF SigtermHandler
    <2>3. CASE WorkersRun \/ Over \/ UNCHANGED <<vars, programVars>>
      BY <2>3 DEF WorkersRun, Over
    <2> QED
      BY <2>1, <2>2, <2>3 DEF MainNext
  <1>3. CursorInv => CursorRestored
    BY DEF CursorInv, CursorRestored
  <1> QED
    BY <1>1, <1>2, <1>3, PTL DEF MainSpec

\* Once main is past RunJob, RunJob has returned.
LEMMA ProgramOrder == MainSpec => []OrderInv
  <1>1. MainInit => OrderInv
    BY DEF MainInit, OrderInv
  <1>2. OrderInv /\ [MainNext]_<<vars, programVars>> => OrderInv'
    <2> SUFFICES ASSUME OrderInv, [MainNext]_<<vars, programVars>>
                 PROVE  OrderInv'
      OBVIOUS
    <2> USE DEF OrderInv, programVars, parseVars, vars, mainVars, Exit
    <2>1. CASE MainThread
      <3>1. CASE ParseWord \/ ParseFlag \/ Usage
        BY <3>1 DEF ParseWord, ParseFlag, Usage
      <3>2. CASE HideCursor
        BY <3>2 DEF HideCursor
      <3>3. CASE ReadDictionaries
        BY <3>3 DEF ReadDictionaries
      <3>4. CASE JobStep
        BY <3>4 DEF JobStep
      <3>5. CASE JobReturns \/ PrintResults \/ ShowCursor
        BY <3>5 DEF JobReturns, PrintResults, ShowCursor
      <3> QED
        BY <2>1, <3>1, <3>2, <3>3, <3>4, <3>5 DEF MainThread
    <2>2. CASE WorkersRun
      <3>1. PICK w \in Workers : WorkerStep(w) \/ InsertRace(w)
        BY <2>2 DEF WorkersRun
      <3>2. main' = main
        BY <3>1 DEF WorkerStep, UseFreed, UseUngathered, InsertRace, ReadParams, SeeFree,
                    TestAndSet, PushHangs, Release, Combine, TestTotal, LoadTotalAgain,
                    Decrement, Gather
      <3> QED
        BY <2>2, <3>2 DEF WorkersRun
    <2>3. CASE SigtermHandler \/ Over \/ UNCHANGED <<vars, programVars>>
      BY <2>3 DEF SigtermHandler, Over
    <2> QED
      BY <2>1, <2>2, <2>3 DEF MainNext
  <1> QED
    BY <1>1, <1>2, PTL DEF MainSpec

\* main prints the anagrams (main.cc:819-829) when all the workers that it joins are
\* done, on a machine of any size, unless a pthread_create failed after others.
THEOREM ProgramPrintsAfterWorkers == MainSpec => []PrintsAfterWorkers
  <1>1. TypeOK /\ FrameInv /\ OrderInv => PrintsAfterWorkers
    <2> SUFFICES ASSUME TypeOK, FrameInv, OrderInv, place \in {"results", "show"}
                 PROVE  StartFailed \/ \A w \in Workers : w < JoinTot => pc[w] \in {"unborn", "done"}
      BY DEF OrderInv, PrintsAfterWorkers
    <2>1. main = "returned"
      BY DEF OrderInv
    <2>2. created = 0 \/ StartFailed \/ joined = JoinTot
      BY <2>1 DEF FrameInv
    <2>3. CASE created = 0
      BY <2>1, <2>3, ConstantsAssumption DEF ConstantsAssumption, TypeOK, Workers
    <2>4. CASE joined = JoinTot
      BY <2>4 DEF FrameInv
    <2> QED
      BY <2>2, <2>3, <2>4
  <1> QED
    BY <1>1, JobType, JobFrameInv, ProgramRunsJob, ProgramOrder, PTL

\* A crash has one of the causes that the code leaves open: on a machine with as many
\* workers as joins, with -o, when every thread was created and worker 0 got in during
\* the nap, nothing that the threads do in any order crashes the program (main.cc:284,
\* 489-490, 599-629).
THEOREM ProgramCrashHasCause == MainSpec => []CrashHasCause
  <1>1. MainInit => CrashHasCause
    BY DEF MainInit, Init, CrashHasCause
  <1>2. TypeOK /\ GatherFirst /\ FrameOutlivesJoined /\ CrashHasCause
          /\ [MainNext]_<<vars, programVars>> => CrashHasCause'
    <2> SUFFICES ASSUME TypeOK, GatherFirst, FrameOutlivesJoined, CrashHasCause,
                        [MainNext]_<<vars, programVars>>
                 PROVE  CrashHasCause'
      OBVIOUS
    <2>1. CASE JobStep
      BY <2>1, MainCrash DEF JobStep, CrashHasCause
    <2>2. CASE WorkersRun
      <3>1. PICK w \in Workers : WorkerStep(w) \/ ("o" \notin flags /\ InsertRace(w))
        BY <2>2 DEF WorkersRun
      <3>2. CASE WorkerStep(w)
        BY <3>2, WorkerCrash DEF CrashHasCause
      <3>3. CASE "o" \notin flags
        BY <2>2, <3>3 DEF WorkersRun, programVars, parseVars, CrashHasCause
      <3> QED
        BY <3>1, <3>2, <3>3
    <2>3. ASSUME UNCHANGED vars, flags' = flags \/ ~crashed
          PROVE  CrashHasCause'
      BY <2>3 DEF vars, mainVars, jobVars, CrashHasCause, StartFailed
    <2>4. CASE MainThread /\ ~JobStep
      BY <2>3, <2>4 DEF MainThread, Running, ParseWord, ParseFlag, Usage, HideCursor,
                        ReadDictionaries, JobReturns, PrintResults, ShowCursor
    <2>5. CASE SigtermHandler \/ Over \/ UNCHANGED <<vars, programVars>>
      BY <2>3, <2>5 DEF SigtermHandler, Over, programVars, parseVars
    <2> QED
      BY <2>1, <2>2, <2>4, <2>5 DEF MainNext
  <1> QED
    BY <1>1, <1>2, JobType, JobGathersFirst, JobFrameOutlivesJoined, ProgramRunsJob, PTL
       DEF MainSpec

-----------------------------------------------------------------------------
\* A worker does nothing before it is created, and leaves main alone.
LEMMA WorkerLeavesMain ==
  ASSUME NEW w \in Workers, WorkerStep(w) \/ InsertRace(w), pc[w] = "unborn"
  PROVE  UNCHANGED <<main, pc>>
  BY DEF WorkerStep, UseFreed, Uses, UseUngathered, InsertRace, ReadParams, SeeFree, TestAndSet,
         PushHangs, Release, Combine, TestTotal, LoadTotalAgain, Decrement, Gather, mainVars

\* Every place of main is one of its code, whatever it is called with (main.cc:632-834).
THEOREM ProgramTypeOK == MainSpec => []MainTypeOK
  <1>1. MainInit => MainTypeOK
    <2> SUFFICES ASSUME MainInit
                 PROVE  MainTypeOK
      OBVIOUS
    <2>1. Len(argv) \in Nat
      BY ArgListsAssumption DEF ArgListsAssumption, MainInit
    <2> QED
      BY <2>1 DEF MainInit, MainTypeOK, KnownFlags
  <1>2. MainTypeOK /\ OrderInv /\ [MainNext]_<<vars, programVars>> => MainTypeOK'
    <2> SUFFICES ASSUME MainTypeOK, OrderInv, [MainNext]_<<vars, programVars>>
                 PROVE  MainTypeOK'
      OBVIOUS
    <2>1. Len(argv) \in Nat
      BY ArgListsAssumption DEF ArgListsAssumption, MainTypeOK
    <2> USE <2>1 DEF MainTypeOK, programVars, parseVars, Exit
    <2>2. CASE MainThread
      <3>1. CASE ParseWord
        BY <3>1 DEF ParseWord
      <3>2. CASE ParseFlag
        BY <3>2 DEF ParseFlag
      <3>3. CASE Usage
        BY <3>3 DEF Usage
      <3>4. CASE HideCursor
        BY <3>4 DEF HideCursor
      <3>5. CASE ReadDictionaries
        BY <3>5 DEF ReadDictionaries, OrderInv
      <3>6. CASE JobStep \/ JobReturns \/ PrintResults \/ ShowCursor
        BY <3>6 DEF JobStep, JobReturns, PrintResults, ShowCursor
      <3> QED
        BY <2>2, <3>1, <3>2, <3>3, <3>4, <3>5, <3>6 DEF MainThread
    <2>3. CASE WorkersRun \/ SigtermHandler \/ Over \/ UNCHANGED <<vars, programVars>>
      BY <2>3 DEF WorkersRun, SigtermHandler, Over
    <2> QED
      BY <2>2, <2>3 DEF MainNext
  <1> QED
    BY <1>1, <1>2, ProgramOrder, PTL DEF MainSpec

\* A flag behind a part of the phrase, an unknown flag and a blank phrase make a wrong
\* call, whatever comes behind.
LEMMA UsageWrong ==
  ASSUME MainTypeOK, ParseInv, Usage
  PROVE  ~RightCall
  <1> DEFINE n == i - 1 - Len(word)
  <1>1. Len(argv) \in Nat /\ Len(word) \in Nat /\ i \in Nat
    BY ArgListsAssumption DEF ArgListsAssumption, MainTypeOK, ParseInv
  <1>2. "none" \notin KnownFlags
    BY DEF KnownFlags
  <1>3. \A k \in 1 .. i - 1 : IF k <= n THEN argv[k].flag \in KnownFlags
                              ELSE argv[k].flag = "none" /\ word[k - n] = argv[k].text
    BY DEF ParseInv
  <1>4. Len(word) < i /\ word \in Seq(STRING)
    BY DEF ParseInv
  <1>5. CASE i <= Len(argv) /\ argv[i].flag # "none" /\ word # <<>>
    <2>1. i - 1 \in 1 .. i - 1 /\ ~(i - 1 <= n)
      BY <1>1, <1>4, <1>5
    <2>2. argv[i - 1].flag = "none"
      BY <1>3, <2>1
    <2> QED
      BY <1>1, <1>2, <1>5, <2>1, <2>2 DEF RightCall, FlagsFirst
  <1>6. CASE i <= Len(argv) /\ argv[i].flag # "none" /\ argv[i].flag \notin KnownFlags
    BY <1>1, <1>6 DEF RightCall, FlagsFirst, MainTypeOK
  <1>7. CASE i > Len(argv) /\ \A k \in 1 .. Len(word) : word[k] = "blank"
    <2>1. ASSUME NEW k \in 1 .. Len(argv), argv[k].flag = "none"
          PROVE  argv[k].text = "blank"
      <3>1. k \in 1 .. i - 1 /\ ~(k <= n)
        BY <1>1, <1>2, <1>3, <1>7, <2>1 DEF MainTypeOK
      <3>2. word[k - n] = argv[k].text /\ k - n \in 1 .. Len(word)
        BY <1>1, <1>3, <1>4, <3>1
      <3> QED
        BY <1>7, <3>2
    <2> QED
      BY <2>1 DEF RightCall
  <1> QED
    BY <1>5, <1>6, <1>7 DEF Usage, Arg

\* The arguments are taken one after the other (main.cc:158-185, 674-762).
LEMMA ParseStep ==
  ASSUME MainTypeOK, OrderInv, ParseInv, [MainNext]_<<vars, programVars>>
  PROVE  ParseInv'
  <1>1. Len(argv) \in Nat /\ Len(word) \in Nat /\ i \in 1 .. Len(argv) + 1 /\ i \in Nat
        /\ argv \in Seq(Arguments)
    BY ArgListsAssumption DEF ArgListsAssumption, MainTypeOK, ParseInv
  <1>3. "none" \notin KnownFlags
    BY DEF KnownFlags
  <1>4. CASE ParseWord
    <2>1. /\ i <= Len(argv) /\ argv[i].flag = "none" /\ word' = Append(word, argv[i].text)
          /\ i' = i + 1 /\ UNCHANGED <<main, pc, argv, flags, excludeset, place, read, code>>
          /\ place = "parse"
      BY <1>4 DEF ParseWord, Arg, vars, workerVars, mainVars
    <2>2. argv[i] \in Arguments /\ argv[i].items = {}
      BY <1>1, <2>1, ArgListsAssumption DEF ArgListsAssumption, MainTypeOK
    <2>3. word' \in Seq(STRING) /\ Len(word') = Len(word) + 1
          /\ \A k \in 1 .. Len(word) : word'[k] = word[k]
          /\ word'[Len(word) + 1] = argv[i].text
      BY <2>1, <2>2 DEF Arguments, ParseInv
    <2>4. \A k \in 1 .. i : IF k <= i - 1 - Len(word) THEN argv[k].flag \in KnownFlags
            ELSE argv[k].flag = "none" /\ word'[k - (i - 1 - Len(word))] = argv[k].text
      <3> SUFFICES ASSUME NEW k \in 1 .. i
                   PROVE  IF k <= i - 1 - Len(word) THEN argv[k].flag \in KnownFlags
            ELSE argv[k].flag = "none" /\ word'[k - (i - 1 - Len(word))] = argv[k].text
        OBVIOUS
      <3>1. CASE k = i
        BY <1>1, <2>1, <2>3, <3>1 DEF ParseInv
      <3>2. CASE k \in 1 .. i - 1
        <4>1. IF k <= i - 1 - Len(word) THEN argv[k].flag \in KnownFlags
              ELSE argv[k].flag = "none" /\ word[k - (i - 1 - Len(word))] = argv[k].text
          BY <3>2 DEF ParseInv
        <4>2. k > i - 1 - Len(word) => k - (i - 1 - Len(word)) \in 1 .. Len(word)
          BY <1>1, <3>2
        <4> QED
          BY <2>3, <4>1, <4>2, <1>1
      <3> QED
        BY <1>1, <3>1, <3>2
    <2>5. i' - 1 - Len(word') = i - 1 - Len(word) /\ i' - 1 = i /\ Len(word') < i'
      BY <1>1, <2>1, <2>3 DEF ParseInv
    <2>6. \A k \in 1 .. i : k \in 1 .. i - 1 \/ k = i
      BY <1>1
    <2>7. flags' = {argv[k].flag : k \in 1 .. i} \ {"none"}
      BY <1>1, <2>1, <2>6 DEF ParseInv
    <2>8. excludeset' = UNION {argv[k].items : k \in 1 .. i}
      BY <1>1, <2>1, <2>2, <2>6 DEF ParseInv
    <2>9. ~(read' > 0) /\ place' = "parse"
      BY <2>1 DEF OrderInv
    <2>10. /\ main' = "construct" /\ \A w \in Workers : pc'[w] = "unborn"
           /\ code' # -1
      BY <2>1 DEF ParseInv
    <2> QED
      <3>1. \A k \in 1 .. i' - 1 :
              IF k <= i' - 1 - Len(word') THEN argv'[k].flag \in KnownFlags
              ELSE argv'[k].flag = "none" /\ word'[k - (i' - 1 - Len(word'))] = argv'[k].text
        BY <2>1, <2>4, <2>5
      <3>2. /\ flags' = {argv'[k].flag : k \in 1 .. i' - 1} \ {"none"}
            /\ excludeset' = UNION {argv'[k].items : k \in 1 .. i' - 1}
        BY <2>1, <2>5, <2>7, <2>8
      <3>3. code' = -1 => FALSE
        BY <2>10
      <3> QED
        BY <2>3, <2>5, <2>9, <2>10, <3>1, <3>2, <3>3 DEF ParseInv
  <1>5. CASE ParseFlag
    <2>1. /\ i <= Len(argv) /\ argv[i].flag \in KnownFlags /\ word = <<>> /\ word' = word
          /\ flags' = flags \union {argv[i].flag}
          /\ excludeset' = excludeset \union argv[i].items
          /\ i' = i + 1 /\ UNCHANGED <<main, pc, argv, place, read, code>>
          /\ place = "parse"
      BY <1>5 DEF ParseFlag, Arg, vars, workerVars, mainVars
    <2>2. Len(word) = 0 /\ i' - 1 = i /\ i' - 1 - Len(word') = i /\ Len(word') < i'
      BY <1>1, <2>1
    <2>3. \A k \in 1 .. i : k \in 1 .. i - 1 \/ k = i
      BY <1>1
    <2>4. \A k \in 1 .. i : k <= i /\ argv[k].flag \in KnownFlags
      <3>1. \A k \in 1 .. i - 1 : k <= i - 1 - Len(word) => argv[k].flag \in KnownFlags
        BY DEF ParseInv
      <3> QED
        BY <1>1, <2>1, <2>2, <2>3, <3>1
    <2>5. flags' = {argv[k].flag : k \in 1 .. i} \ {"none"}
      BY <1>1, <1>3, <2>1, <2>3 DEF ParseInv
    <2>6. excludeset' = UNION {argv[k].items : k \in 1 .. i}
      BY <1>1, <2>1, <2>3 DEF ParseInv
    <2>7. ~(read' > 0) /\ place' = "parse"
      BY <2>1 DEF OrderInv
    <2>8. /\ main' = "construct" /\ \A w \in Workers : pc'[w] = "unborn"
          /\ code' # -1
      BY <2>1 DEF ParseInv
    <2>9. word' \in Seq(STRING)
      BY <2>1 DEF ParseInv
    <2> QED
      <3>1. \A k \in 1 .. i' - 1 :
              IF k <= i' - 1 - Len(word') THEN argv'[k].flag \in KnownFlags
              ELSE argv'[k].flag = "none" /\ word'[k - (i' - 1 - Len(word'))] = argv'[k].text
        BY <2>1, <2>2, <2>4
      <3>2. /\ flags' = {argv'[k].flag : k \in 1 .. i' - 1} \ {"none"}
            /\ excludeset' = UNION {argv'[k].items : k \in 1 .. i' - 1}
        BY <2>1, <2>2, <2>5, <2>6
      <3>3. code' = -1 => FALSE
        BY <2>8
      <3> QED
        BY <2>2, <2>7, <2>8, <2>9, <3>1, <3>2, <3>3 DEF ParseInv
  <1>6. CASE Usage
    <2>1. ~RightCall
      BY <1>6, UsageWrong
    <2> QED
      BY <1>6, <2>1 DEF Usage, Exit, ParseInv, OrderInv, vars, workerVars, mainVars, parseVars,
                        RightCall, FlagsFirst
  <1>7. CASE HideCursor
    BY <1>7 DEF HideCursor, ParseInv, OrderInv, vars, workerVars, mainVars, parseVars,
                RightCall, FlagsFirst
  <1>8. CASE ReadDictionaries
    BY <1>8 DEF ReadDictionaries, ParseInv, OrderInv, vars, workerVars, mainVars, parseVars,
                RightCall, FlagsFirst
  <1>9. CASE JobStep \/ JobReturns \/ PrintResults
    BY <1>9 DEF JobStep, JobReturns, PrintResults, ParseInv, OrderInv, programVars, parseVars,
                RightCall, FlagsFirst
  <1>10. CASE ShowCursor \/ SigtermHandler
    BY <1>10 DEF ShowCursor, SigtermHandler, Exit, Running, ParseInv, OrderInv, vars,
                 workerVars, mainVars, parseVars, RightCall, FlagsFirst
  <1>11. CASE WorkersRun
    <2>1. PICK w \in Workers : WorkerStep(w) \/ InsertRace(w)
      BY <1>11 DEF WorkersRun
    <2>2. place \in {"parse", "read"} => UNCHANGED <<main, pc>>
      BY <2>1, WorkerLeavesMain DEF ParseInv
    <2>3. UNCHANGED programVars /\ place # "exited"
      BY <1>11 DEF WorkersRun, Running
    <2> QED
      BY <2>2, <2>3 DEF ParseInv, programVars, parseVars, RightCall, FlagsFirst
  <1>12. CASE Over \/ UNCHANGED <<vars, programVars>>
    <2>1. UNCHANGED <<argv, i, word, flags, excludeset, place, read, code, main, pc>>
      BY <1>12 DEF Over, vars, workerVars, mainVars, programVars, parseVars
    <2>2. RightCall' = RightCall
      BY <2>1 DEF RightCall, FlagsFirst
    <2> QED
      BY <2>1, <2>2 DEF ParseInv
  <1> QED
    BY <1>4, <1>5, <1>6, <1>7, <1>8, <1>9, <1>10, <1>11, <1>12 DEF MainNext, MainThread

\* Only a right call gets to the dictionaries and the job, with its flags, its phrase and
\* its excluded words as they were given, for lists of any length (main.cc:158-185, 674-762).
THEOREM ProgramParsesRight == MainSpec => []ParsedRight
  <1>1. MainInit => ParseInv
    <2> SUFFICES ASSUME MainInit
                 PROVE  ParseInv
      OBVIOUS
    <2>1. i = 1 /\ word = <<>> /\ flags = {} /\ excludeset = {} /\ 1 .. i - 1 = {}
      BY DEF MainInit
    <2> QED
      BY <2>1 DEF MainInit, Init, ParseInv
  <1>2. MainTypeOK /\ ParseInv => ParsedRight
    <2> SUFFICES ASSUME MainTypeOK, ParseInv
                 PROVE  ParsedRight
      OBVIOUS
    <2>1. ASSUME read > 0
          PROVE  /\ RightCall
                 /\ flags = {argv[k].flag : k \in 1 .. Len(argv)} \ {"none"}
                 /\ excludeset = UNION {argv[k].items : k \in 1 .. Len(argv)}
                 /\ \E n \in 0 .. Len(argv) :
                      FlagsFirst(n) /\ word = [k \in 1 .. Len(argv) - n |-> argv[n + k].text]
      <3> DEFINE n == Len(argv) - Len(word)
      <3>1. Len(argv) \in Nat /\ Len(word) \in Nat /\ i \in Nat
        BY ArgListsAssumption DEF ArgListsAssumption, MainTypeOK, ParseInv
      <3>2. i - 1 = Len(argv) /\ i - 1 - Len(word) = n
        <4>1. i > Len(argv)
          BY <2>1 DEF ParseInv
        <4>2. i \in 1 .. Len(argv) + 1
          BY DEF MainTypeOK
        <4> QED
          BY <3>1, <4>1, <4>2
      <3>3. n \in 0 .. Len(argv)
        BY <3>1, <3>2 DEF ParseInv
      <3>4. \A k \in 1 .. Len(argv) : IF k <= n THEN argv[k].flag \in KnownFlags
                                      ELSE argv[k].flag = "none" /\ word[k - n] = argv[k].text
        BY <3>2 DEF ParseInv
      <3>5. FlagsFirst(n)
        BY <3>4 DEF FlagsFirst
      <3>6. \A k \in 1 .. Len(word) : /\ n + k \in 1 .. Len(argv) /\ ~(n + k <= n)
                                      /\ (n + k) - n = k
        BY <3>1, <3>3
      <3>7. \A k \in 1 .. Len(word) : argv[n + k].flag = "none" /\ word[k] = argv[n + k].text
        BY <3>4, <3>6
      <3>8. word = [k \in 1 .. Len(argv) - n |-> argv[n + k].text]
        BY <3>1, <3>7 DEF ParseInv
      <3>9. PICK k \in 1 .. Len(word) : word[k] # "blank"
        BY <2>1 DEF ParseInv
      <3>10. RightCall
        BY <3>3, <3>5, <3>6, <3>7, <3>9 DEF RightCall
      <3>11. flags = {argv[m].flag : m \in 1 .. Len(argv)} \ {"none"}
             /\ excludeset = UNION {argv[m].items : m \in 1 .. Len(argv)}
        BY <3>2 DEF ParseInv
      <3> QED
        BY <3>3, <3>5, <3>8, <3>10, <3>11
    <2> QED
      BY <2>1 DEF ParsedRight, ParseInv
  <1>3. MainSpec => []ParseInv
    BY <1>1, ParseStep, ProgramTypeOK, ProgramOrder, PTL DEF MainSpec
  <1> QED
    BY <1>2, <1>3, ProgramTypeOK, PTL
=============================================================================
