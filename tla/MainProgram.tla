----------------------------- MODULE MainProgram -----------------------------
(***************************************************************************)
(* main and SigtermHandler (src/main.cc): the arguments are parsed, the    *)
(* cursor is hidden, the dictionaries are read, RunJob runs the job        *)
(* (module RunJob, whose steps are steps here), the anagrams are printed   *)
(* from the map that the workers filled, and the cursor is shown again.    *)
(* An interrupt may come at any time after the first statements.           *)
(*                                                                         *)
(* An argument is a record: its flag letter, or "none" for a part of the   *)
(* phrase; the digit of -v, or -1; the text of a part, or "blank" for one  *)
(* of blanks only; and the items of -e.  Texts stand for their lower case. *)
(***************************************************************************)
EXTENDS RunJob, Sequences

CONSTANT ArgLists    \* the argument lists that the program may be called with

Arguments == [flag : STRING, digit : -1 .. 9, text : STRING, items : SUBSET STRING]

ASSUME ArgListsAssumption ==
  \A list \in ArgLists :
    /\ list \in Seq(Arguments)
    /\ \A k \in 1 .. Len(list) : list[k].flag = "none" => list[k].items = {}

VARIABLES
  argv, i,        \* the arguments, and the next one
  word,           \* the parts of the phrase
  flags,          \* the letters of the flags seen
  verbosity,      \* the log level
  excludeset,     \* the words to exclude
  place,          \* where main is
  read,           \* the number of dictionaries read
  cursor,         \* is the cursor shown?
  code            \* the exit code

parseVars == <<argv, i, word, flags, verbosity, excludeset>>
programVars == <<parseVars, place, read, cursor, code>>

MainInit ==
  /\ Init
  /\ argv \in ArgLists /\ i = 1
  /\ word = <<>> /\ flags = {} /\ verbosity = 1 /\ excludeset = {}
  /\ place = "parse"
  /\ read = 0 /\ cursor = "shown" /\ code = 0

Arg == argv[i]

-----------------------------------------------------------------------------
\* An argument without a dash is a part of the phrase.
ParseWord ==
  /\ place = "parse" /\ i <= Len(argv) /\ Arg.flag = "none"
  /\ word' = Append(word, Arg.text)
  /\ i' = i + 1
  /\ UNCHANGED <<vars, argv, flags, verbosity, excludeset, place, read, cursor, code>>

KnownFlags == {"v", "b", "d", "e", "s", "t", "o"}

\* Mutant of ParseFlag: a flag behind the phrase is let through.
ParseFlagAnywhere ==
  /\ place = "parse" /\ i <= Len(argv) /\ Arg.flag \in KnownFlags
  /\ flags' = flags \union {Arg.flag}
  /\ verbosity' = IF Arg.digit \in 0 .. 9 THEN Arg.digit ELSE verbosity
  /\ excludeset' = excludeset \union Arg.items
  /\ i' = i + 1
  /\ UNCHANGED <<vars, argv, word, place, read, cursor, code>>

\* A flag comes before the phrase.
ParseFlag ==
  /\ place = "parse" /\ i <= Len(argv) /\ Arg.flag \in KnownFlags
  /\ word = <<>>
  /\ flags' = flags \union {Arg.flag}
  /\ verbosity' = IF Arg.digit \in 0 .. 9 THEN Arg.digit ELSE verbosity
  /\ excludeset' = excludeset \union Arg.items
  /\ i' = i + 1
  /\ UNCHANGED <<vars, argv, word, place, read, cursor, code>>

Exit(status) == place' = "exited" /\ code' = status

\* A flag behind a part of the phrase, an unknown flag, or no phrase at all.
Usage ==
  /\ place = "parse"
  /\ \/ i <= Len(argv) /\ Arg.flag # "none" /\ (word # <<>> \/ Arg.flag \notin KnownFlags)
     \/ i > Len(argv) /\ \A k \in 1 .. Len(word) : word[k] = "blank"
  /\ Exit(-1)
  /\ UNCHANGED <<vars, parseVars, read, cursor>>

HideCursor ==
  /\ place = "parse" /\ i > Len(argv)
  /\ \E k \in 1 .. Len(word) : word[k] # "blank"
  /\ cursor' = IF "o" \notin flags /\ verbosity >= 1 THEN "hidden" ELSE cursor
  /\ place' = "read"
  /\ UNCHANGED <<vars, parseVars, read, code>>

\* Mutant of ReadDictionaries: one dictionary too many.
ReadDictionariesAgain ==
  /\ place = "read"
  /\ read' = read + 1
  /\ place' = IF read' > 2 \/ "b" \notin flags THEN "job" ELSE "read"
  /\ UNCHANGED <<vars, parseVars, cursor, code>>

\* The small dictionary, and with -b the big one.
ReadDictionaries ==
  /\ place = "read"
  /\ read' = read + 1
  /\ place' = IF read' = 2 \/ "b" \notin flags THEN "job" ELSE "read"
  /\ UNCHANGED <<vars, parseVars, cursor, code>>

\* RunJob runs.
JobStep ==
  /\ place = "job"
  /\ MainStep
  /\ UNCHANGED programVars

\* Mutant of JobReturns: main goes on while the workers are joined.
JobReturnsEarly ==
  /\ place = "job" /\ main \in {"join", "returned"}
  /\ place' = "results"
  /\ UNCHANGED <<vars, parseVars, read, cursor, code>>

JobReturns ==
  /\ place = "job" /\ main = "returned"
  /\ place' = "results"
  /\ UNCHANGED <<vars, parseVars, read, cursor, code>>

\* Without -o the map of anagrams is printed.
PrintResults ==
  /\ place = "results"
  /\ place' = "show"
  /\ UNCHANGED <<vars, parseVars, read, cursor, code>>

\* The end of main ends all threads.
ShowCursor ==
  /\ place = "show"
  /\ cursor' = "shown"
  /\ Exit(0)
  /\ UNCHANGED <<vars, parseVars, read>>

Running == place # "exited" /\ ~crashed

\* Mutant of SigtermHandler: it does what the system does without it.
SigtermDefault ==
  /\ Running
  /\ Exit(1)
  /\ UNCHANGED <<vars, parseVars, read, cursor>>

\* The user hits Ctrl-C.
SigtermHandler ==
  /\ Running
  /\ cursor' = "shown"
  /\ Exit(1)
  /\ UNCHANGED <<vars, parseVars, read>>

\* The workers run as long as the program does, whatever main does.  Without -o
\* they insert into the map of anagrams.
WorkersRun ==
  /\ Running
  /\ \E w \in Workers : WorkerStep(w) \/ ("o" \notin flags /\ InsertRace(w))
  /\ UNCHANGED programVars

Over == ~Running /\ UNCHANGED <<vars, programVars>>

MainThread ==
  /\ Running
  /\ \/ ParseWord \/ ParseFlag \/ Usage \/ HideCursor \/ ReadDictionaries
     \/ JobStep \/ JobReturns \/ PrintResults \/ ShowCursor

MainNext == MainThread \/ WorkersRun \/ SigtermHandler \/ Over

MainSpec == MainInit /\ [][MainNext]_<<vars, programVars>>

\* All threads keep running; nobody has to hit Ctrl-C, and no race has to crash.
MainFairSpec ==
  /\ MainSpec
  /\ WF_<<vars, programVars>>(MainThread)
  /\ \A w \in Workers :
       WF_<<vars, programVars>>(Running /\ WorkerStep(w) /\ UNCHANGED programVars)

-----------------------------------------------------------------------------
\* main is at a place of its code, and the flags are those it knows.
MainTypeOK ==
  /\ argv \in ArgLists /\ i \in 1 .. Len(argv) + 1
  /\ flags \subseteq KnownFlags /\ verbosity \in 0 .. 9
  /\ place \in {"parse", "read", "job", "results", "show", "exited"}
  /\ read \in 0 .. 2 /\ cursor \in {"shown", "hidden"} /\ code \in {-1, 0, 1}

\* "if the user hits Ctrl-C, the curser can be set back to normal" (main.cc:636-638):
\* however the program exits, at whatever time and with whatever flags, the
\* cursor is shown.  (A crash is no exit.)
CursorRestored == place = "exited" => cursor = "shown"

\* A call is right when all its flags are known and come before the phrase, and
\* the phrase is not blank (main.cc:158-185, 674-762).
FlagsFirst(n) ==
  \A k \in 1 .. Len(argv) : IF k <= n THEN argv[k].flag \in KnownFlags ELSE argv[k].flag = "none"

RightCall ==
  /\ \E n \in 0 .. Len(argv) : FlagsFirst(n)
  /\ \E k \in 1 .. Len(argv) : argv[k].flag = "none" /\ argv[k].text # "blank"

\* A right call, and no other, gets to the job, with all of its flags, its phrase
\* and its excluded words; a wrong one ends before a dictionary is read, the
\* cursor hidden or a thread started.
ParsedRight ==
  /\ code = -1 => ~RightCall /\ read = 0 /\ main = "construct"
  /\ read > 0 =>
       /\ RightCall
       /\ flags = {argv[k].flag : k \in 1 .. Len(argv)} \ {"none"}
       /\ excludeset = UNION {argv[k].items : k \in 1 .. Len(argv)}
       /\ \E n \in 0 .. Len(argv) :
            FlagsFirst(n) /\ word = [k \in 1 .. Len(argv) - n |-> argv[n + k].text]

\* main prints the map of anagrams (main.cc:819-829) when all dictionaries have
\* been read and none of the workers that RunJob joins inserts any more, unless a
\* pthread_create failed: the joins are all that keeps main and the workers apart,
\* and on a large machine there are workers that are not joined.
PrintsAfterWorkers ==
  place \in {"results", "show"} =>
    /\ read = IF "b" \in flags THEN 2 ELSE 1
    /\ StartFailed \/ \A w \in Workers : w < JoinTot => pc[w] \in {"unborn", "done"}

\* What the program leaves undefined crashes it only where the code cannot prevent
\* it: the queue's thread or a worker could not be created (main.cc:601-602), the
\* workers are not as many as the joins (main.cc:618-624), worker 0 did not get in
\* during the nap (main.cc:607), or two workers met in the map of anagrams
\* (main.cc:284).
CrashHasCause ==
  crashed => ~service \/ StartFailed \/ thread_tot # JoinTot \/ late \/ "o" \notin flags

\* Who waits for ever waits in a join of no thread (main.cc:618-624,
\* output_queue.cc:89) or in a push to a queue without its service thread
\* (output_queue.cc:76, 129-132).
WaitsForEver ==
  /\ main = "hung" \/ \E w \in Workers : pc[w] = "hung"
  /\ ~service \/ thread_tot < JoinTot

\* The program ends, though allocations and pthread_creates fail, workers are left
\* behind and the nap is too short: no race on the locks and no order of the joins
\* keeps it, and it stands still only where somebody waits for ever.
ProgramEnds == <>(~Running \/ WaitsForEver)

-----------------------------------------------------------------------------
\* Inductive invariants: the cursor is hidden only between parsing and the end,
CursorInv == place \in {"parse", "exited"} => cursor = "shown"

\* and main gets to each of its places with the dictionaries read and RunJob
\* returned that belong to it.
OrderInv ==
  /\ place = "parse" => read = 0
  /\ place = "read" => read = 0 \/ (read = 1 /\ "b" \in flags)
  /\ place \in {"job", "results", "show"} => read = IF "b" \in flags THEN 2 ELSE 1
  /\ place \in {"results", "show"} => main = "returned"

\* The arguments before the next one are flags, and then the parts of the phrase so
\* far; main goes on only with all of them and a phrase that is not blank.
ParseInv ==
  /\ LET n == i - 1 - Len(word) IN
       /\ word \in Seq(STRING) /\ Len(word) < i
       /\ \A k \in 1 .. i - 1 :
            IF k <= n THEN argv[k].flag \in KnownFlags
            ELSE argv[k].flag = "none" /\ word[k - n] = argv[k].text
  /\ flags = {argv[k].flag : k \in 1 .. i - 1} \ {"none"}
  /\ excludeset = UNION {argv[k].items : k \in 1 .. i - 1}
  /\ read > 0 \/ place \notin {"parse", "exited"} =>
       i > Len(argv) /\ \E k \in 1 .. Len(word) : word[k] # "blank"
  /\ place \in {"parse", "read"} =>
       main = "construct" /\ \A w \in Workers : pc[w] = "unborn"
  /\ code = -1 => place = "exited" /\ read = 0 /\ main = "construct" /\ ~RightCall
=============================================================================
