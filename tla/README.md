# Verification of anagram

TLA+ models of the program in this repository, checked with TLC on small
instances and, where stated, proved with TLAPS for every value of the constants.
`main.cc`, `output_queue.cc` and so on stand for `src/main.cc`,
`include/occupancy_hash.h` and their like in the repository.

## The system

The program reads a dictionary into a ternary search tree, gathers the words
that are made of letters of a given phrase, and combines them into complete
anagrams with one worker thread per core but one.

| Component | State | Operations | Works with |
|---|---|---|---|
| Lock (`anagram_lock.h`) | one word, `lock_` | Acquire, Release | the queue, `gather_lock`, `subset_lock`, `output_lock` |
| Output queue (`output_queue.*`) | a ring of 256 slots of 256 characters, two indexes, a service thread, `terminate_` | Push, Pop, the thread's drain, StartThread, TerminateThread | workers push, the service thread prints; lives in RunJob's frame |
| Job and workers (`main.cc` 507-629) | parameter blocks, thread handles, the subset map, `thread_total` | RunJob, Worker | creates and joins the workers, holds what they use |
| Occupancy hash (`occupancy_hash.h`) | signed char counts, the list of characters that occur | constructors, clear, GetCharCountMap, +=, Compare, IsSubset | local to a thread |
| Gather and combine (`main.cc` 206-503) | subset map, anagram map, per thread a stack of frames, hashes and iterators | GetAnagrams, PrintSubset, CombineSubsetsFast, CombineSubsetsRecurseFast | the hash, the tree, the locks, the queue |
| Ternary tree (`ternary_tree.*`, `templ_node.h`) | nodes with three links, a parent and a terminator; tie counters | Insert, Find, FuzzyFind, Extrapolate, CalcLevenshtein, the destructor | written by the reader, read only once the threads run |
| Dictionary reader (`main.cc` 60-134) | the file position | GetWordCount, ReadDictionaryFile | inserts into the tree, second half of the file first |
| Main program, signal handler (`main.cc` 632-834) | flags, phrase, excluded words, verbosity, the cursor | parsing, reading, RunJob, printing the map, Ctrl-C | starts and ends everything |
| Log, console helpers, build | | | only print, or are not part of the program |

What is hard here: a lock whose read and write are two steps and that guards
every shared structure; a queue that tests for a free slot outside its lock and
prints from a slot it has given back; a gather phase that comes first because of
a nap, if it is long enough; a fixed number of joins; a queue that waits for ever
when its thread was not created; a recursion whose frames share hash objects;
loops with early ends over a sparse index; counters that wrap; a tree whose
parents are set on the way back of a recursion and whose keys are unsigned for
one operation and signed for another; an interrupt at any time. `PROJECT.json`
lists every such hazard with its line and the properties about it.

What makes each component correct: the lock excludes (it does not) and never
stays set; the queue prints what was pushed, in order, without loss, and nobody
hangs; the gather precedes the combination (if the nap is long enough) and the
frame of RunJob outlives the workers (those that it joins); the hash counts and compares; the search finds exactly the anagrams,
each once, and ends; the tree holds the lines of the files, finds them and
spells them by letter; the program refuses wrong calls, prints the map when
nobody writes it any more, and gives the cursor back.

## Modules

| Module | Models | Correspondence |
|---|---|---|
| `Lock` | `Lock` | `lock_`; `at[t]` is the thread's place in Acquire. The read that ends the spin (SeeFree) and the store (TestAndSet) are two steps. Clients instantiate it. |
| `BoundedFifo` | what the queue promises | texts put in, texts got out, at most Capacity between |
| `OutputQueue` | `OutputQueue` with its thread and destructor, composed with `Lock` | `slots`, `start`, `end` are the ring; Push is CheckFull, SeeFree, TestAndSet, BeginCopy, EndCopy, LoadIndex, StoreIndex, ReleasePush. A slot under two copies reads as Torn, and may keep a mixture of them (Mixed). |
| `RunJob` | RunJob and Worker, composed with `Lock` for `gather_lock` | `main` and `pc[w]` are places in the code; `thread_tot` is any number up to `MaxThreadTot`; loads and stores of `thread_total` are separate. Undefined behaviour (use of what was freed or is being filled, a map under two insertions, a join of no thread) may crash, do nothing, or, as a join, hang; a gather or combination ends, or hangs in a push when the queue's thread is missing. |
| `OccupancyHash` | `OccupancyHash` | one step per loop iteration; a hash is its counts and its index |
| `CombineSubsets` | GetAnagrams and the recursion, composed with `Lock` for `subset_lock` | `frames[t]` is the call stack; `counts[t][d]` is the hash that the frame of depth d refers to; `i[t]` the iterator of CombineSubsetsFast |
| `Dictionary` | what the tree promises | a set of words; a letter is answered with the words that begin with it |
| `TernaryTree` | `TernaryTree`, `TNode`, `TemplNode` | `nodes` are numbered as they are allocated, 0 is the null pointer. Insert is Insert, then Alloc, Descend, SetTerminator down the recursion and SetParent on the way back; `pending` is its call stack. Find, FuzzyFind and the destructor only read the tree, or end it, and are functions of it. |
| `ReadDictionary` | ReadDictionaryFile and the life of the tree | Open, the two halves, CloseFile; then Lookup (the FuzzyFind of GetAnagrams) and Destroy |
| `MainProgram` | main and SigtermHandler, composed with `RunJob` | `place` is where main is; the steps of RunJob and its workers are steps here; SigtermHandler may come between any two |
| `MC...` | instances for TLC | constants only |
| `...Proofs` | theorems | extend the component's module |

Bodies named "Mutant of ..." are not part of the specifications: each is a
definition with a plausible bug, which the properties tell from the real one.

How the modules meet: `MainProgram` extends `RunJob`, and so takes its steps.
`TernaryTree` is extended by `ReadDictionary`, whose steps implement
`Dictionary`, and `CombineSubsets` takes the words with a given initial as
`Dictionary` promises them. Four things `CombineSubsets` takes for granted:

* Compare and IsSubset are what `OccupancyHash` shows them to be.
* The two objects built from the phrase hold its counts, although their
  constructor leaves them uninitialized (hash_from_word), and no letter occurs 128
  times.
* The other workers start when worker 0 has gathered. `RunJob` shows that they
  do if worker 0 has the lock when the nap ends, and job_nap that they need not.
* A push to the queue is one step that ends. `OutputQueue` shows that for serial
  callers; of several workers that push at a time some texts may be lost
  (queue_overrun). With -o, FindsAll and NothingTwice therefore speak of what is
  handed to Push, not of what appears.

## Runs

| Run | Instance | Shows |
|---|---|---|
| queue | 2 serial producers, 3 texts each, 3 slots, the service thread may be missing | NeverOverfilled, PrintedInOrder, CopyAwayFromPrint; the queue implements BoundedFifo (FifoSpec); AcceptedGetsPrinted: each of the 6 accepted texts is printed, or the queue is shut down, or its thread was never there |
| queue_race | 2 racing producers, 2 texts, 2 slots | LockNeverOrphaned (a set lock has somebody inside), PushesReturn and ShutdownCompletes in spite of the race |
| program | 1 to 3 workers and 2 joins; malloc and each pthread_create may fail, the queue's too; the nap ends at any time; argument lists of up to three; Ctrl-C at any time | GatherFirst: nobody combines before the gather if worker 0 has the lock when the nap ends; FrameOutlivesJoined and PrintsAfterWorkers: of the workers that are joined, unless a create failed; CrashHasCause: what is undefined crashes only for one of five causes, each open in the code; ParsedRight; CursorRestored; ProgramEnds: the program ends, or somebody waits for ever for a thread that was never created (WaitsForEver) |
| hash | 2 hashes, 3 characters, counts up to 2 | CountsRight, IndexFits, CompareRight and SubsetRight after every sequence of calls |
| combine | see below | FramesCounted; FindsAnagrams and FindsAll: only anagrams, all of them; NothingTwice; DepthInBounds; PrintsSubset; ThreadsEnd |
| tree | every file of up to 3 of 11 words, and pairs of a file of 5 or 7 lines and one of 2; 3 letters looked up; TieLimit 2 | ParentsRight, NodesOwned; ReadsEveryLine and FindsWords; DistanceRight; FreesAll; the tree implements Dictionary (DictionarySpec); ReaderEnds |

The run combine has one initial state for each of these calls: "ab ab" with 2
workers, -o, with and without -d and an excluded word, and all 64 dictionaries
of 6 words; "abba", which is a word itself, with 3 workers and three
dictionaries that contain it; "abba" with 1 worker and without -o, all 64
dictionaries; the same with 2 workers, who contend for the map, and one
dictionary; "ab ab" with -s, with 1 worker and all dictionaries and with 2
workers and two dictionaries; and a phrase of five letters, one too many for the two hashes of
this instance's candidate_count_arr, so that the overrun happens.

Violations, each a disagreement between the code and what it says of itself
(`findings` in `PROJECT.json` quotes the lines): lock_exclusion, queue_overrun,
queue_shutdown, job_many_cores, job_nap, hash_from_word. Three of them need a word:

* queue_shutdown: after its last sleep the service thread drains the ring once
  more before it tests `terminate_` (output_queue.cc:172-184), so what is pushed
  during that sleep is printed. Lost is a text that is stored after the last empty
  Pop and before the test, when the destructor sets `terminate_` in between, too.
  Each worker sleeps 10 ms between its last push and its end (main.cc:547), so this
  takes a service thread that does not run for that long.
* job_nap: worker 0 is not scheduled during the nap, another worker takes gather_lock
  first and combines a subset map that was not gathered, against main.cc:489-490.
* job_many_cores: with more workers than joins, as with nine cores or more, RunJob
  destroys the queue and the subset map while a worker that it does not join uses
  them, against main.cc:616.

More disagreements have no run of their own.

* RunJob joins seven handles however few workers there are, and reads behind the end
  of pthread_struct, which main.cc:577 allocates for thread_tot handles. The run
  program has this case (JoinWild), and CrashHasCause and WaitsForEver name it.
* Without -d a word may be repeated in an anagram, against main.cc:171-172: the new
  word is compared with the whole phrase so far (main.cc:261), which refuses only a
  repetition of the first word right behind it. FindsAll promises the phrases without
  a repetition for this reason, and FindsAnagrams admits the others.
* The run hash with Short = FALSE instead of TRUE: a count wraps past the largest
  signed char and Compare answers wrongly, against occupancy_hash.h:110
  (CountsRight, CompareRight).
* Compare never answers -2, which occupancy_hash.h:113 promises: there is no such
  answer in EndCompare and BackStep. Its callers test for 0 and for less only.
* Dictionary promises all the words of a letter only where no more than TieLimit
  (4096, ternary_tree.cc:296) of one length begin with it. The default dictionary
  has at most 1617. With -b there are up to 5981 (nine letters, s), and words are
  lost to the search without a message.
* Find takes bytes above 127 for negative, Insert takes them for positive, so that
  71 lines of the default dictionary are in the tree but Find denies them
  (FindsWords makes this exception). Extrapolate spells them all the same; a
  lookup by such a letter finds nothing.

thread_total is modelled with its unlocked loads and stores, and may end above
or below zero; nothing reads it, so no property is about it.

Bounds. A ring of three slots wraps, fills and empties within the three texts of
a producer; two slots make every push wait. Up to three workers and two joins are
the three cases there are: fewer workers than joins, as many, and more. Three give
one that gathers, one that is joined later than another and one that is not
joined; one worker makes the second join one of a handle that is not there. The hash
needs two objects for every operation; three characters give indexes in every order and of every relative length, and a largest count of
2 lets counts differ within the same characters. Four letters make a recursion
of depth two with siblings and returns at every depth; the six words contain
prefixes, permutations, one-letter words that repeat and a complete anagram; the
dictionary is any subset, so the shares of the threads have every size; with
three workers some start at the end of the map. Rows of two words (`ColCount`)
make subsets that fill no row, one, and several exactly. The words of the tree
branch to every side at the first and at later letters, share prefixes, differ
in case only, and have a byte above 127 in front and behind; three lines in
every order give every shape of tree with three words, and an odd and an even
count with and without a last newline; TieLimit is 2 so that ties run out. The
argument lists have each kind of flag, an unknown one, blank and other parts,
in all lists of one, and some of two and three.
`Frequency` is 2 so that the progress counter is reset.

Deadlock is checked except in queue, where a queue without service thread really
may stop: a push waits for ever.

Fairness. Threads are running pthreads: weak fairness of each thread's next step.
In `OutputQueue` the step that sees the lock free is strongly fair: the service
thread leaves the lock free for the 2 ms of each sleep and a spinning thread
yields and reads again all the time. In `MainProgram` each worker takes the lock once
and in `CombineSubsets` the number of insertions is finite, so weak fairness is
enough. In `MainProgram` a crash need not happen: InsertRace is not fair, and the
other crashes are one way among others for the thread to go on. Terminate is not fair: a job may last as long as it likes, and
SigtermHandler is not, as nobody has to hit Ctrl-C. In `ReadDictionary` there
is one thread; the letters are looked up in rising order, so that they run out.

## Proofs

* `LockProofs`: LockType; LockNeverOrphaned, from the type invariant: the store
  of 1 is made by a thread that is inside from then on, and any Release clears.
  QueueLockNeverOrphaned carries it over to the queue, whose steps are steps of
  the lock or leave it alone, whatever the callers' race does.
* `OutputQueueProofs`: QueueType for any callers. For serial callers SerialInv is
  inductive: one push at a time (OnePush); the free slot it saw stays free and
  its copy stays intact (PushInv); the slots between the indexes hold the
  accepted texts that were not popped (RingInv); the printer's slot is the one
  before the end index and still holds its text (PrintInv). It is needed because
  the three properties follow only from where every text is, not from the
  indexes alone. From it: SerialNeverOverfilled, SerialPrintedInOrder,
  SerialCopyAwayFromPrint, and SerialImplementsFifo: StoreIndex maps to Put,
  PrintItem to Get, everything else to a stutter. The assumption Serial is true
  of one worker and of the gather; queue_overrun shows that it is needed.
* `RunJobProofs`, for any number of workers and of joins, without further
  assumptions: JobType whatever fails; JobGathersFirst (GatherInv: unless worker 0
  was late it has the lock or has gathered before any other worker exists, and
  while it gathers the word stays set); JobFrameOutlivesJoined (FrameInv: those
  joined are done, and whoever is past the joins has joined as many as there are
  joins). That worker 0 may be late, that there may be more workers than joins, and
  that a create may fail is in the properties, where the reader sees it.
* `MainProgramProofs`: ProgramRunsJob, that every behaviour of the program is one
  of RunJob; so ProgramGathersFirst. ProgramRestoresCursor (CursorInv: the cursor
  is hidden only between parsing and the end). ProgramPrintsAfterWorkers (FrameInv
  and OrderInv: main's places with what they take for granted). ProgramCrashHasCause:
  each step that may crash, with what GatherFirst and FrameOutlivesJoined say of the
  state it starts in (MainCrash, WorkerCrash); so with as many workers as joins, -o,
  all threads created and worker 0 in time, no order of the threads' steps crashes
  the program. ProgramParsesRight, for lists of any length:
  ParseInv says how the arguments taken so far divide into flags and parts, which
  is why a flag behind a part (UsageWrong) makes the whole list wrong, whatever
  follows. ProgramTypeOK from OrderInv. Assumed of an argument: its type, and that a
  part has no items to exclude (ArgListsAssumption).
* `OccupancyHashProofs`: HashInvariant, with Sparse (the index lists the
  characters that have a count, once each), CountInv (how far a sum has got) and
  LoopInv (what the loops have found out about the characters they have passed);
  from it HashType, HashCountsRight, HashCompareRight, HashSubsetRight and HashIndexFits
  (so the 40 entries suffice for 40 different characters). The early answers
  of Compare from the lengths of the indexes rest on the pigeonhole principle
  (NoLonger). Assumed: no character more than 127 times, and no object built
  with the constructor that leaves its members uninitialized.

* `ReadDictionaryProofs`, for any files: ReaderKeepsTree (TreeInv and the reader's
  part, ReaderInv), and from it ReaderTypeOK, ReaderParentsRight and
  ReaderNodesOwned. TreeInv is TreeTypeOK, NodesOwned (a child is younger than the
  node it hangs from and hangs from one link only), ParentsRight, PathInv (the
  waiting calls of Insert have gone down a path) and NewInv: a node on that path
  whose parent is not set yet is new, has no siblings, and the path goes on to
  its center. NewInv is what makes the order of ternary_tree.cc:88-89 right: a
  sibling copies the parent of the node it hangs from, so that parent must be
  set, or be the one that is about to be set for both, by then.
  The recursions over the tree (FindFrom, SpeltBelow, Deletion) have a value because
  children are younger than their node: FoldExists builds it from the youngest node
  on. What they compute is told by TreeInduction, which stands for induction: else
  there would be a youngest node that is the exception. ReaderFreesAll comes from
  FreedInv (every node but the root hangs from a link, HungInv, and from one only,
  so that what is deleted on different sides has no node in common: DeletedApart).
  ReaderReadsEveryLine and ReaderFindsWords come from ReaderKeepsWords: WordsInv
  says that the words spelt in the tree are those of the lines read so far, plus the
  one that is being inserted; SortedInv that a word is on the side of a node where
  its letter belongs; and Gone that the calls of Insert have gone the way that the
  word's letters tell. So the terminator adds that word to the tree and nothing else
  (TerminatorSpelt), and Find, which goes the same way, comes to it (FindRight); a
  byte above 127 takes it to the left each time and so to nowhere. FindsWords is
  needed for ReadsEveryLine too: a line of the second half is not inserted when
  Find has found it. ReaderDistanceRight needs of the tree only that it spells
  sequences: CalcIsDistance shows, for any two, that the column after each letter of
  s2 is the next column of the table of distances (OverwrittenValue, ColumnsValue),
  although the inner loop overwrites the cells that it reads. Assumed: the words are bytes of 1 to 254, and not empty
  (TreeAssumption).
* `CombineSubsetsProofs`, for any dictionary, phrase, flags and number of threads:
  SearchKeepsStack (SearchInv: each frame's hash is the count of its word, its
  word is sorted, made of partial words, and its caller's word with one more),
  from it SearchFramesCounted and SearchFindsAnagrams. The sum of two hashes is
  the count of the longer phrase by CountAppend, a fact about cardinalities.
  SearchDepthInBounds, from the same invariant: a frame of depth d has d + 1 words,
  and a phrase that leaves letters over has fewer words than the master has
  letters (FewerWordsThanLetters, by an injection of the words' first letters).
  Threads share nothing of this but the subset map, which only grows.
* `SearchOrderProofs`, for any dictionary, phrase, flags and number of threads:
  SearchOrdered (OrderedInv), from it SearchNothingTwice and SearchFindsAll. The
  two properties speak of the end result only; what makes them inductive is the
  order in which a thread goes through the phrases, that of a dictionary: Before.
  Point is where a thread is. Nothing that was found lies ahead of its thread's
  Point (OnceInv), and nothing wanted before it is missing (AllInv). The step from
  one Point to the next is a lemma for each way the code goes on: deeper where the
  sum of the counts is a subset, along a row where it is not, back to the caller
  when the iterator is at the end. Shares are disjoint because a word is in the
  share that its rank among the partial words, modulo the number of workers, tells
  (InShare); GatheredInv says that the partial words are complete before a worker
  counts its way to the first, and that no initial is looked up twice. AllInv is
  claimed with -o or one worker only: two workers may lose a phrase in the map.
  SearchTypeOK from the same invariant. SearchPrintsSubset from RowsInv: the
  rows so far, with the one being filled, are sorted and full but for the last,
  and whatever is not in them lies behind. Least and greatest members of sets of
  numbers (WFMin) stand in for induction.

Only model-checked: liveness (the prover does not do fairness and ENABLED);
DictionarySpec, which speaks of what FuzzyFind gathers; and the runs that show
violations.

The inductive invariants were model-checked before they were proved; OrderedInv and
RowsInv on fewer calls than combine has, as they are slow to evaluate, and those of
the tree on the states of the run tree, to which they would add minutes.

## Not modelled

* Of the tree: the clamp by distance, which main turns off, and the shortening of
  the word that FuzzyFind does when Find has come to no node, as GetAnagrams only
  looks up single letters. Empty lines, which would make Insert read behind the
  end of a text, and the byte 255, which as a char is EOF to tolower: neither
  occurs in the dictionaries.
* Of main: the characters of the arguments. The hardware's number of cores is any
  that gives at least one worker, up to a bound, and an interrupt is one step. Of the
  signal handler: that what it calls is not
  async-signal-safe.
* Of the search: what `RunJob` shows to be possible without the gather in front (an
  unfinished subset map) or in two insertions at a time (a broken map), but for
  the loss of a phrase. The text of progress lines and the lock around them.
* Of the queue: the length of texts. A text of 256 characters or more has no
  terminator in its slot; what is printed then depends on the next slot and is
  undefined at the last one.
* Of the hash: AddChar and GetCharCount, which nothing calls, and characters above
  127, which index memory in front of the array.
* The log (a level that is set before the threads start), PrintAnagram and
  CleanString, which nothing calls, the usage text, the build.

## Plan

1. The text of an item: strncpy of 256 characters without terminator, with the
   undefined end as a choice.
2. Proofs: that the tree implements Dictionary (DictionarySpec), step by step.
3. A composition of `RunJob` with the search at the level of shares, refined by
   `CombineSubsets`.
