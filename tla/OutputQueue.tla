----------------------------- MODULE OutputQueue -----------------------------
(***************************************************************************)
(* anagram::OutputQueue (include/output_queue.h, src/output_queue.cc): a   *)
(* ring of Size slots that the worker threads Push to and that one service *)
(* thread drains to the console every 2 ms.  The module composes the ring, *)
(* its service thread and its destructor with the lock of module Lock.     *)
(*                                                                         *)
(* Every access to shared memory is a step of its own, as g++ -O3 compiles *)
(* it: an index is loaded once, wrapped in a register and stored once.     *)
(* GetItemTot reads both indexes in one step: under the lock, and with one *)
(* push at a time, only one of them can change meanwhile. The copy of a    *)
(* text into its slot has a beginning and an end; a slot that is being     *)
(* written reads as Torn, and two copies into one slot at a time may leave *)
(* a mixture. Loops that only wait (the full check, the spin of the lock)  *)
(* have no step for an iteration that changes nothing. Push(nullptr) is    *)
(* left out: no caller passes a null pointer.                              *)
(*                                                                         *)
(* Serial describes the callers.  It is true of a job with one worker      *)
(* thread and of a gather phase that comes first, in which only thread 0   *)
(* pushes; it is not true of several worker threads that combine with -o.  *)
(***************************************************************************)
EXTENDS Naturals, Sequences, FiniteSets

CONSTANTS
  Producers,      \* the threads that push
  Service,        \* the service thread
  Size,           \* kOutputQueueSize
  Pushes,         \* bound: the number of texts each producer pushes
  Serial,         \* do the callers push one at a time?
  StartMayFail,   \* may pthread_create fail in StartThread?
  Torn,           \* what a slot reads as that is being written, or never was
  Mixed           \* what two copies into one slot at a time may leave there

ASSUME ConstantsAssumption ==
  /\ Service \notin Producers
  /\ Size \in Nat /\ Size >= 2
  /\ Pushes \in Nat
  /\ Serial \in BOOLEAN /\ StartMayFail \in BOOLEAN

VARIABLES
  slots,        \* queue_
  start,        \* queue_start_index_: where the next text goes
  end,          \* queue_end_index_: the oldest text
  lock_, at,    \* queue_lock_
  pc,           \* where each thread is
  reg,          \* the slot each producer copies to, then the index it loaded
  item,         \* the slot whose text Pop returned a pointer to
  terminate_,   \* the flag that ends the service thread
  owner,        \* RunJob, whose stack frame holds the queue
  sent,         \* how many texts each producer has pushed
  accepted,     \* history: the texts in the order their index was stored
  printed       \* history: the texts written to the console

lockVars == <<lock_, at>>
ring == <<slots, start, end, reg, item>>
vars == <<slots, start, end, lock_, at, pc, reg, item, terminate_, owner,
          sent, accepted, printed>>

Threads == Producers \union {Service}
Texts == Producers \X (1 .. Pushes)

L == INSTANCE Lock

Init ==
  /\ slots = [i \in 0 .. Size - 1 |-> Torn]
  /\ start = 0 /\ end = 0
  /\ L!Init
  /\ pc = [t \in Threads |-> IF t = Service THEN "none" ELSE "idle"]
  /\ reg = [p \in Producers |-> 0]
  /\ item = 0
  /\ terminate_ = FALSE
  /\ owner = "constructing"
  /\ sent = [p \in Producers |-> 0]
  /\ accepted = <<>> /\ printed = <<>>

-----------------------------------------------------------------------------
\* Mutant of NextIndex: the wrap comes one slot late.
NextIndexLate(i) == IF i + 1 > Size THEN 0 ELSE i + 1

NextIndex(i) == IF i + 1 >= Size THEN 0 ELSE i + 1

\* Mutant of GetItemTot: the size is not added when the indexes have wrapped.
GetItemTotUnwrapped == IF start >= end THEN start - end ELSE 0

\* The subtraction wraps in size_t and Size is added back.
GetItemTot == IF start >= end THEN start - end ELSE start - end + Size

Goto(t, label) == pc' = [pc EXCEPT ![t] = label]

TextOf(p) == <<p, sent[p] + 1>>

-----------------------------------------------------------------------------
\* The constructor ends with StartThread.  A failing pthread_create is only
\* logged: the queue is used all the same, with nobody to drain it.
StartThread ==
  /\ owner = "constructing"
  /\ owner' = "running"
  /\ \/ Goto(Service, "test")
     \/ StartMayFail /\ UNCHANGED pc
  /\ terminate_' = FALSE
  /\ UNCHANGED <<ring, lockVars, sent, accepted, printed>>

\* Mutant of CheckFull: a push does not look whether the ring is full.
CheckFullMissing(p) ==
  /\ owner = "running"
  /\ pc[p] = "idle" /\ sent[p] < Pushes
  /\ Serial => \A q \in Producers : pc[q] = "idle"
  /\ L!Call(p)
  /\ Goto(p, "copy")
  /\ UNCHANGED <<ring, terminate_, owner, sent, accepted, printed>>

\* Push is called, and its wait for a free slot ends.  The lock is asked for
\* afterwards.
CheckFull(p) ==
  /\ owner = "running"
  /\ pc[p] = "idle" /\ sent[p] < Pushes
  /\ Serial => \A q \in Producers : pc[q] = "idle"
  /\ GetItemTot # Size - 1
  /\ L!Call(p)
  /\ Goto(p, "copy")
  /\ UNCHANGED <<ring, terminate_, owner, sent, accepted, printed>>

\* The two steps of Lock::Acquire, in Push and in the service thread.
SeeFree(t) ==
  /\ L!SeeFree(t)
  /\ UNCHANGED <<ring, pc, terminate_, owner, sent, accepted, printed>>

TestAndSet(t) ==
  /\ L!TestAndSet(t)
  /\ UNCHANGED <<ring, pc, terminate_, owner, sent, accepted, printed>>

\* strncpy starts to write the slot at start.
BeginCopy(p) ==
  /\ pc[p] = "copy" /\ at[p] = "held"
  /\ reg' = [reg EXCEPT ![p] = start]
  /\ slots' = [slots EXCEPT ![start] = Torn]
  /\ Goto(p, "copying")
  /\ UNCHANGED <<start, end, item, lockVars, terminate_, owner, sent, accepted, printed>>

\* Another copy into the slot of p goes on, or has ended since that of p began.
Overlapped(p) ==
  \/ slots[reg[p]] # Torn
  \/ \E q \in Producers \ {p} : pc[q] = "copying" /\ reg[q] = reg[p]

\* strncpy ends.
EndCopy(p) ==
  /\ pc[p] = "copying"
  /\ \/ slots' = [slots EXCEPT ![reg[p]] = TextOf(p)]
     \/ Overlapped(p) /\ slots' = [slots EXCEPT ![reg[p]] = Mixed]
  /\ Goto(p, "load")
  /\ UNCHANGED <<start, end, reg, item, lockVars, terminate_, owner, sent, accepted, printed>>

LoadIndex(p) ==
  /\ pc[p] = "load"
  /\ reg' = [reg EXCEPT ![p] = start]
  /\ Goto(p, "store")
  /\ UNCHANGED <<slots, start, end, item, lockVars, terminate_, owner, sent, accepted, printed>>

\* The text is in the queue from here on.
StoreIndex(p) ==
  /\ pc[p] = "store"
  /\ start' = NextIndex(reg[p])
  /\ accepted' = Append(accepted, TextOf(p))
  /\ Goto(p, "unlock")
  /\ UNCHANGED <<slots, end, reg, item, lockVars, terminate_, owner, sent, printed>>

ReleasePush(p) ==
  /\ pc[p] = "unlock"
  /\ L!Release(p)
  /\ sent' = [sent EXCEPT ![p] = @ + 1]
  /\ Goto(p, "idle")
  /\ UNCHANGED <<ring, terminate_, owner, accepted, printed>>

-----------------------------------------------------------------------------
\* The service thread: while (!terminate_) ...
TestTerminate ==
  /\ pc[Service] = "test"
  /\ Goto(Service, IF terminate_ THEN "exited" ELSE "asleep")
  /\ UNCHANGED <<ring, lockVars, terminate_, owner, sent, accepted, printed>>

\* nanosleep ends and the lock is asked for.
Wake ==
  /\ pc[Service] = "asleep"
  /\ L!Call(Service)
  /\ Goto(Service, "drain")
  /\ UNCHANGED <<ring, terminate_, owner, sent, accepted, printed>>

\* Mutant of Pop: the address is computed after the index was bumped.
PopAfterBump ==
  /\ pc[Service] = "drain" /\ at[Service] = "held"
  /\ GetItemTot # 0
  /\ item' = NextIndex(end)
  /\ end' = NextIndex(end)
  /\ Goto(Service, "print")
  /\ UNCHANGED <<slots, start, reg, lockVars, terminate_, owner, sent, accepted, printed>>

\* Pop takes the oldest text: it returns a pointer into the ring.
Pop ==
  /\ pc[Service] = "drain" /\ at[Service] = "held"
  /\ GetItemTot # 0
  /\ item' = end
  /\ end' = NextIndex(end)
  /\ Goto(Service, "print")
  /\ UNCHANGED <<slots, start, reg, lockVars, terminate_, owner, sent, accepted, printed>>

\* std::cout << output_string reads the slot behind the pointer.
PrintItem ==
  /\ pc[Service] = "print"
  /\ printed' = Append(printed, slots[item])
  /\ Goto(Service, "drain")
  /\ UNCHANGED <<ring, lockVars, terminate_, owner, sent, accepted>>

\* Pop returns nullptr: the drain loop ends.
PopNothing ==
  /\ pc[Service] = "drain" /\ at[Service] = "held"
  /\ GetItemTot = 0
  /\ Goto(Service, "unlock")
  /\ UNCHANGED <<ring, lockVars, terminate_, owner, sent, accepted, printed>>

\* Mutant of ReleaseDrain: the service thread goes to sleep with the lock.
ReleaseDrainForgotten ==
  /\ pc[Service] = "unlock"
  /\ at' = [at EXCEPT ![Service] = "out"]
  /\ Goto(Service, "test")
  /\ UNCHANGED <<ring, lock_, terminate_, owner, sent, accepted, printed>>

ReleaseDrain ==
  /\ pc[Service] = "unlock"
  /\ L!Release(Service)
  /\ Goto(Service, "test")
  /\ UNCHANGED <<ring, terminate_, owner, sent, accepted, printed>>

-----------------------------------------------------------------------------
\* Mutant of Terminate: the service thread is not told to end.
TerminateUntold ==
  /\ owner = "running"
  /\ \A p \in Producers : pc[p] = "idle" /\ sent[p] = Pushes
  /\ owner' = "joining"
  /\ UNCHANGED <<ring, lockVars, pc, terminate_, sent, accepted, printed>>

\* The destructor, run once the worker threads have been joined.
Terminate ==
  /\ owner = "running"
  /\ \A p \in Producers : pc[p] = "idle" /\ sent[p] = Pushes
  /\ terminate_' = TRUE
  /\ owner' = "joining"
  /\ UNCHANGED <<ring, lockVars, pc, sent, accepted, printed>>

\* pthread_join of the service thread.  When it was never created the handle
\* is the zero of a static variable: the call may return or crash.
JoinService ==
  /\ owner = "joining"
  /\ \/ pc[Service] = "exited" /\ owner' = "gone"
     \/ pc[Service] = "none" /\ owner' \in {"gone", "crashed"}
  /\ UNCHANGED <<ring, lockVars, pc, terminate_, sent, accepted, printed>>

\* The program goes on without the queue.
Finished == owner \in {"gone", "crashed"} /\ UNCHANGED vars

Push(p) ==
  \/ CheckFull(p) \/ SeeFree(p) \/ TestAndSet(p) \/ BeginCopy(p) \/ EndCopy(p)
  \/ LoadIndex(p) \/ StoreIndex(p) \/ ReleasePush(p)

Worker ==
  \/ TestTerminate \/ Wake \/ SeeFree(Service) \/ TestAndSet(Service)
  \/ Pop \/ PrintItem \/ PopNothing \/ ReleaseDrain

Next ==
  \/ StartThread \/ Terminate \/ JoinService \/ Finished
  \/ Worker
  \/ \E p \in Producers : Push(p)

Spec == Init /\ [][Next]_vars

(***************************************************************************)
(* Every thread keeps running (weak fairness).  The service thread leaves  *)
(* the lock free for the 2 ms of each sleep, and a spinning thread yields  *)
(* and looks again all the time, so a thread that spins sees a free lock   *)
(* if the lock is free again and again (strong fairness of SeeFree).  The  *)
(* job may go on for ever: Terminate is not fair.                          *)
(***************************************************************************)
Fairness ==
  /\ WF_vars(StartThread) /\ WF_vars(JoinService)
  /\ WF_vars(Worker) /\ SF_vars(SeeFree(Service))
  /\ \A p \in Producers : WF_vars(Push(p)) /\ SF_vars(SeeFree(p))

FairSpec == Spec /\ Fairness

-----------------------------------------------------------------------------
PushPlaces == {"idle", "copy", "copying", "load", "store", "unlock"}

WorkerPlaces == {"none", "test", "asleep", "drain", "print", "unlock", "exited"}

\* Every index is one of the ring, in registers too, and every thread is at a
\* place of its code.
TypeOK ==
  /\ slots \in [0 .. Size - 1 -> Texts \union {Torn, Mixed}]
  /\ start \in 0 .. Size - 1 /\ end \in 0 .. Size - 1 /\ item \in 0 .. Size - 1
  /\ reg \in [Producers -> 0 .. Size - 1]
  /\ L!TypeOK
  /\ pc \in [Threads -> PushPlaces \union WorkerPlaces]
  /\ \A p \in Producers : pc[p] \in PushPlaces
  /\ pc[Service] \in WorkerPlaces
  /\ terminate_ \in BOOLEAN
  /\ owner \in {"constructing", "running", "joining", "gone", "crashed"}
  /\ owner = "constructing" => pc[Service] = "none"
  /\ sent \in [Producers -> 0 .. Pushes]
  /\ \A p \in Producers : pc[p] # "idle" => sent[p] < Pushes
  /\ accepted \in Seq(Texts) /\ printed \in Seq(Texts \union {Torn, Mixed})

\* The texts that were popped: those printed and the one in the printer's hand.
Popped == Len(printed) + (IF pc[Service] = "print" THEN 1 ELSE 0)

\* The slot of the j-th of the texts that wait.
SlotOf(j) == IF end + j < Size THEN end + j ELSE end + j - Size

\* The parts of the inductive invariant: only one push is under way, ...
OnePush == \A p, q \in Producers : pc[p] # "idle" /\ pc[q] # "idle" => p = q

\* ... the free slot it found stays free until it is used, and what it writes
\* there stays intact, ...
PushInv ==
  \A p \in Producers :
    /\ pc[p] \in {"copy", "copying", "load", "store"} => GetItemTot <= Size - 2
    /\ pc[p] \in {"copying", "store"} => reg[p] = start
    /\ pc[p] = "copying" => slots[start] = Torn
    /\ pc[p] \in {"load", "store"} => slots[start] = TextOf(p)

\* ... the texts between the indexes are those accepted and not yet popped, ...
RingInv ==
  /\ Len(accepted) = Popped + GetItemTot
  /\ \A j \in 0 .. Size - 1 :
       j < GetItemTot => slots[SlotOf(j)] = accepted[Popped + 1 + j]

\* ... and the printer's text is the oldest that is not printed.
PrintInv ==
  pc[Service] = "print" =>
    /\ NextIndex(item) = end
    /\ slots[item] = accepted[Popped]

\* "We will BLOCK if necessary until we can write to the queue"
\* (output_queue.cc:129-132): a push never overruns the texts that wait, which would
\* make the indexes equal and a full ring look empty.
NeverOverfilled == Len(accepted) - Popped <= Size - 1

\* "spitting them out to the output stream in order" (output_queue.cc:165):
\* what is printed is what was pushed, in that order, with nothing lost, doubled,
\* torn or overwritten between the pop of its slot and the write to the console.
PrintedInOrder ==
  /\ Len(printed) <= Len(accepted)
  /\ \A i \in 1 .. Len(printed) : printed[i] = accepted[i]

\* strncpy never writes the slot the service thread is printing from, though
\* Pop has given that slot back to the ring and the lock does not exclude.
CopyAwayFromPrint ==
  \A p \in Producers : pc[p] = "copying" /\ pc[Service] = "print" => reg[p] # item

\* The inductive invariant of serial callers.
SerialInv ==
  TypeOK /\ OnePush /\ PushInv /\ RingInv /\ PrintInv /\ PrintedInOrder

\* With serial callers the queue is a bounded FIFO of Size texts: Size - 1 that
\* wait and the one being printed.
Fifo == INSTANCE BoundedFifo WITH Capacity <- Size, put <- accepted, got <- printed
FifoSpec == Fifo!Spec

\* However many threads race into Push, the lock of the queue is never left set with
\* nobody inside who will clear it (anagram_lock.h:40-45, output_queue.cc:133-147,
\* 179-183): the race between the read and the store lets two in but shuts none out.
LockNeverOrphaned == L!NeverOrphaned

\* All texts get pushed, however the producers race: no push waits for ever for a
\* free slot or for the lock (output_queue.cc:130-133).
PushesReturn == \A p \in Producers : owner = "running" ~> sent[p] = Pushes

\* A text in the queue reaches the console unless the queue is shut down first
\* or has no service thread (output_queue.cc:172-184).
AcceptedGetsPrinted ==
  \A n \in 1 .. Pushes * Cardinality(Producers) :
    Len(accepted) >= n ~> (Len(printed) >= n \/ terminate_ \/ pc[Service] = "none")

\* The destructor returns: the service thread sees the flag and ends
\* (output_queue.cc:87-89).
ShutdownCompletes == owner = "joining" ~> owner = "gone"

\* The service thread "polls for any queue items, spitting them out"
\* (output_queue.cc:164-165): when the queue is gone, all of them are out.
NothingLeftBehind == owner = "gone" => Len(printed) = Len(accepted)
=============================================================================
