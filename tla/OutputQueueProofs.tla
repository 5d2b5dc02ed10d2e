-------------------------- MODULE OutputQueueProofs --------------------------
(***************************************************************************)
(* The output queue with serial callers, for every size of the ring, every *)
(* set of producers and any number of pushes: the invariant SerialInv, and *)
(* from it that the queue implements the bounded FIFO.                     *)
(***************************************************************************)
EXTENDS OutputQueue, TLAPS

\* The arithmetic of the ring: a store of the start index adds one text behind
\* those that wait (Push, output_queue.cc:143-145).
LEMMA StoreAdvances ==
  ASSUME NEW s \in 0 .. Size - 1, NEW e \in 0 .. Size - 1,
         start = s, end = e, GetItemTot <= Size - 2,
         start' = NextIndex(s), end' = e
  PROVE  /\ start' \in 0 .. Size - 1
         /\ GetItemTot' = GetItemTot + 1
         /\ SlotOf(GetItemTot) = s
         /\ \A j \in 0 .. Size - 1 : SlotOf(j)' = SlotOf(j)
  BY ConstantsAssumption DEF ConstantsAssumption, GetItemTot, NextIndex, SlotOf

\* A bump of the end index removes the oldest text (Pop, output_queue.cc:115-118).
LEMMA PopAdvances ==
  ASSUME NEW s \in 0 .. Size - 1, NEW e \in 0 .. Size - 1,
         start = s, end = e, GetItemTot # 0,
         start' = s, end' = NextIndex(e)
  PROVE  /\ end' \in 0 .. Size - 1
         /\ GetItemTot' = GetItemTot - 1
         /\ SlotOf(0) = e
         /\ \A j \in 0 .. Size - 2 : SlotOf(j)' = SlotOf(j + 1)
  BY ConstantsAssumption DEF ConstantsAssumption, GetItemTot, NextIndex, SlotOf

\* A slot that waits is not the one a push writes to, nor is the slot before
\* the end index when two or more are free.
LEMMA FreeSlots ==
  ASSUME TypeOK
  PROVE  /\ GetItemTot \in 0 .. Size - 1
         /\ \A j \in 0 .. Size - 1 : j < GetItemTot => SlotOf(j) \in 0 .. Size - 1 /\ SlotOf(j) # start
         /\ \A i \in 0 .. Size - 1 :
              NextIndex(i) = end /\ GetItemTot <= Size - 2 => i # start
  BY ConstantsAssumption DEF ConstantsAssumption, TypeOK, GetItemTot, NextIndex, SlotOf

\* The queue starts empty (OutputQueue::OutputQueue, output_queue.cc:42-52).
LEMMA InitSerialInv == Init => SerialInv
  <1> SUFFICES ASSUME Init
               PROVE  SerialInv
    OBVIOUS
  <1>1. TypeOK
    <2>1. slots \in [0 .. Size - 1 -> Texts \union {Torn, Mixed}]
      BY DEF Init
    <2>2. L!TypeOK
      BY DEF Init, L!Init, L!TypeOK
    <2>3. /\ pc \in [Threads -> PushPlaces \union WorkerPlaces]
          /\ \A p \in Producers : pc[p] \in PushPlaces
          /\ pc[Service] \in WorkerPlaces
      BY ConstantsAssumption
      DEF ConstantsAssumption, Init, Threads, PushPlaces, WorkerPlaces
    <2>4. 0 \in 0 .. Size - 1 /\ 0 \in 0 .. Pushes
      BY ConstantsAssumption DEF ConstantsAssumption
    <2>5. /\ start \in 0 .. Size - 1 /\ end \in 0 .. Size - 1 /\ item \in 0 .. Size - 1
          /\ reg \in [Producers -> 0 .. Size - 1]
          /\ terminate_ \in BOOLEAN
          /\ owner \in {"constructing", "running", "joining", "gone", "crashed"}
          /\ pc[Service] = "none"
          /\ sent \in [Producers -> 0 .. Pushes]
          /\ \A p \in Producers : pc[p] = "idle"
      BY <2>4, ConstantsAssumption DEF ConstantsAssumption, Init, Threads
    <2>6. accepted \in Seq(Texts) /\ printed \in Seq(Texts \union {Torn, Mixed})
      BY DEF Init
    <2> QED
      BY <2>1, <2>2, <2>3, <2>5, <2>6 DEF TypeOK
  <1>2. OnePush /\ PushInv /\ PrintInv /\ PrintedInOrder
    BY ConstantsAssumption
    DEF ConstantsAssumption, Init, OnePush, PushInv, PrintInv, PrintedInOrder, Threads
  <1>3. RingInv
    BY ConstantsAssumption
    DEF ConstantsAssumption, Init, RingInv, GetItemTot, Popped, Threads
  <1> QED
    BY <1>1, <1>2, <1>3 DEF SerialInv

\* The text of a push that is under way is one of its thread's.
LEMMA TextPushed ==
  ASSUME TypeOK, NEW p \in Producers, pc[p] # "idle"
  PROVE  TextOf(p) \in Texts
  <1>1. sent[p] \in 0 .. Pushes /\ sent[p] < Pushes
    BY DEF TypeOK
  <1>2. sent[p] + 1 \in 1 .. Pushes
    BY <1>1, ConstantsAssumption DEF ConstantsAssumption
  <1> QED
    BY <1>2 DEF TextOf, Texts

\* Every step keeps the types, whatever the callers do.
LEMMA StepType == TypeOK /\ [Next]_vars => TypeOK'
  <1> SUFFICES ASSUME TypeOK, [Next]_vars
               PROVE  TypeOK'
    OBVIOUS
  <1> USE ConstantsAssumption
      DEF ConstantsAssumption, TypeOK, PushPlaces, WorkerPlaces, Threads, ring, lockVars,
          Goto, L!TypeOK
  <1>1. CASE StartThread
    BY <1>1 DEF StartThread
  <1>2. CASE Terminate
    BY <1>2 DEF Terminate
  <1>3. CASE JoinService
    BY <1>3 DEF JoinService
  <1>4. ASSUME NEW t \in Threads, SeeFree(t)
        PROVE  TypeOK'
    BY <1>4 DEF SeeFree, L!SeeFree
  <1>5. ASSUME NEW t \in Threads, TestAndSet(t)
        PROVE  TypeOK'
    BY <1>5 DEF TestAndSet, L!TestAndSet
  <1>6. CASE TestTerminate
    BY <1>6 DEF TestTerminate
  <1>7. CASE Wake
    BY <1>7 DEF Wake, L!Call
  <1>8. CASE Pop
    BY <1>8 DEF Pop, NextIndex
  <1>9. CASE PrintItem
    BY <1>9 DEF PrintItem
  <1>10. CASE PopNothing
    BY <1>10 DEF PopNothing
  <1>11. CASE ReleaseDrain
    BY <1>11 DEF ReleaseDrain, L!Release
  <1>12. ASSUME NEW p \in Producers, CheckFull(p)
         PROVE  TypeOK'
    BY <1>12 DEF CheckFull, L!Call
  <1>13. ASSUME NEW p \in Producers, BeginCopy(p)
         PROVE  TypeOK'
    BY <1>13 DEF BeginCopy
  <1>14. ASSUME NEW p \in Producers, EndCopy(p)
         PROVE  TypeOK'
    <2>1. TextOf(p) \in Texts
      BY <1>14, TextPushed DEF EndCopy
    <2>2. slots' \in [0 .. Size - 1 -> Texts \union {Torn, Mixed}]
      BY <1>14, <2>1 DEF EndCopy
    <2> QED
      BY <1>14, <2>2 DEF EndCopy
  <1>15. ASSUME NEW p \in Producers, LoadIndex(p)
         PROVE  TypeOK'
    BY <1>15 DEF LoadIndex
  <1>16. ASSUME NEW p \in Producers, StoreIndex(p)
         PROVE  TypeOK'
    <2>1. TextOf(p) \in Texts
      BY <1>16, TextPushed DEF StoreIndex
    <2>2. accepted' \in Seq(Texts)
      BY <1>16, <2>1 DEF StoreIndex
    <2> QED
      BY <1>16, <2>2 DEF StoreIndex, NextIndex
  <1>17. ASSUME NEW p \in Producers, ReleasePush(p)
         PROVE  TypeOK'
    <2>1. sent' \in [Producers -> 0 .. Pushes]
      <3>1. sent[p] \in 0 .. Pushes /\ sent[p] < Pushes
        BY <1>17 DEF ReleasePush
      <3>2. sent[p] + 1 \in 0 .. Pushes
        BY <3>1
      <3> QED
        BY <1>17, <3>2 DEF ReleasePush
    <2>2. \A q \in Producers : pc'[q] # "idle" => sent'[q] < Pushes
      BY <1>17 DEF ReleasePush
    <2>3. L!TypeOK'
      BY <1>17 DEF ReleasePush, L!Release
    <2> QED
      BY <1>17, <2>1, <2>2, <2>3 DEF ReleasePush
  <1>18. CASE UNCHANGED vars
    BY <1>18 DEF vars
  <1> QED
    BY <1>1, <1>2, <1>3, <1>4, <1>5, <1>6, <1>7, <1>8, <1>9, <1>10, <1>11, <1>12, <1>13,
       <1>14, <1>15, <1>16, <1>17, <1>18
    DEF Next, Push, Worker, Finished

\* The parts of SerialInv besides the types.
Serialised == OnePush /\ PushInv /\ RingInv /\ PrintInv /\ PrintedInOrder

\* A step that moves no text and no index disturbs none of them.
LEMMA QuietStep ==
  ASSUME SerialInv,
         UNCHANGED <<ring, sent, accepted, printed>>,
         \A p \in Producers : pc'[p] = pc[p],
         pc'[Service] = "print" <=> pc[Service] = "print"
  PROVE  Serialised'
  BY DEF SerialInv, Serialised, OnePush, PushInv, RingInv, PrintInv, PrintedInOrder,
         ring, Popped, GetItemTot, SlotOf, TextOf

\* A write to the free slot at start touches no text that waits or is printed.
LEMMA WriteFreeSlot ==
  ASSUME SerialInv, GetItemTot <= Size - 2,
         NEW text, slots' = [slots EXCEPT ![start] = text],
         UNCHANGED <<start, end, item, accepted, printed>>,
         pc'[Service] = pc[Service]
  PROVE  RingInv' /\ PrintInv' /\ PrintedInOrder'
  <1>1. \A j \in 0 .. Size - 1 : j < GetItemTot => slots'[SlotOf(j)] = slots[SlotOf(j)]
    BY FreeSlots DEF SerialInv, TypeOK
  <1>2. GetItemTot' = GetItemTot /\ \A j \in 0 .. Size - 1 : SlotOf(j)' = SlotOf(j)
    BY DEF GetItemTot, SlotOf
  <1>3. Popped' = Popped
    BY DEF Popped
  <1>4. RingInv'
    BY <1>1, <1>2, <1>3 DEF SerialInv, RingInv
  <1>5. pc[Service] = "print" => slots'[item] = slots[item]
    BY FreeSlots DEF SerialInv, TypeOK, PrintInv
  <1>6. PrintInv'
    BY <1>3, <1>5 DEF SerialInv, PrintInv
  <1>7. PrintedInOrder'
    BY DEF SerialInv, PrintedInOrder
  <1> QED
    BY <1>4, <1>6, <1>7

\* The steps of a push (Push, output_queue.cc:127-148).
LEMMA PushStep ==
  ASSUME Serial, SerialInv, TypeOK', NEW p \in Producers, Push(p)
  PROVE  Serialised'
  <1> USE ConstantsAssumption DEF ConstantsAssumption, Goto, ring, lockVars
  <1>1. CASE CheckFull(p)
    <2>1. /\ pc[p] = "idle" /\ GetItemTot \in 0 .. Size - 2
          /\ \A q \in Producers : pc[q] = "idle"
          /\ pc' = [pc EXCEPT ![p] = "copy"]
          /\ UNCHANGED <<ring, sent, accepted, printed>>
      BY <1>1, FreeSlots DEF CheckFull, SerialInv
    <2>2. OnePush' /\ PushInv'
      BY <2>1 DEF SerialInv, TypeOK, OnePush, PushInv, GetItemTot, Threads, PushPlaces
    <2>3. pc'[Service] = pc[Service]
      BY <2>1
    <2>4. RingInv' /\ PrintInv' /\ PrintedInOrder'
      BY <2>1, <2>3
      DEF SerialInv, RingInv, PrintInv, PrintedInOrder, Popped, GetItemTot, SlotOf
    <2> QED
      BY <2>2, <2>4 DEF Serialised
  <1>2. CASE SeeFree(p)
    BY <1>2, QuietStep DEF SeeFree
  <1>3. CASE TestAndSet(p)
    BY <1>3, QuietStep DEF TestAndSet
  <1>4. CASE BeginCopy(p)
    <2>1. /\ pc[p] = "copy" /\ pc' = [pc EXCEPT ![p] = "copying"]
          /\ reg' = [reg EXCEPT ![p] = start]
          /\ slots' = [slots EXCEPT ![start] = Torn]
          /\ UNCHANGED <<start, end, item, sent, accepted, printed>>
      BY <1>4 DEF BeginCopy
    <2>2. GetItemTot <= Size - 2 /\ pc'[Service] = pc[Service]
      BY <2>1 DEF SerialInv, PushInv
    <2>3. RingInv' /\ PrintInv' /\ PrintedInOrder'
      BY <2>1, <2>2, WriteFreeSlot
    <2>4. OnePush' /\ PushInv'
      BY <2>1 DEF SerialInv, TypeOK, OnePush, PushInv, GetItemTot, Threads
    <2> QED
      BY <2>3, <2>4 DEF Serialised
  <1>5. CASE EndCopy(p)
    <2>1. /\ pc[p] = "copying" /\ pc' = [pc EXCEPT ![p] = "load"]
          /\ UNCHANGED <<start, end, reg, item, sent, accepted, printed>>
      BY <1>5 DEF EndCopy
    <2>2. GetItemTot <= Size - 2 /\ reg[p] = start /\ pc'[Service] = pc[Service]
      BY <2>1 DEF SerialInv, PushInv
    <2>3. \A q \in Producers : q # p => pc[q] = "idle"
      BY <2>1 DEF SerialInv, OnePush
    <2>4. slots' = [slots EXCEPT ![start] = TextOf(p)]
      <3>1. slots[start] = Torn
        BY <2>1 DEF SerialInv, PushInv
      <3>2. ~Overlapped(p)
        BY <2>2, <2>3, <3>1 DEF Overlapped
      <3> QED
        BY <1>5, <2>2, <3>2 DEF EndCopy
    <2>5. RingInv' /\ PrintInv' /\ PrintedInOrder'
      BY <2>1, <2>2, <2>4, WriteFreeSlot
    <2>6. OnePush' /\ PushInv'
      BY <2>1, <2>3, <2>4
      DEF SerialInv, TypeOK, OnePush, PushInv, GetItemTot, TextOf, Threads
    <2> QED
      BY <2>5, <2>6 DEF Serialised
  <1>6. CASE LoadIndex(p)
    <2>1. /\ pc[p] = "load" /\ pc' = [pc EXCEPT ![p] = "store"]
          /\ reg' = [reg EXCEPT ![p] = start]
          /\ UNCHANGED <<slots, start, end, item, sent, accepted, printed>>
      BY <1>6 DEF LoadIndex
    <2>2. OnePush' /\ PushInv'
      BY <2>1 DEF SerialInv, TypeOK, OnePush, PushInv, GetItemTot, TextOf, Threads
    <2>3. pc'[Service] = pc[Service]
      BY <2>1
    <2>4. RingInv' /\ PrintInv' /\ PrintedInOrder'
      BY <2>1, <2>3
      DEF SerialInv, RingInv, PrintInv, PrintedInOrder, Popped, GetItemTot, SlotOf
    <2> QED
      BY <2>2, <2>4 DEF Serialised
  <1>7. CASE StoreIndex(p)
    <2>1. /\ pc[p] = "store" /\ pc' = [pc EXCEPT ![p] = "unlock"]
          /\ start' = NextIndex(reg[p])
          /\ accepted' = Append(accepted, TextOf(p))
          /\ UNCHANGED <<slots, end, reg, item, sent, printed>>
      BY <1>7 DEF StoreIndex
    <2>2. /\ GetItemTot <= Size - 2 /\ reg[p] = start /\ slots[start] = TextOf(p)
          /\ pc'[Service] = pc[Service] /\ GetItemTot \in 0 .. Size - 1
      BY <2>1, FreeSlots DEF SerialInv, PushInv
    <2>3. \A q \in Producers : q # p => pc[q] = "idle"
      BY <2>1 DEF SerialInv, OnePush
    <2>4. /\ GetItemTot' = GetItemTot + 1
          /\ SlotOf(GetItemTot) = start
          /\ \A j \in 0 .. Size - 1 : SlotOf(j)' = SlotOf(j)
      BY <2>1, <2>2, StoreAdvances DEF SerialInv, TypeOK
    <2>5. OnePush' /\ PushInv'
      BY <2>1, <2>3 DEF SerialInv, TypeOK, OnePush, PushInv, Threads
    <2>6. /\ accepted \in Seq(Texts) /\ printed \in Seq(Texts \union {Torn, Mixed})
          /\ Len(accepted') = Len(accepted) + 1
          /\ \A i \in 1 .. Len(accepted) : accepted'[i] = accepted[i]
          /\ accepted'[Len(accepted) + 1] = TextOf(p)
      BY <2>1 DEF SerialInv, TypeOK
    <2>7. Popped' = Popped /\ Popped \in Nat /\ Len(accepted) = Popped + GetItemTot
      BY <2>1, <2>2, <2>6 DEF Popped, SerialInv, RingInv
    <2>8. RingInv'
      <3>1. Len(accepted') = Popped' + GetItemTot'
        BY <2>2, <2>4, <2>6, <2>7
      <3>2. ASSUME NEW j \in 0 .. Size - 1, j < GetItemTot
            PROVE  slots[SlotOf(j)] = accepted'[Popped + 1 + j]
        BY <3>2, <2>2, <2>6, <2>7 DEF SerialInv, RingInv
      <3>3. slots[SlotOf(GetItemTot)] = accepted'[Popped + 1 + GetItemTot]
        BY <2>2, <2>4, <2>6, <2>7
      <3>4. ASSUME NEW j \in 0 .. Size - 1, j < GetItemTot'
            PROVE  slots'[SlotOf(j)'] = accepted'[Popped' + 1 + j]
        BY <3>2, <3>3, <3>4, <2>1, <2>2, <2>4, <2>7
      <3> QED
        BY <3>1, <3>4 DEF RingInv
    <2>9. PrintInv'
      BY <2>1, <2>2, <2>6, <2>7 DEF SerialInv, PrintInv, NextIndex, Popped
    <2>10. PrintedInOrder'
      BY <2>1, <2>6 DEF SerialInv, PrintedInOrder
    <2> QED
      BY <2>5, <2>8, <2>9, <2>10 DEF Serialised
  <1>8. CASE ReleasePush(p)
    <2>1. /\ pc[p] = "unlock" /\ pc' = [pc EXCEPT ![p] = "idle"]
          /\ sent' = [sent EXCEPT ![p] = @ + 1]
          /\ UNCHANGED <<slots, start, end, reg, item, accepted, printed>>
      BY <1>8 DEF ReleasePush
    <2>2. OnePush' /\ PushInv'
      BY <2>1 DEF SerialInv, TypeOK, OnePush, PushInv, GetItemTot, TextOf, Threads
    <2>3. pc'[Service] = pc[Service]
      BY <2>1
    <2>4. RingInv' /\ PrintInv' /\ PrintedInOrder'
      BY <2>1, <2>3
      DEF SerialInv, RingInv, PrintInv, PrintedInOrder, Popped, GetItemTot, SlotOf
    <2> QED
      BY <2>2, <2>4 DEF Serialised
  <1> QED
    BY <1>1, <1>2, <1>3, <1>4, <1>5, <1>6, <1>7, <1>8 DEF Push

\* The steps of the service thread (Worker and Pop, output_queue.cc:111-187).
LEMMA WorkerStep ==
  ASSUME SerialInv, TypeOK', Worker
  PROVE  Serialised'
  <1> USE ConstantsAssumption DEF ConstantsAssumption, Goto, ring, lockVars
  <1>1. CASE TestTerminate
    BY <1>1, QuietStep DEF TestTerminate, SerialInv, TypeOK
  <1>2. CASE Wake
    BY <1>2, QuietStep DEF Wake, SerialInv, TypeOK
  <1>3. CASE SeeFree(Service)
    BY <1>3, QuietStep DEF SeeFree
  <1>4. CASE TestAndSet(Service)
    BY <1>4, QuietStep DEF TestAndSet
  <1>5. CASE Pop
    <2>1. /\ pc[Service] = "drain" /\ pc' = [pc EXCEPT ![Service] = "print"]
          /\ GetItemTot # 0 /\ item' = end /\ end' = NextIndex(end)
          /\ UNCHANGED <<slots, start, reg, sent, accepted, printed>>
      BY <1>5 DEF Pop
    <2>2. /\ GetItemTot' = GetItemTot - 1
          /\ SlotOf(0) = end
          /\ \A j \in 0 .. Size - 2 : SlotOf(j)' = SlotOf(j + 1)
          /\ GetItemTot \in 0 .. Size - 1
      BY <2>1, PopAdvances, FreeSlots DEF SerialInv, TypeOK
    <2>3. pc'[Service] = "print" /\ \A p \in Producers : pc'[p] = pc[p]
      BY <2>1 DEF SerialInv, TypeOK, Threads
    <2>4. Popped' = Popped + 1 /\ Popped = Len(printed) /\ Popped \in Nat
      BY <2>1, <2>3 DEF SerialInv, TypeOK, Popped
    <2>5. OnePush' /\ PushInv'
      BY <2>1, <2>2, <2>3 DEF SerialInv, OnePush, PushInv, TextOf
    <2>6. RingInv'
      <3>1. Len(accepted') = Popped' + GetItemTot'
        <4>1. Len(accepted) = Popped + GetItemTot
          BY DEF SerialInv, RingInv
        <4>2. GetItemTot \in Nat
          BY <2>2
        <4>3. Len(accepted') = Len(accepted)
          BY <2>1
        <4> QED
          BY ONLY <2>2, <2>4, <4>1, <4>2, <4>3
      <3>2. ASSUME NEW j \in 0 .. Size - 1, j < GetItemTot'
            PROVE  slots'[SlotOf(j)'] = accepted'[Popped' + 1 + j]
        <4>1. j \in 0 .. Size - 2 /\ j + 1 \in 0 .. Size - 1 /\ j + 1 < GetItemTot
          BY <3>2, <2>2
        <4>2. slots[SlotOf(j + 1)] = accepted[Popped + 1 + (j + 1)]
          BY <4>1 DEF SerialInv, RingInv
        <4> QED
          BY <4>1, <4>2, <2>1, <2>2, <2>4
      <3> QED
        BY <3>1, <3>2 DEF RingInv
    <2>7. PrintInv'
      <3>1. slots[SlotOf(0)] = accepted[Popped + 1 + 0]
        BY <2>1, <2>2 DEF SerialInv, RingInv
      <3>2. slots'[item'] = accepted'[Popped']
        BY <3>1, <2>1, <2>2, <2>4
      <3>3. NextIndex(item)' = end'
        BY <2>1 DEF NextIndex
      <3> QED
        BY <3>2, <3>3 DEF PrintInv
    <2>8. PrintedInOrder'
      BY <2>1 DEF SerialInv, PrintedInOrder
    <2> QED
      BY <2>5, <2>6, <2>7, <2>8 DEF Serialised
  <1>6. CASE PrintItem
    <2>1. /\ pc[Service] = "print" /\ pc' = [pc EXCEPT ![Service] = "drain"]
          /\ printed' = Append(printed, slots[item])
          /\ UNCHANGED <<slots, start, end, reg, item, sent, accepted>>
      BY <1>6 DEF PrintItem
    <2>2. pc'[Service] = "drain" /\ \A p \in Producers : pc'[p] = pc[p]
      BY <2>1 DEF SerialInv, TypeOK, Threads
    <2>3. /\ printed \in Seq(Texts \union {Torn, Mixed}) /\ slots[item] \in Texts \union {Torn, Mixed}
          /\ accepted \in Seq(Texts)
      BY DEF SerialInv, TypeOK
    <2>4. Popped' = Popped /\ Popped = Len(printed) + 1 /\ Len(printed') = Len(printed) + 1
      BY <2>1, <2>2, <2>3 DEF Popped
    <2>5. slots[item] = accepted[Popped] /\ Popped <= Len(accepted)
      BY <2>1, <2>3, <2>4, FreeSlots DEF SerialInv, PrintInv, RingInv
    <2>6. OnePush' /\ PushInv'
      BY <2>1, <2>2 DEF SerialInv, OnePush, PushInv, TextOf, GetItemTot
    <2>7. RingInv'
      BY <2>1, <2>4 DEF SerialInv, RingInv, GetItemTot, SlotOf
    <2>8. PrintInv'
      BY <2>2 DEF PrintInv
    <2>9. PrintedInOrder'
      BY <2>1, <2>3, <2>4, <2>5 DEF SerialInv, PrintedInOrder
    <2> QED
      BY <2>6, <2>7, <2>8, <2>9 DEF Serialised
  <1>7. CASE PopNothing
    BY <1>7, QuietStep DEF PopNothing, SerialInv, TypeOK
  <1>8. CASE ReleaseDrain
    BY <1>8, QuietStep DEF ReleaseDrain, SerialInv, TypeOK
  <1> QED
    BY <1>1, <1>2, <1>3, <1>4, <1>5, <1>6, <1>7, <1>8 DEF Worker

\* Every step of serial callers, of the service thread and of the owner keeps
\* the invariant of the ring.
LEMMA StepSerialInv ==
  ASSUME Serial, SerialInv, [Next]_vars
  PROVE  SerialInv'
  <1>1. TypeOK'
    BY StepType DEF SerialInv
  <1>2. Serialised'
    <2>1. CASE StartThread
      <3>1. /\ UNCHANGED <<ring, sent, accepted, printed>>
            /\ \A p \in Producers : pc'[p] = pc[p]
            /\ pc[Service] = "none" /\ pc'[Service] \in {"none", "test"}
        BY <2>1, ConstantsAssumption
        DEF StartThread, Goto, SerialInv, TypeOK, Threads, ConstantsAssumption
      <3> QED
        BY <3>1, QuietStep
    <2>2. CASE Terminate \/ JoinService
      BY <2>2, QuietStep DEF Terminate, JoinService
    <2>3. CASE Worker
      BY <1>1, <2>3, WorkerStep
    <2>4. ASSUME NEW p \in Producers, Push(p)
          PROVE  Serialised'
      BY <1>1, <2>4, PushStep
    <2>5. CASE UNCHANGED vars
      BY <2>5, QuietStep DEF vars, ring
    <2> QED
      BY <2>1, <2>2, <2>3, <2>4, <2>5 DEF Next, Finished
  <1> QED
    BY <1>1, <1>2 DEF SerialInv, Serialised

\* Every index stays within the ring, in registers too, whoever pushes and
\* however the threads interleave (output_queue.cc:111-161).
THEOREM QueueType == Spec => []TypeOK
  <1>1. Init => TypeOK
    BY InitSerialInv DEF SerialInv
  <1> QED
    BY <1>1, StepType, PTL DEF Spec

\* With one push at a time the invariant of the ring holds for ever: nothing
\* that waits is overwritten, lost or reordered, though the full check of Push
\* (output_queue.cc:130) runs before the lock is taken.
THEOREM SerialCorrect ==
  ASSUME Serial
  PROVE  Spec => []SerialInv
  <1>1. SerialInv /\ [Next]_vars => SerialInv'
    BY StepSerialInv
  <1> QED
    BY <1>1, InitSerialInv, PTL DEF Spec

\* A push never overruns the texts that wait (output_queue.cc:129-132): the full
\* check and the store of the index are far apart, and the check still holds.
THEOREM SerialNeverOverfilled ==
  ASSUME Serial
  PROVE  Spec => []NeverOverfilled
  <1>1. SerialInv => NeverOverfilled
    BY FreeSlots DEF SerialInv, RingInv, NeverOverfilled, Popped, TypeOK
  <1> QED
    BY <1>1, SerialCorrect, PTL

\* What is printed is what was pushed, in that order, untorn
\* (output_queue.cc:164-165), though the slot is read after Pop gave it back.
THEOREM SerialPrintedInOrder ==
  ASSUME Serial
  PROVE  Spec => []PrintedInOrder
  <1>1. SerialInv => PrintedInOrder
    BY DEF SerialInv
  <1> QED
    BY <1>1, SerialCorrect, PTL

\* strncpy (output_queue.cc:139) never writes the slot that is being printed,
\* though Pop gave it back before the print: one slot always stays unused.
THEOREM SerialCopyAwayFromPrint ==
  ASSUME Serial
  PROVE  Spec => []CopyAwayFromPrint
  <1>1. SerialInv => CopyAwayFromPrint
    BY FreeSlots DEF SerialInv, TypeOK, PushInv, PrintInv, CopyAwayFromPrint
  <1> QED
    BY <1>1, SerialCorrect, PTL

\* What reaches the console is what was pushed, in that order
\* (output_queue.cc:164-165), and never more than Size texts are under way: with
\* serial callers the ring and its two threads implement the bounded FIFO.
THEOREM SerialImplementsFifo ==
  ASSUME Serial
  PROVE  Spec => FifoSpec
  <1>1. Init => Fifo!Init
    BY DEF Init, Fifo!Init
  <1>2. SerialInv /\ [Next]_vars => [Fifo!Next]_(Fifo!vars)
    <2> SUFFICES ASSUME SerialInv, [Next]_vars
                 PROVE  [Fifo!Next]_(Fifo!vars)
      OBVIOUS
    <2>1. CASE PrintItem
      <3>1. Len(printed) < Len(accepted) /\ slots[item] = accepted[Len(printed) + 1]
        BY <2>1, FreeSlots DEF PrintItem, SerialInv, TypeOK, RingInv, PrintInv, Popped
      <3> QED
        BY <2>1, <3>1 DEF PrintItem, Fifo!Next, Fifo!Get
    <2>2. ASSUME NEW p \in Producers, StoreIndex(p)
          PROVE  [Fifo!Next]_(Fifo!vars)
      <3>1. GetItemTot \in 0 .. Size - 2
        BY <2>2, FreeSlots DEF StoreIndex, SerialInv, PushInv
      <3>2. Len(accepted) - Len(printed) < Size
        BY <3>1, ConstantsAssumption DEF ConstantsAssumption, SerialInv, TypeOK, RingInv, Popped
      <3>3. TextOf(p) \in Texts
        BY <2>2, TextPushed DEF StoreIndex, SerialInv
      <3> QED
        BY <2>2, <3>2, <3>3 DEF StoreIndex, Fifo!Next, Fifo!Put
    <2>3. CASE UNCHANGED <<accepted, printed>>
      BY <2>3 DEF Fifo!vars
    <2> QED
      BY <2>1, <2>2, <2>3
      DEF Next, StartThread, Terminate, JoinService, Finished, Worker, Push, TestTerminate,
          Wake, SeeFree, TestAndSet, Pop, PopNothing, ReleaseDrain, CheckFull, BeginCopy,
          EndCopy, LoadIndex, ReleasePush, vars
  <1> QED
    BY <1>1, <1>2, SerialCorrect, PTL DEF Spec, FifoSpec, Fifo!Spec

\* Every step of a producer or of the service thread is a step of the lock's or
\* leaves the lock alone.
LEMMA QueueStepsLock == [Next]_vars => [L!Next]_L!vars
  <1> SUFFICES ASSUME [Next]_vars
               PROVE  [L!Next]_L!vars
    OBVIOUS
  <1> USE DEF L!Next, L!vars, lockVars, Threads
  <1>1. CASE StartThread \/ Terminate \/ JoinService \/ Finished \/ UNCHANGED vars
    BY <1>1 DEF StartThread, Terminate, JoinService, Finished, vars
  <1>2. CASE Worker
    <2>1. CASE TestTerminate \/ Pop \/ PrintItem \/ PopNothing
      BY <2>1 DEF TestTerminate, Pop, PrintItem, PopNothing
    <2>2. CASE Wake \/ SeeFree(Service) \/ TestAndSet(Service) \/ ReleaseDrain
      BY <2>2 DEF Wake, SeeFree, TestAndSet, ReleaseDrain
    <2> QED
      BY <1>2, <2>1, <2>2 DEF Worker
  <1>3. ASSUME NEW p \in Producers, Push(p)
        PROVE  [L!Next]_L!vars
    <2>1. CASE BeginCopy(p) \/ EndCopy(p) \/ LoadIndex(p) \/ StoreIndex(p)
      BY <2>1 DEF BeginCopy, EndCopy, LoadIndex, StoreIndex
    <2>2. CASE CheckFull(p) \/ SeeFree(p) \/ TestAndSet(p) \/ ReleasePush(p)
      BY <2>2 DEF CheckFull, SeeFree, TestAndSet, ReleasePush
    <2> QED
      BY <1>3, <2>1, <2>2 DEF Push
  <1> QED
    BY <1>1, <1>2, <1>3 DEF Next

\* For any number of producers, and however they race, the lock of the queue is
\* never left set with nobody inside (output_queue.cc:133-147, 179-183).
THEOREM QueueLockNeverOrphaned == Spec => []LockNeverOrphaned
  <1>1. Init => LockNeverOrphaned
    BY DEF Init, L!Init, LockNeverOrphaned, L!NeverOrphaned
  <1>2. TypeOK /\ LockNeverOrphaned /\ [Next]_vars => LockNeverOrphaned'
    <2> SUFFICES ASSUME TypeOK, LockNeverOrphaned, [L!Next]_L!vars
                 PROVE  LockNeverOrphaned'
      BY QueueStepsLock
    <2> USE DEF TypeOK, L!TypeOK, LockNeverOrphaned, L!NeverOrphaned
    <2>1. CASE UNCHANGED L!vars
      BY <2>1 DEF L!vars
    <2>2. ASSUME NEW t \in Threads, L!Call(t)
          PROVE  LockNeverOrphaned'
      BY <2>2 DEF L!Call
    <2>3. ASSUME NEW t \in Threads, L!SeeFree(t)
          PROVE  LockNeverOrphaned'
      BY <2>3 DEF L!SeeFree
    <2>4. ASSUME NEW t \in Threads, L!TestAndSet(t)
          PROVE  LockNeverOrphaned'
      BY <2>4 DEF L!TestAndSet
    <2>5. ASSUME NEW t \in Threads, L!Release(t)
          PROVE  LockNeverOrphaned'
      BY <2>5 DEF L!Release
    <2> QED
      BY <2>1, <2>2, <2>3, <2>4, <2>5 DEF L!Next
  <1> QED
    BY <1>1, <1>2, QueueType, PTL DEF Spec
=============================================================================
