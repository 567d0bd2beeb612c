--------------------------- MODULE LogStreamProofs ---------------------------
(***************************************************************************)
(* Proofs about UartDma, for every ring size, chunk limit and set of frames, *)
(* and about LogStream: what the fixed priorities of the tasks guarantee a   *)
(* dump and what the driver guarantees both tasks, for every ring, queue     *)
(* length, frame and dump.                                                 *)
(***************************************************************************)
EXTENDS LogStream, TLAPS, SequenceTheorems, WellFoundedInduction

-----------------------------------------------------------------------------
(* The driver.                                                             *)

\* Type correctness and the chunk invariant are inductive together: the channel
\* stays within the buffer because the chunk does.
RingInv == TypeOK /\ ChunkInFlight

LEMMA RingInit == Init => RingInv
<1> SUFFICES ASSUME Init PROVE RingInv
  OBVIOUS
<1>1. 0 \in Slots /\ 0 \in 0 .. TxSize
  BY RingAssumption DEF Slots
<1>2. TypeOK
  BY <1>1 DEF Init, TypeOK
<1>3. ChunkInFlight
  BY DEF Init, ChunkInFlight
<1> QED
  BY <1>2, <1>3 DEF RingInv

\* What StartTxDma does to a channel that is idle.
LEMMA ChunkFacts ==
  ASSUME NEW head \in Slots, NEW tail \in Slots, head # tail
  PROVE  /\ Chunk(head, tail) \in 1 .. RingDist(tail, head)
         /\ tail + Chunk(head, tail) <= TxSize
         /\ Chunk(head, tail) \in 0 .. TxSize
  BY RingAssumption DEF Chunk, UpTo, RingDist, Slots

\* Accepting n bytes when n fit moves the head n slots on and not past the tail.
LEMMA HeadFacts ==
  ASSUME NEW head \in Slots, NEW tail \in Slots, NEW n \in Nat,
         n <= TxSize - 1 - RingDist(tail, head)
  PROVE  /\ Wrap(head + n) \in Slots
         /\ RingDist(tail, Wrap(head + n)) = RingDist(tail, head) + n
         /\ n > 0 => Wrap(head + n) # tail
  BY RingAssumption DEF Wrap, RingDist, Slots

\* write_byte's own test for a full ring is the test for one free slot.
LEMMA ByteRoom ==
  ASSUME NEW head \in Slots, NEW tail \in Slots, Wrap(head + 1) # tail
  PROVE  1 <= TxSize - 1 - RingDist(tail, head)
  BY RingAssumption DEF Wrap, RingDist, Slots

LEMMA AcceptKeeps ==
  ASSUME RingInv, NEW bytes \in Seq(Bytes), Len(bytes) > 0, Len(bytes) <= FreeSpace,
         Accept(bytes)
  PROVE  RingInv'
<1>1. Len(bytes) \in Nat /\ bytes \in [1 .. Len(bytes) -> Bytes]
  OBVIOUS
<1>2. tx_buf' \in [Slots -> Bytes \cup {NoByte}]
  BY <1>1, RingAssumption DEF RingInv, TypeOK, Accept, Pushed, RingDist, Slots
<1>3. /\ tx_head' \in Slots /\ tx_head' # tx_tail
      /\ RingDist(tx_tail, tx_head') = RingDist(tx_tail, tx_head) + Len(bytes)
  BY <1>1, HeadFacts DEF RingInv, TypeOK, Accept, FreeSpace
<1>4. CASE running
  <2>1. UNCHANGED <<running, active, dma>>
    BY <1>4 DEF Accept, StartTxDma
  <2> QED
    BY <1>1, <1>2, <1>3, <1>4, <2>1, RingAssumption
    DEF RingInv, TypeOK, ChunkInFlight, Accept, Slots, RingDist
<1>5. CASE ~ running
  <2>1. /\ running' = TRUE /\ active' = Chunk(tx_head', tx_tail)
        /\ dma' = [pos |-> tx_tail, left |-> Chunk(tx_head', tx_tail)]
    BY <1>3, <1>5 DEF Accept, StartTxDma
  <2>2. /\ active' \in 1 .. RingDist(tx_tail, tx_head')
        /\ tx_tail + active' <= TxSize /\ active' \in 0 .. TxSize
    BY <1>3, <2>1, ChunkFacts DEF RingInv, TypeOK
  <2>3. TypeOK'
    BY <1>2, <1>3, <2>1, <2>2, RingAssumption DEF RingInv, TypeOK, Accept, Slots
  <2>4. dma'.pos = tx_tail /\ dma'.left = active' /\ tx_tail' = tx_tail
    BY <2>1 DEF Accept
  <2>5. irq' = irq /\ isr' = isr /\ ~ irq /\ ~ isr
    BY <1>5 DEF RingInv, ChunkInFlight, Accept, TypeOK
  <2>6. ChunkInFlight'
    BY <2>1, <2>2, <2>3, <2>4, <2>5, RingAssumption DEF RingInv, TypeOK, ChunkInFlight, RingDist, Slots
  <2> QED
    BY <2>3, <2>6 DEF RingInv
<1> QED
  BY <1>4, <1>5 DEF RingInv, TypeOK

LEMMA RingStep == RingInv /\ [Next]_vars => RingInv'
<1> SUFFICES ASSUME RingInv, [Next]_vars PROVE RingInv'
  OBVIOUS
<1>1. ASSUME NEW frame \in Frames, WriteFrame(frame) PROVE RingInv'
  <2>1. frame \in Seq(Bytes) /\ Len(frame) > 0
    BY BytesAssumption
  <2>2. CASE Len(frame) <= FreeSpace /\ Accept(frame)
    BY <2>1, <2>2, AcceptKeeps
  <2>3. CASE masked' = TRUE /\ UNCHANGED <<ring, irq, isr, wire>>
    BY <2>3 DEF RingInv, TypeOK, ChunkInFlight, ring
  <2> QED
    BY <1>1, <2>2, <2>3 DEF WriteFrame
<1>2. ASSUME NEW b \in Bytes, WriteByte(b) PROVE RingInv'
  <2>1. <<b>> \in Seq(Bytes) /\ Len(<<b>>) = 1
    OBVIOUS
  <2>2. 1 <= FreeSpace
    BY <1>2, ByteRoom DEF WriteByte, FreeSpace, RingInv, TypeOK
  <2>3. Accept(<<b>>)
    BY <1>2 DEF WriteByte
  <2>4. Len(<<b>>) > 0 /\ Len(<<b>>) <= FreeSpace
    BY <2>1, <2>2
  <2> QED
    BY <2>1, <2>3, <2>4, AcceptKeeps
<1>3. CASE IncrementDropCount
  BY <1>3 DEF IncrementDropCount, RingInv, TypeOK, ChunkInFlight, ring
<1>4. CASE DmaTransfer
  <2>1. /\ running
        /\ dma.pos \in Slots /\ dma.left \in 1 .. TxSize
        /\ dma'.pos = dma.pos + 1 /\ dma'.left = dma.left - 1
    BY <1>4, RingAssumption DEF DmaTransfer, RingInv, TypeOK, ChunkInFlight, Slots
  <2>2. wire' \in Bytes \cup {NoByte}
    BY <1>4, <2>1 DEF DmaTransfer, RingInv, TypeOK
  <2>3. ~ irq /\ ~ isr /\ ~ isr' /\ irq' = (dma.left = 1)
    BY <1>4, <2>1 DEF DmaTransfer, RingInv, TypeOK, ChunkInFlight
  <2>4. TypeOK'
    BY <1>4, <2>1, <2>2, <2>3, RingAssumption DEF DmaTransfer, RingInv, TypeOK, Slots
  <2>5. UNCHANGED <<tx_head, tx_tail, running, active>>
    BY <1>4 DEF DmaTransfer
  <2>6. dma'.left = 0 <=> dma.left = 1
    BY <2>1
  <2>7. (irq' \/ isr') <=> (running' /\ dma'.left = 0)
    BY <2>1, <2>3, <2>5, <2>6
  <2>8. ChunkInFlight'
    BY <2>1, <2>3, <2>5, <2>7 DEF RingInv, TypeOK, ChunkInFlight, Slots, RingDist
  <2> QED
    BY <2>4, <2>8 DEF RingInv
<1>5. CASE IrqEnter
  BY <1>5 DEF IrqEnter, RingInv, TypeOK, ChunkInFlight, ring
<1>6. CASE IrqHandle
  <2> DEFINE tail == Wrap(tx_tail + active)
  <2>1. /\ running /\ dma.left = 0 /\ ~ irq /\ ~ irq' /\ ~ isr'
        /\ tx_tail' = tail /\ tx_head' = tx_head
    BY <1>6 DEF IrqHandle, RingInv, ChunkInFlight
  <2>2. tail \in Slots
    BY <2>1, RingAssumption DEF RingInv, TypeOK, ChunkInFlight, Wrap, Slots
  <2>3. CASE tail = tx_head
    <3>1. running' = FALSE /\ active' = 0 /\ dma' = dma
      BY <1>6, <2>1, <2>3 DEF IrqHandle, StartTxDma
    <3> QED
      BY <1>6, <2>1, <2>2, <2>3, <3>1, RingAssumption
      DEF IrqHandle, RingInv, TypeOK, ChunkInFlight, Slots
  <2>4. CASE tail # tx_head
    <3>1. /\ running' = TRUE /\ active' = Chunk(tx_head, tail)
          /\ dma' = [pos |-> tail, left |-> Chunk(tx_head, tail)]
      BY <1>6, <2>1, <2>4 DEF IrqHandle, StartTxDma
    <3>2. /\ active' \in 1 .. RingDist(tail, tx_head)
          /\ tail + active' <= TxSize /\ active' \in 0 .. TxSize
      BY <2>2, <2>4, <3>1, ChunkFacts DEF RingInv, TypeOK
    <3>3. dma'.pos = tail /\ dma'.left = active'
      BY <3>1
    <3>4. TypeOK'
      <4>1. dma' \in [pos : 0 .. TxSize, left : 0 .. TxSize]
        BY <2>2, <3>1, <3>2, RingAssumption DEF Slots
      <4> QED
        BY <1>6, <2>1, <2>2, <3>1, <3>2, <4>1 DEF IrqHandle, RingInv, TypeOK
    <3>5. ChunkInFlight'
      BY <2>1, <2>2, <3>1, <3>2, <3>3, <3>4, RingAssumption
      DEF TypeOK, ChunkInFlight, Slots, RingDist
    <3> QED
      BY <3>4, <3>5 DEF RingInv
  <2> QED
    BY <2>3, <2>4
<1>7. CASE UNCHANGED vars
  BY <1>7 DEF RingInv, TypeOK, ChunkInFlight, vars, ring
<1> QED
  BY <1>1, <1>2, <1>3, <1>4, <1>5, <1>6, <1>7 DEF Next

\* For every ring size: every index stays a slot of the ring, and what is sent next
\* is a byte of the ring, at every step of tasks, channel and handler.
THEOREM RingIsTyped == Spec => []TypeOK
<1>1. RingInv => TypeOK
  BY DEF RingInv
<1> QED
  BY RingInit, RingStep, <1>1, PTL DEF Spec

\* For every ring size: the DMA channel never reads outside the bytes accepted
\* and the buffer, and exactly one completion is outstanding when it has stopped
\* at the end of a chunk, none otherwise.
THEOREM ChunkStaysInRing == Spec => []ChunkInFlight
<1>1. RingInv => ChunkInFlight
  BY DEF RingInv
<1> QED
  BY RingInit, RingStep, <1>1, PTL DEF Spec

-----------------------------------------------------------------------------
(* The driver implements the FIFO of bytes.                                 *)

Cell == Bytes \cup {NoByte}
Waiting == RingDist(tx_tail, tx_head) - Sent
At(i) == tx_buf[Wrap(tx_tail + Sent + i - 1)]

QueuedIsSeq ==
    /\ Sent \in Nat /\ Waiting \in Nat /\ Sent + Waiting = RingDist(tx_tail, tx_head)
    /\ RingDist(tx_tail, tx_head) \in 0 .. TxSize - 1
    /\ \A i \in 1 .. Waiting : Wrap(tx_tail + Sent + i - 1) \in Slots
    /\ Queued \in Seq(Cell) /\ Len(Queued) = Waiting
    /\ \A i \in 1 .. Waiting : Queued[i] = At(i)

LEMMA QueuedFacts == RingInv => QueuedIsSeq
<1> SUFFICES ASSUME RingInv PROVE QueuedIsSeq
  OBVIOUS
<1>1. /\ Sent \in Nat /\ Waiting \in Nat /\ Sent + Waiting = RingDist(tx_tail, tx_head)
      /\ RingDist(tx_tail, tx_head) \in 0 .. TxSize - 1
  BY RingAssumption DEF RingInv, TypeOK, ChunkInFlight, Sent, Waiting, RingDist, Slots
<1>2. \A i \in 1 .. Waiting : Wrap(tx_tail + Sent + i - 1) \in Slots
  BY <1>1, RingAssumption DEF RingInv, TypeOK, Wrap, Slots
<1>3. \A i \in 1 .. Waiting : At(i) \in Cell
  BY <1>2 DEF RingInv, TypeOK, At, Cell
<1>4. Queued = [i \in 1 .. Waiting |-> At(i)]
  BY DEF Queued, Waiting, At
<1>5. Queued \in Seq(Cell) /\ Len(Queued) = Waiting
  BY <1>1, <1>3, <1>4
<1> QED
  BY <1>1, <1>2, <1>4, <1>5 DEF QueuedIsSeq

LEMMA QueuedFactsNext == RingInv' => QueuedIsSeq'
  BY QueuedFacts, PTL

LEMMA EmptyWhenNoneWait ==
  ASSUME RingInv, Waiting = 0
  PROVE  Queued = << >>
  BY QueuedFacts, EmptySeq DEF QueuedIsSeq

\* Two ways to say that nothing happens to the queue.
LEMMA QueueUnchanged ==
  ASSUME RingInv, RingInv', tx_buf' = tx_buf, Waiting' = Waiting,
         \A i \in 1 .. Waiting :
            Wrap(tx_tail' + Sent' + i - 1) = Wrap(tx_tail + Sent + i - 1)
  PROVE  Queued' = Queued
  BY DEF Queued, Waiting

\* The slots between the tail and the head are not the ones bytes are pushed to.
LEMMA PushKeepsWaiting ==
  ASSUME NEW head \in Slots, NEW tail \in Slots, NEW n \in Nat,
         n <= TxSize - 1 - RingDist(tail, head),
         NEW k \in 0 .. RingDist(tail, head) + n - 1
  PROVE  /\ Wrap(tail + k) \in Slots
         /\ k < RingDist(tail, head) => RingDist(head, Wrap(tail + k)) >= n
         /\ k >= RingDist(tail, head) =>
              RingDist(head, Wrap(tail + k)) = k - RingDist(tail, head)
  BY RingAssumption DEF Wrap, RingDist, Slots

LEMMA AcceptPuts ==
  ASSUME RingInv, NEW bytes \in Seq(Bytes), Len(bytes) > 0, Len(bytes) <= FreeSpace,
         Accept(bytes)
  PROVE  Fifo!Put(bytes)
<1> DEFINE n == Len(bytes)
<1>0. QueuedIsSeq
  BY QueuedFacts
<1>1. RingInv'
  BY AcceptKeeps
<1>2. n \in Nat /\ tx_head \in Slots /\ tx_tail \in Slots /\ tx_tail' = tx_tail
  BY DEF RingInv, TypeOK, Accept
<1>3. RingDist(tx_tail, tx_head)' = RingDist(tx_tail, tx_head) + n
  BY <1>2, HeadFacts DEF Accept, FreeSpace, RingDist
<1>4. Sent' = Sent
  <2>1. CASE running
    BY <2>1 DEF Accept, StartTxDma, Sent
  <2>2. CASE ~ running
    <3>1. tx_head' # tx_tail
      BY <1>2, HeadFacts DEF Accept, FreeSpace
    <3>2. running' = TRUE /\ active' = dma'.left
      BY <2>2, <3>1 DEF Accept, StartTxDma
    <3>3. active' \in Int
      BY <1>1 DEF RingInv, TypeOK
    <3> QED
      BY <2>2, <3>2, <3>3 DEF Sent
  <2> QED
    BY <2>1, <2>2 DEF RingInv, TypeOK
<1>5. Waiting' = Waiting + n
  BY <1>2, <1>3, <1>4, <1>0 DEF Waiting, QueuedIsSeq
<1>6. bytes \in Seq(Cell)
  BY DEF Cell
<1>7. Queued' \in Seq(Cell) /\ Len(Queued') = Waiting + n
  BY <1>1, <1>5, QueuedFactsNext DEF QueuedIsSeq
<1>8. \A i \in 1 .. Waiting + n : Queued'[i] = tx_buf'[Wrap(tx_tail + Sent + i - 1)]
  BY <1>2, <1>4, <1>5 DEF Queued, Waiting
<1>9. \A i \in 1 .. Waiting + n :
        Queued'[i] = IF i <= Waiting THEN Queued[i] ELSE bytes[i - Waiting]
  <2> TAKE i \in 1 .. Waiting + n
  <2> DEFINE k == Sent + i - 1
             p == Wrap(tx_tail + k)
  <2>1. /\ k \in 0 .. RingDist(tx_tail, tx_head) + n - 1
        /\ tx_tail + Sent + i - 1 = tx_tail + k
        /\ k < RingDist(tx_tail, tx_head) <=> i <= Waiting
        /\ k - RingDist(tx_tail, tx_head) = i - Waiting - 1
    BY <1>2, <1>0, RingAssumption DEF Slots, QueuedIsSeq
  <2>2. /\ p \in Slots
        /\ i <= Waiting => RingDist(tx_head, p) >= n
        /\ ~ (i <= Waiting) => RingDist(tx_head, p) = i - Waiting - 1
    <3>1. n <= TxSize - 1 - RingDist(tx_tail, tx_head)
      BY DEF FreeSpace
    <3>2. /\ p \in Slots
          /\ k < RingDist(tx_tail, tx_head) => RingDist(tx_head, p) >= n
          /\ k >= RingDist(tx_tail, tx_head) =>
               RingDist(tx_head, p) = k - RingDist(tx_tail, tx_head)
      BY <1>2, <2>1, <3>1, PushKeepsWaiting
    <3>3. k \in Int /\ RingDist(tx_tail, tx_head) \in Int
      BY <1>0, <2>1 DEF QueuedIsSeq
    <3> HIDE DEF k, p
    <3> QED
      BY <2>1, <3>2, <3>3
  <2>3. Queued'[i] = tx_buf'[p]
    BY <1>8, <2>1
  <2>4. tx_buf'[p] = IF RingDist(tx_head, p) < n
                     THEN bytes[RingDist(tx_head, p) + 1] ELSE tx_buf[p]
    BY <2>2 DEF Accept, Pushed
  <2>5. CASE i <= Waiting
    <3>1. ~ (RingDist(tx_head, p) < n)
      BY <1>2, <2>2, <2>5, RingAssumption DEF RingDist, Slots
    <3>2. Queued[i] = tx_buf[p]
      BY <2>1, <2>5, <1>0 DEF At, QueuedIsSeq
    <3> QED
      BY <2>3, <2>4, <2>5, <3>1, <3>2
  <2>6. CASE ~ (i <= Waiting)
    <3>1. RingDist(tx_head, p) = i - Waiting - 1
      BY <2>2, <2>6
    <3>2. RingDist(tx_head, p) < n /\ RingDist(tx_head, p) + 1 = i - Waiting
      BY <1>2, <3>1, <1>0 DEF QueuedIsSeq
    <3> QED
      BY <2>3, <2>4, <2>6, <3>2
  <2> QED
    BY <2>5, <2>6
<1>10. Queued' = Queued \o bytes
  <2>1. /\ Queued \o bytes \in Seq(Cell) /\ Len(Queued \o bytes) = Waiting + n
        /\ \A i \in 1 .. Waiting + n :
             (Queued \o bytes)[i] = IF i <= Waiting THEN Queued[i] ELSE bytes[i - Waiting]
    <3>1. Queued \in Seq(Cell) /\ Len(Queued) = Waiting
      BY <1>0 DEF QueuedIsSeq
    <3> HIDE DEF n
    <3>2. n = Len(bytes)
      BY DEF n
    <3> QED
      BY ONLY <1>6, <3>1, <3>2, ConcatProperties
  <2> QED
    BY <1>7, <1>9, <2>1, SeqEqual
<1>11. Len(Queued) + n <= TxSize - 1
  BY <1>2, <1>0, RingAssumption DEF FreeSpace, QueuedIsSeq
<1> QED
  BY <1>10, <1>11 DEF Fifo!Put, Accept

LEMMA TransferGets ==
  ASSUME RingInv, DmaTransfer
  PROVE  Fifo!Get
<1>0. QueuedIsSeq
  BY QueuedFacts
<1>1. RingInv'
  BY RingStep DEF Next
<1>2. /\ running /\ running' /\ dma.left \in Nat /\ dma.left > 0 /\ dma'.left = dma.left - 1
      /\ dma.pos \in Slots /\ dma.pos = tx_tail + Sent
      /\ tx_tail' = tx_tail /\ tx_head' = tx_head /\ tx_buf' = tx_buf /\ active' = active
  BY RingAssumption DEF DmaTransfer, RingInv, TypeOK, ChunkInFlight, Sent, Slots
<1>3. Sent' = Sent + 1
  BY <1>2 DEF Sent, RingInv, TypeOK
<1>4. Waiting' = Waiting - 1 /\ Waiting > 0
  <2> DEFINE r == RingDist(tx_tail, tx_head)
  <2>1. r' = r /\ r \in Int /\ active \in 1 .. r /\ Sent = active - dma.left
    BY <1>0, <1>2 DEF QueuedIsSeq, RingInv, TypeOK, ChunkInFlight, Sent
  <2>2. Waiting = r - Sent /\ Waiting' = r' - Sent'
    BY DEF Waiting
  <2> HIDE DEF r
  <2> QED
    BY <1>2, <1>3, <2>1, <2>2
<1>5. Queued # << >>
  BY <1>4, <1>0 DEF QueuedIsSeq
<1>6. wire' = Head(Queued)
  <2>1. tx_tail + Sent + 1 - 1 = dma.pos /\ Wrap(dma.pos) = dma.pos
    BY <1>2, <1>0, RingAssumption DEF Wrap, Slots, RingInv, TypeOK, QueuedIsSeq
  <2>2. Queued[1] = tx_buf[dma.pos]
    BY <1>4, <2>1, <1>0 DEF At, QueuedIsSeq
  <2>3. wire' = tx_buf[dma.pos]
    BY <1>2 DEF DmaTransfer
  <2> QED
    BY <1>5, <2>2, <2>3, <1>0 DEF QueuedIsSeq
<1>7. Queued' \in Seq(Cell) /\ Len(Queued') = Waiting - 1
  BY <1>1, <1>4, QueuedFactsNext DEF QueuedIsSeq
<1>8. \A i \in 1 .. Waiting - 1 : Queued'[i] = tx_buf[Wrap(tx_tail + (Sent + 1) + i - 1)]
  BY <1>2, <1>3, <1>4 DEF Queued, Waiting
<1>9. \A i \in 1 .. Waiting - 1 : Queued'[i] = Queued[i + 1]
  <2> TAKE i \in 1 .. Waiting - 1
  <2>1. i + 1 \in 1 .. Waiting /\ tx_tail + (Sent + 1) + i - 1 = tx_tail + Sent + (i + 1) - 1
    BY <1>0, RingAssumption DEF RingInv, TypeOK, Slots, QueuedIsSeq
  <2> QED
    BY <1>8, <2>1, <1>0 DEF At, QueuedIsSeq
<1>10. Queued' = Tail(Queued)
  <2>1. /\ Tail(Queued) \in Seq(Cell) /\ Len(Tail(Queued)) = Waiting - 1
        /\ \A i \in 1 .. Waiting - 1 : Tail(Queued)[i] = Queued[i + 1]
    BY <1>5, <1>0, HeadTailProperties DEF QueuedIsSeq
  <2> QED
    BY <1>7, <1>9, <2>1, SeqEqual
<1> QED
  BY <1>5, <1>6, <1>10 DEF Fifo!Get

\* The handler moves the tail over a chunk that has been sent altogether.
LEMMA HandlerKeepsQueue ==
  ASSUME RingInv, IrqHandle
  PROVE  Queued' = Queued
<1>1. RingInv'
  BY RingStep DEF Next
<1>2. /\ running /\ dma.left = 0 /\ tx_tail' = Wrap(tx_tail + active)
      /\ tx_head' = tx_head /\ tx_buf' = tx_buf /\ Sent = active
  BY DEF IrqHandle, RingInv, TypeOK, ChunkInFlight, Sent
<1>3. Sent' = 0
  <2>1. CASE tx_tail' = tx_head
    BY <2>1 DEF IrqHandle, StartTxDma, Sent
  <2>2. CASE tx_tail' # tx_head
    <3>1. running' = TRUE /\ active' = dma'.left
      BY <2>2 DEF IrqHandle, StartTxDma
    <3>2. active' \in Int
      BY <1>1 DEF RingInv, TypeOK
    <3> QED
      BY <3>1, <3>2 DEF Sent
  <2> QED
    BY <2>1, <2>2
<1>4. /\ tx_tail \in Slots /\ tx_tail' \in Slots /\ tx_head \in Slots
      /\ active \in 1 .. RingDist(tx_tail, tx_head) /\ tx_tail + active <= TxSize
  BY <1>1, <1>2 DEF RingInv, TypeOK, ChunkInFlight
<1>5. Waiting' = Waiting
  BY <1>2, <1>3, <1>4, RingAssumption DEF Waiting, RingDist, Wrap, Slots
<1>6. \A i \in 1 .. Waiting :
        Wrap(tx_tail' + Sent' + i - 1) = Wrap(tx_tail + Sent + i - 1)
  BY <1>2, <1>3, <1>4, RingAssumption DEF Waiting, RingDist, Wrap, Slots
<1> QED
  BY <1>1, <1>2, <1>5, <1>6, QueueUnchanged

LEMMA FifoStep == RingInv /\ [Next]_vars => [Fifo!Next]_<<Queued, wire>>
<1> SUFFICES ASSUME RingInv, [Next]_vars PROVE [Fifo!Next]_<<Queued, wire>>
  OBVIOUS
<1> USE DEF Fifo!Next
<1>1. ASSUME NEW frame \in Frames, WriteFrame(frame) PROVE [Fifo!Next]_<<Queued, wire>>
  <2>1. frame \in Seq(Bytes) /\ Len(frame) > 0
    BY BytesAssumption
  <2>2. CASE Len(frame) <= FreeSpace /\ Accept(frame)
    BY <2>1, <2>2, AcceptPuts
  <2>3. CASE UNCHANGED <<ring, irq, isr, wire>>
    BY <2>3 DEF ring, Queued, Sent
  <2> QED
    BY <1>1, <2>2, <2>3 DEF WriteFrame
<1>2. ASSUME NEW b \in Bytes, WriteByte(b) PROVE [Fifo!Next]_<<Queued, wire>>
  <2>1. <<b>> \in Seq(Bytes) /\ Len(<<b>>) = 1 /\ <<b>> \in Frames \cup {<<c>> : c \in Bytes}
    OBVIOUS
  <2>2. Accept(<<b>>) /\ 1 <= FreeSpace
    BY <1>2, ByteRoom DEF WriteByte, FreeSpace, RingInv, TypeOK
  <2>3. Len(<<b>>) > 0 /\ Len(<<b>>) <= FreeSpace
    BY <2>1, <2>2
  <2>4. Fifo!Put(<<b>>)
    BY <2>1, <2>2, <2>3, AcceptPuts
  <2> QED
    BY <2>1, <2>4
<1>3. CASE IncrementDropCount
  BY <1>3 DEF IncrementDropCount, ring, Queued, Sent
<1>4. CASE DmaTransfer
  BY <1>4, TransferGets
<1>5. CASE IrqEnter
  BY <1>5 DEF IrqEnter, ring, Queued, Sent
<1>6. CASE IrqHandle
  BY <1>6, HandlerKeepsQueue DEF IrqHandle
<1>7. CASE UNCHANGED vars
  BY <1>7 DEF vars, ring, Queued, Sent
<1> QED
  BY <1>1, <1>2, <1>3, <1>4, <1>5, <1>6, <1>7 DEF Next

\* For every ring size, chunk limit and set of frames, the ring, the DMA channel
\* and the interrupt handler together are a FIFO of bytes: each byte accepted goes
\* out once, unchanged and in order.
THEOREM DriverIsFifo == Spec => ImplementsFifo
<1>1. Init => Fifo!Init
  <2> SUFFICES ASSUME Init PROVE Fifo!Init
    OBVIOUS
  <2>1. RingInv
    BY RingInit
  <2>2. Waiting = 0
    BY RingAssumption DEF Init, Waiting, RingDist, Sent
  <2> QED
    BY <2>1, <2>2, EmptyWhenNoneWait DEF Init, Fifo!Init
<1> QED
  BY <1>1, RingInit, RingStep, FifoStep, PTL DEF Spec, ImplementsFifo, Fifo!Spec

-----------------------------------------------------------------------------
(* The tasks that use it.                                                  *)

\* During a dump the logger is blocked on an empty queue.  This is inductive: a
\* dump starts only when the logger is not ready, and as long as it lasts the
\* command task is ready and keeps the tasks below it from adding an event.
PriorityInv ==
    /\ backlog \in Nat
    /\ logger \in {"receive", "dropped", "lock", "io"}
    /\ command \in {"sleep", "lock", "dump"}
    /\ command = "dump" => logger = "receive" /\ backlog = 0 /\ inserted = 0
    /\ masked = (logger = "dropped")

LEMMA PriorityInit == StreamInit => PriorityInv
<1> SUFFICES ASSUME StreamInit PROVE PriorityInv
  OBVIOUS
<1>1. masked = FALSE /\ logger = "receive" /\ command = "sleep" /\ backlog = 0
  BY DEF StreamInit, Init
<1>2. (logger = "dropped") = FALSE
  BY <1>1
<1> QED
  BY <1>1, <1>2 DEF PriorityInv

LEMMA ProducerRuns ==
  ASSUME Runs("producer")
  PROVE  command # "dump" /\ ~ (logger = "receive" /\ backlog > 0) /\ logger # "dropped"
  BY DEF Runs, Ready, Priority

LEMMA CommandRuns ==
  ASSUME PriorityInv, command = "lock", Runs("command")
  PROVE  logger = "receive" /\ backlog = 0
<1>1. ~ ("logger" \in Ready)
  BY DEF Runs, Priority
<1>2. StorageFree
  BY DEF Runs, Ready
<1> QED
  BY <1>1, <1>2 DEF Ready, StorageFree, PriorityInv

LEMMA LoggerRuns ==
  ASSUME Runs("logger"), logger = "receive"
  PROVE  backlog > 0
  BY DEF Runs, Ready

LEMMA PriorityStep == PriorityInv /\ [StreamNext]_svars => PriorityInv'
<1> SUFFICES ASSUME PriorityInv, [StreamNext]_svars PROVE PriorityInv'
  OBVIOUS
<1> USE DEF PriorityInv
<1>1. CASE Produce
  BY <1>1, ProducerRuns DEF Produce, vars
<1>2. CASE IoDone
  BY <1>2, ProducerRuns DEF IoDone, vars
<1>3. ASSUME NEW frame \in Frames, LoggerSends(frame) PROVE PriorityInv'
  <2>1. backlog > 0 /\ command # "dump" /\ backlog' \in Nat /\ command' = command
    BY <1>3, LoggerRuns DEF LoggerSends
  <2>2. masked' = TRUE \/ masked' = FALSE
    BY <1>3 DEF LoggerSends, WriteFrame, Accept
  <2>3. logger' = IF masked' THEN "dropped" ELSE "lock"
    BY <1>3 DEF LoggerSends
  <2> QED
    BY <2>1, <2>2, <2>3
<1>4. CASE LoggerCountsDrop
  BY <1>4 DEF LoggerCountsDrop, IncrementDropCount
<1>5. CASE LoggerAppends
  BY <1>5 DEF LoggerAppends, vars
<1>6. CASE CommandWakes
  BY <1>6 DEF CommandWakes, vars
<1>7. ASSUME NEW frames \in Dumps, DumpStart(frames) PROVE PriorityInv'
  BY <1>7, CommandRuns DEF DumpStart, vars
<1>8. CASE DumpByte
  BY <1>8 DEF DumpByte, WriteByte, Accept
<1>9. CASE DumpEnd
  BY <1>9 DEF DumpEnd, vars
<1>10. CASE Hardware
  BY <1>10 DEF Hardware, DmaTransfer, IrqEnter, IrqHandle, callers
<1>11. CASE UNCHANGED svars
  BY <1>11 DEF svars, vars, callers
<1>12. CASE DumpSpins
  BY <1>11, <1>12 DEF DumpSpins
<1> QED
  BY <1>1, <1>2, <1>3, <1>4, <1>5, <1>6, <1>7, <1>8, <1>9, <1>10, <1>11, <1>12 DEF StreamNext

\* A dump written byte by byte with interrupts on still goes out in one piece.
THEOREM DumpsStayWhole == StreamSpec => []DumpNotInterleaved
<1>1. PriorityInv => DumpNotInterleaved
  BY DEF PriorityInv, DumpNotInterleaved
<1> QED
  BY PriorityInit, PriorityStep, <1>1, PTL DEF StreamSpec

\* write_frame's early return leaves interrupts off, and incrementDropCount, which
\* its only caller runs next, turns them on again before any other task runs.
THEOREM MaskIsTransient == StreamSpec => []MaskedOnlyWhileDropping
<1>1. PriorityInv => MaskedOnlyWhileDropping
  BY DEF PriorityInv, MaskedOnlyWhileDropping
<1> QED
  BY PriorityInit, PriorityStep, <1>1, PTL DEF StreamSpec

-----------------------------------------------------------------------------
(* Dumps are made of stored frames, byte by byte.                          *)

\* The least element of a set of numbers.
LEMMA NatMin ==
  ASSUME NEW T, T \subseteq Nat, T # {}
  PROVE  \E x \in T : \A y \in T : x <= y
<1> DEFINE Less == {pair \in Nat \X Nat : pair[1] < pair[2]}
<1>1. IsWellFoundedOn(Less, Nat)
  BY NatLessThanWellFounded DEF OpToRel
<1>2. PICK x \in T : \A y \in T : ~ (<<y, x>> \in Less)
  <2> HIDE DEF Less
  <2> QED
    BY <1>1, WFMin, Zenon
<1>3. ASSUME NEW y \in T PROVE x <= y
  <2>1. <<y, x>> \in Nat \X Nat /\ ~ (<<y, x>> \in Less)
    BY <1>2
  <2> QED
    BY <2>1
<1> QED
  BY <1>3

\* f[i] is the concatenation of the first i of the sequences.
Flattens(seqs, k, f) ==
    f = [i \in 1 .. k |-> IF i = 1 THEN seqs[i] ELSE f[i - 1] \o seqs[i]]

LEMMA FlattenTypes ==
  ASSUME NEW S, NEW seqs \in Seq(Seq(S)), NEW k \in 0 .. Len(seqs), NEW f,
         Flattens(seqs, k, f)
  PROVE  \A i \in 1 .. k : f[i] \in Seq(S)
<1> DEFINE T == {i \in 1 .. k : f[i] \notin Seq(S)}
<1> SUFFICES ASSUME T # {} PROVE FALSE
  OBVIOUS
<1>1. PICK i \in T : \A j \in T : i <= j
  <2>1. T \subseteq Nat
    OBVIOUS
  <2> HIDE DEF T
  <2> QED
    BY <2>1, NatMin
<1>2. i \in 1 .. k /\ f[i] \notin Seq(S) /\ seqs[i] \in Seq(S)
  BY <1>1
<1>3. f[i] = IF i = 1 THEN seqs[i] ELSE f[i - 1] \o seqs[i]
  BY <1>2 DEF Flattens
<1>4. i # 1
  BY <1>2, <1>3
<1>5. i - 1 \in 1 .. k /\ i - 1 \notin T
  <2> HIDE DEF T
  <2> QED
    BY <1>1, <1>2, <1>4
<1>6. f[i - 1] \in Seq(S)
  BY <1>5
<1> QED
  BY <1>2, <1>3, <1>4, <1>6

LEMMA FlattenExists ==
  ASSUME NEW S, NEW seqs \in Seq(Seq(S)), NEW k \in 0 .. Len(seqs)
  PROVE  \E f : Flattens(seqs, k, f)
<1> DEFINE T == {i \in 0 .. Len(seqs) : ~ \E f : Flattens(seqs, i, f)}
<1> SUFFICES ASSUME T # {} PROVE FALSE
  OBVIOUS
<1>1. PICK i \in T : \A j \in T : i <= j
  <2>1. T \subseteq Nat
    OBVIOUS
  <2> HIDE DEF T
  <2> QED
    BY <2>1, NatMin
<1>2. i \in 0 .. Len(seqs) /\ ~ \E f : Flattens(seqs, i, f)
  BY <1>1
<1>3. i # 0
  <2>1. Flattens(seqs, 0, [j \in 1 .. 0 |-> << >>])
    BY DEF Flattens
  <2> QED
    BY <1>2, <2>1
<1>4. i - 1 \in 0 .. Len(seqs) /\ i - 1 \notin T
  <2> HIDE DEF T
  <2> QED
    BY <1>1, <1>2, <1>3
<1>5. PICK f : Flattens(seqs, i - 1, f)
  BY <1>4
<1> DEFINE last == IF i = 1 THEN seqs[i] ELSE f[i - 1] \o seqs[i]
           g == [j \in 1 .. i |-> IF j < i THEN f[j] ELSE last]
<1>6. ASSUME NEW j \in 1 .. i PROVE g[j] = IF j = 1 THEN seqs[j] ELSE g[j - 1] \o seqs[j]
  <2>1. CASE j < i
    <3>1. j \in 1 .. i - 1 /\ g[j] = f[j]
      BY <1>2, <2>1
    <3>2. f[j] = IF j = 1 THEN seqs[j] ELSE f[j - 1] \o seqs[j]
      BY <1>5, <3>1 DEF Flattens
    <3>3. j # 1 => g[j - 1] = f[j - 1]
      BY <1>2, <3>1
    <3> QED
      BY <3>1, <3>2, <3>3
  <2>2. CASE j = i
    <3>1. g[j] = last /\ (j # 1 => g[j - 1] = f[j - 1])
      BY <1>2, <2>2
    <3> QED
      BY <2>2, <3>1
  <2> QED
    BY <1>2, <2>1, <2>2
<1>7. Flattens(seqs, i, g)
  <2>1. g = [j \in 1 .. i |-> g[j]]
    OBVIOUS
  <2> HIDE DEF g
  <2> QED
    BY <1>6, <2>1 DEF Flattens
<1> QED
  BY <1>2, <1>7

LEMMA FlattenOf ==
  ASSUME NEW S, NEW seqs \in Seq(Seq(S))
  PROVE  Seqs!FlattenSeq(seqs) \in Seq(S)
<1>1. CASE Len(seqs) = 0
  BY <1>1 DEF Seqs!FlattenSeq
<1>2. CASE Len(seqs) # 0
  <2> DEFINE flat == CHOOSE f : Flattens(seqs, Len(seqs), f)
  <2>1. Len(seqs) \in 0 .. Len(seqs) /\ Len(seqs) \in 1 .. Len(seqs)
    BY <1>2
  <2>2. Flattens(seqs, Len(seqs), flat)
    BY <2>1, FlattenExists
  <2>3. Seqs!FlattenSeq(seqs) = flat[Len(seqs)]
    BY <1>2 DEF Seqs!FlattenSeq, Flattens
  <2> HIDE DEF flat
  <2> QED
    BY <2>1, <2>2, <2>3, FlattenTypes
<1> QED
  BY <1>1, <1>2

-----------------------------------------------------------------------------
(* The two tasks are callers of the driver, which treats them alike.       *)

\* What a dump still has to send are bytes of stored frames.
DumpInv(S) == dump \in Seq(S)

LEMMA DumpStep ==
  ASSUME NEW S, \A frame \in DumpFrames : frame \in Seq(S), DumpInv(S), [StreamNext]_svars
  PROVE  DumpInv(S)'
<1> USE DEF DumpInv
<1>1. ASSUME NEW frames \in Dumps, DumpStart(frames) PROVE dump' \in Seq(S)
  <2>1. PICK k \in 0 .. MaxDump : frames \in [1 .. k -> DumpFrames]
    BY DEF Dumps
  <2>2. frames \in Seq(Seq(S))
    BY <2>1, StreamAssumption
  <2> QED
    BY <1>1, <2>2, FlattenOf DEF DumpStart
<1>2. CASE DumpByte
  BY <1>2, HeadTailProperties DEF DumpByte
<1>3. CASE /\ ~ DumpByte
           /\ ~ \E frames \in Dumps : DumpStart(frames)
  <2>1. dump' = dump
    BY <1>3 DEF StreamNext, Produce, IoDone, LoggerSends, LoggerCountsDrop, LoggerAppends,
            CommandWakes, DumpSpins, DumpEnd, Hardware, svars, callers
  <2> QED
    BY <2>1
<1> QED
  BY <1>1, <1>2, <1>3

LEMMA StreamIsDriver ==
  ASSUME DumpInv(Bytes), [StreamNext]_svars
  PROVE  [Next]_vars
<1>1. ASSUME NEW frame \in Frames, LoggerSends(frame) PROVE Next
  BY <1>1 DEF LoggerSends, Next
<1>2. CASE LoggerCountsDrop
  BY <1>2 DEF LoggerCountsDrop, Next
<1>3. CASE DumpByte
  <2>1. Head(dump) \in Bytes
    BY <1>3, HeadTailProperties DEF DumpByte, DumpInv
  <2> QED
    BY <1>3, <2>1 DEF DumpByte, Next
<1>4. CASE Hardware
  BY <1>4 DEF Hardware, Next
<1>5. CASE UNCHANGED vars
  BY <1>5
<1> QED
  BY <1>1, <1>2, <1>3, <1>4, <1>5 DEF StreamNext, Produce, IoDone, LoggerAppends, CommandWakes,
     DumpStart, DumpSpins, DumpEnd, svars

LEMMA DumpInvInit == ASSUME NEW S, StreamInit PROVE DumpInv(S)
  BY DEF StreamInit, DumpInv

\* The logger and the command task together, whatever they send and whenever, only
\* take steps of the driver, so that for them too the UART is a FIFO of bytes.
THEOREM StreamIsFifo == StreamSpec => ImplementsFifo
<1>1. StreamInit => Init /\ DumpInv(Bytes)
  BY DumpInvInit DEF StreamInit
<1>2. DumpInv(Bytes) /\ [StreamNext]_svars => DumpInv(Bytes)' /\ [Next]_vars
  <2>1. \A frame \in DumpFrames : frame \in Seq(Bytes)
    BY StreamAssumption
  <2> QED
    BY <2>1, DumpStep, StreamIsDriver
<1>3. StreamSpec => Spec
  BY <1>1, <1>2, PTL DEF StreamSpec, Spec
<1> QED
  BY <1>3, DriverIsFifo

-----------------------------------------------------------------------------
(* Live frames stay whole.                                                 *)

\* The first byte of a live frame says which it is: it occurs nowhere else.
FirstBytesTell ==
    /\ \A f, g \in Frames : \A i \in 1 .. Len(g) : g[i] = f[1] => f = g /\ i = 1
    /\ \A f \in Frames, d \in DumpFrames : \A i \in 1 .. Len(d) : d[i] # f[1]

\* What is not the first byte of a live frame.
Other == {b \in Bytes : \A f \in Frames : b # f[1]}

\* In q the first byte of a live frame is followed by the rest of it.
Whole(q) ==
    \A f \in Frames, i \in 1 .. Len(q) :
        q[i] = f[1] => /\ i + Len(f) - 1 <= Len(q)
                       /\ \A k \in 1 .. Len(f) : q[i + k - 1] = f[k]

LEMMA WholeTail ==
  ASSUME NEW S, NEW q \in Seq(S), q # << >>, Whole(q)
  PROVE  Whole(Tail(q))
<1> DEFINE r == Tail(q)
<1>1. Len(r) = Len(q) - 1 /\ Len(q) \in Nat \ {0} /\ \A i \in 1 .. Len(r) : r[i] = q[i + 1]
  BY HeadTailProperties
<1> HIDE DEF r
<1>2. ASSUME NEW f \in Frames, NEW i \in 1 .. Len(r), r[i] = f[1]
      PROVE  /\ i + Len(f) - 1 <= Len(r)
             /\ \A k \in 1 .. Len(f) : r[i + k - 1] = f[k]
  <2>1. i + 1 \in 1 .. Len(q) /\ q[i + 1] = f[1] /\ Len(f) \in Nat
    BY <1>1, <1>2, BytesAssumption
  <2>2. /\ i + 1 + Len(f) - 1 <= Len(q)
        /\ \A k \in 1 .. Len(f) : q[i + 1 + k - 1] = f[k]
    BY <2>1 DEF Whole
  <2>3. ASSUME NEW k \in 1 .. Len(f) PROVE r[i + k - 1] = f[k]
    <3>1. i + k - 1 \in 1 .. Len(r) /\ (i + k - 1) + 1 = i + 1 + k - 1
      BY <1>1, <2>1, <2>2
    <3> QED
      BY <1>1, <2>2, <3>1
  <2> QED
    BY <1>1, <2>1, <2>2, <2>3
<1> QED
  BY <1>2 DEF Whole, r

LEMMA WholePut ==
  ASSUME NEW S, NEW q \in Seq(S), NEW s \in Seq(S), Whole(q), Whole(s)
  PROVE  Whole(q \o s)
<1> DEFINE r == q \o s
<1>1. /\ Len(q) \in Nat /\ Len(s) \in Nat /\ Len(r) = Len(q) + Len(s)
      /\ \A i \in 1 .. Len(r) : r[i] = IF i <= Len(q) THEN q[i] ELSE s[i - Len(q)]
  BY ConcatProperties
<1> HIDE DEF r
<1>2. ASSUME NEW f \in Frames, NEW i \in 1 .. Len(r), r[i] = f[1]
      PROVE  /\ i + Len(f) - 1 <= Len(r)
             /\ \A k \in 1 .. Len(f) : r[i + k - 1] = f[k]
  <2>0. Len(f) \in Nat
    BY BytesAssumption
  <2>1. CASE i <= Len(q)
    <3>1. i \in 1 .. Len(q) /\ q[i] = f[1]
      BY <1>1, <1>2, <2>1
    <3>2. i + Len(f) - 1 <= Len(q) /\ \A k \in 1 .. Len(f) : q[i + k - 1] = f[k]
      BY <3>1 DEF Whole
    <3>3. ASSUME NEW k \in 1 .. Len(f) PROVE r[i + k - 1] = f[k]
      <4>1. i + k - 1 \in 1 .. Len(r) /\ i + k - 1 <= Len(q)
        BY <1>1, <2>0, <2>1, <3>2
      <4> QED
        BY <1>1, <3>2, <4>1
    <3> QED
      BY <1>1, <2>0, <3>2, <3>3
  <2>2. CASE i > Len(q)
    <3> DEFINE j == i - Len(q)
    <3>1. j \in 1 .. Len(s) /\ s[j] = f[1]
      BY <1>1, <1>2, <2>2
    <3>2. j + Len(f) - 1 <= Len(s) /\ \A k \in 1 .. Len(f) : s[j + k - 1] = f[k]
      BY <3>1 DEF Whole
    <3>3. ASSUME NEW k \in 1 .. Len(f) PROVE r[i + k - 1] = f[k]
      <4>1. /\ i + k - 1 \in 1 .. Len(r) /\ ~ (i + k - 1 <= Len(q))
            /\ (i + k - 1) - Len(q) = j + k - 1
        BY <1>1, <2>0, <2>2, <3>2
      <4> QED
        BY <1>1, <3>2, <4>1
    <3> QED
      BY <1>1, <2>0, <3>2, <3>3
  <2> QED
    BY <1>1, <2>1, <2>2
<1> QED
  BY <1>2 DEF Whole, r

LEMMA WholeFrame ==
  ASSUME FirstBytesTell, NEW f \in Frames
  PROVE  Whole(f)
<1>1. \A g \in Frames, i \in 1 .. Len(f) : f[i] = g[1] => g = f /\ i = 1
  BY DEF FirstBytesTell
<1>2. Len(f) \in Nat
  BY BytesAssumption
<1>3. ASSUME NEW g \in Frames, NEW i \in 1 .. Len(f), f[i] = g[1]
      PROVE  i + Len(g) - 1 <= Len(f) /\ \A k \in 1 .. Len(g) : f[i + k - 1] = g[k]
  <2>1. g = f /\ i = 1
    BY <1>1, <1>3
  <2>2. \A k \in 1 .. Len(f) : 1 + k - 1 = k
    OBVIOUS
  <2> QED
    BY <1>2, <2>1, <2>2
<1> QED
  BY <1>3 DEF Whole

LEMMA WholeByte ==
  ASSUME NEW b \in Other
  PROVE  Whole(<<b>>)
  BY DEF Whole, Other

StreamInv == RingInv /\ DumpInv(Other) /\ Whole(Queued)

LEMMA WholeStep ==
  ASSUME FirstBytesTell, StreamInv, [StreamNext]_svars
  PROVE  Whole(Queued')
<1>0. RingInv /\ Whole(Queued) /\ Queued \in Seq(Cell)
  BY QueuedFacts DEF StreamInv, QueuedIsSeq
<1>1. ASSUME NEW frame \in Frames, LoggerSends(frame) PROVE Whole(Queued')
  <2>1. frame \in Seq(Bytes) /\ Len(frame) > 0 /\ frame \in Seq(Cell)
    BY BytesAssumption DEF Cell
  <2>2. CASE Len(frame) <= FreeSpace /\ Accept(frame)
    <3>1. Queued' = Queued \o frame
      BY <1>0, <2>1, <2>2, AcceptPuts DEF Fifo!Put
    <3> QED
      BY <1>0, <2>1, <3>1, WholePut, WholeFrame
  <2>3. CASE UNCHANGED ring
    <3>1. Queued' = Queued
      BY <2>3 DEF ring, Queued, Sent
    <3> QED
      BY <1>0, <3>1
  <2> QED
    BY <1>1, <2>2, <2>3 DEF LoggerSends, WriteFrame
<1>2. CASE DumpByte
  <2> DEFINE b == Head(dump)
  <2>1. b \in Other /\ b \in Bytes
    BY <1>2, HeadTailProperties DEF DumpByte, StreamInv, DumpInv, Other
  <2> HIDE DEF b
  <2>2. <<b>> \in Seq(Bytes) /\ Len(<<b>>) = 1 /\ <<b>> \in Seq(Cell)
    BY <2>1 DEF Cell
  <2>3. Accept(<<b>>) /\ 1 <= FreeSpace
    BY <1>0, <1>2, ByteRoom DEF DumpByte, WriteByte, FreeSpace, RingInv, TypeOK, b
  <2>4. Len(<<b>>) > 0 /\ Len(<<b>>) <= FreeSpace
    BY <2>2, <2>3
  <2>5. Queued' = Queued \o <<b>>
    BY <1>0, <2>2, <2>3, <2>4, AcceptPuts DEF Fifo!Put
  <2> QED
    BY <1>0, <2>1, <2>2, <2>5, WholePut, WholeByte
<1>3. CASE DmaTransfer
  <2>1. Queued # << >> /\ Queued' = Tail(Queued)
    BY <1>0, <1>3, TransferGets DEF Fifo!Get
  <2> QED
    BY <1>0, <2>1, WholeTail
<1>4. CASE IrqHandle
  BY <1>0, <1>4, HandlerKeepsQueue
<1>5. CASE UNCHANGED ring
  <2>1. Queued' = Queued
    BY <1>5 DEF ring, Queued, Sent
  <2> QED
    BY <1>0, <2>1
<1> QED
  BY <1>1, <1>2, <1>3, <1>4, <1>5 DEF StreamNext, Produce, IoDone, LoggerCountsDrop,
     IncrementDropCount, LoggerAppends, CommandWakes, DumpStart, DumpSpins, DumpEnd, Hardware,
     IrqEnter, svars, vars

LEMMA WholeMeans ==
  ASSUME RingInv, Whole(Queued)
  PROVE  LiveFramesWhole
<1> DEFINE q == Queued
<1>1. q \in Seq(Cell) /\ Len(q) \in Nat
  BY QueuedFacts DEF QueuedIsSeq
<1> HIDE DEF q
<1>2. ASSUME NEW f \in Frames, NEW i \in 1 .. Len(q), q[i] = f[1]
      PROVE  /\ i + Len(f) - 1 <= Len(q)
             /\ SubSeq(q, i, i + Len(f) - 1) = f
  <2>1. f \in Seq(Cell) /\ Len(f) \in Nat \ {0}
    BY BytesAssumption DEF Cell
  <2>2. i + Len(f) - 1 <= Len(q) /\ \A k \in 1 .. Len(f) : q[i + k - 1] = f[k]
    BY <1>2 DEF Whole, q
  <2> DEFINE s == SubSeq(q, i, i + Len(f) - 1)
  <2>3. /\ s \in Seq(Cell) /\ Len(s) = Len(f)
        /\ \A k \in 1 .. Len(f) : s[k] = q[i + k - 1]
    BY <1>1, <2>1, <2>2, SubSeqProperties
  <2> HIDE DEF s
  <2>4. s = f
    BY <2>1, <2>2, <2>3, SeqEqual
  <2> QED
    BY <2>2, <2>4 DEF s
<1> QED
  BY <1>2 DEF LiveFramesWhole, q

\* A live frame goes out whole and in one piece between those of others and the
\* bytes of a dump, for every ring and all frames, if its first byte tells it.
THEOREM FramesStayWhole ==
  ASSUME FirstBytesTell
  PROVE  StreamSpec => []LiveFramesWhole
<1>0. /\ \A frame \in DumpFrames : frame \in Seq(Other)
      /\ Seq(Other) \subseteq Seq(Bytes)
  <2>1. ASSUME NEW d \in DumpFrames PROVE d \in Seq(Other)
    <3>1. d \in Seq(Bytes)
      BY StreamAssumption
    <3>2. \A i \in 1 .. Len(d) : d[i] \in Other
      BY <3>1 DEF FirstBytesTell, Other
    <3> QED
      BY <3>1, <3>2
  <2> QED
    BY <2>1 DEF Other
<1>1. StreamInit => StreamInv
  <2> SUFFICES ASSUME StreamInit PROVE StreamInv
    OBVIOUS
  <2>1. RingInv /\ DumpInv(Other)
    BY RingInit, DumpInvInit DEF StreamInit
  <2>2. Queued = << >>
    <3>1. Waiting = 0
      BY RingAssumption DEF StreamInit, Init, Waiting, RingDist, Sent
    <3> QED
      BY <2>1, <3>1, EmptyWhenNoneWait
  <2>3. Whole(<< >>)
    BY DEF Whole
  <2> QED
    BY <2>1, <2>2, <2>3 DEF StreamInv
<1>2. StreamInv /\ [StreamNext]_svars => StreamInv'
  <2> SUFFICES ASSUME StreamInv, [StreamNext]_svars PROVE StreamInv'
    OBVIOUS
  <2>1. DumpInv(Bytes)
    BY <1>0 DEF StreamInv, DumpInv
  <2>2. [Next]_vars
    BY <2>1, StreamIsDriver
  <2>3. RingInv'
    BY <2>2, RingStep DEF StreamInv
  <2>4. DumpInv(Other)'
    BY <1>0, DumpStep DEF StreamInv
  <2>5. Whole(Queued')
    BY WholeStep
  <2> QED
    BY <2>3, <2>4, <2>5 DEF StreamInv, Whole
<1>3. StreamInv => LiveFramesWhole
  BY WholeMeans DEF StreamInv
<1> QED
  BY <1>1, <1>2, <1>3, PTL DEF StreamSpec
=============================================================================
