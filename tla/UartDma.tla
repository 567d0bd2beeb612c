------------------------------- MODULE UartDma -------------------------------
(***************************************************************************)
(* The transmit side of UartDma.cpp: a ring buffer filled by tasks, drained *)
(* by a DMA channel one contiguous chunk at a time, and the completion      *)
(* interrupt that starts the next chunk.                                    *)
(*                                                                         *)
(* One core runs tasks and interrupt handler; a section between             *)
(* save_and_disable_interrupts and restore_interrupts is one step.  The DMA *)
(* channel runs on its own, also while interrupts are masked.               *)
(***************************************************************************)
EXTENDS Integers, Sequences

CONSTANTS
    TxSize,         \* tx_size_
    ChunkMax,       \* TX_DMA_CHUNK_MAX
    Bytes,
    Frames,         \* byte sequences handed to write_frame
    NoByte

ASSUME RingAssumption == TxSize \in Nat \ {0, 1} /\ ChunkMax \in Nat \ {0}
ASSUME BytesAssumption ==
    /\ NoByte \notin Bytes
    /\ \A frame \in Frames : frame \in Seq(Bytes) /\ Len(frame) > 0

VARIABLES
    tx_buf,         \* the ring
    tx_head,        \* where the next byte goes
    tx_tail,        \* the first byte not known to be sent
    running,        \* tx_dma_running_
    active,         \* tx_dma_active_count_, the size of the chunk under way
    dma,            \* the channel: the byte it reads next, bytes left
    irq,            \* the channel's completion flag (ints0)
    isr,            \* the handler acknowledged the flag and is still to run
    masked,         \* interrupts are off although no critical section is open
    wire            \* the byte sent last

ring == <<tx_buf, tx_head, tx_tail, running, active, dma>>
vars == <<ring, irq, isr, masked, wire>>

-----------------------------------------------------------------------------
(* Ring arithmetic, "& (tx_size_ - 1)" in the code.                         *)

Slots == 0 .. TxSize - 1

Wrap(p) == IF p >= TxSize THEN p - TxSize ELSE p

\* How far slot i lies after slot p.
RingDist(p, i) == IF i >= p THEN i - p ELSE i - p + TxSize

\* One slot stays free, so that a full ring differs from an empty one.
FreeSpaceAll == TxSize - RingDist(tx_tail, tx_head)   \* for a mutant of FreeSpace
FreeSpace == TxSize - 1 - RingDist(tx_tail, tx_head)

\* push_bytes_locked
Pushed(bytes) ==
    [i \in Slots |-> IF RingDist(tx_head, i) < Len(bytes)
                     THEN bytes[RingDist(tx_head, i) + 1] ELSE tx_buf[i]]

UpTo(n) == IF n > ChunkMax THEN ChunkMax ELSE n
ChunkAcrossEnd(head, tail) == UpTo(RingDist(tail, head))    \* for a mutant of Chunk
\* A chunk ends at the end of the buffer: the channel does not wrap.
Chunk(head, tail) == UpTo(IF head >= tail THEN head - tail ELSE TxSize - tail)

-----------------------------------------------------------------------------
(* The driver.                                                             *)

\* start_tx_dma_locked and start_tx_dma_if_needed_isr
StartTxDma(head, tail, is_running, is_active) ==
    IF is_running \/ tail = head
    THEN running' = is_running /\ active' = is_active /\ UNCHANGED dma
    ELSE /\ running' = TRUE /\ active' = Chunk(head, tail)
         /\ dma' = [pos |-> tail, left |-> Chunk(head, tail)]

\* A task runs: no handler is active and interrupts are on.
TaskRuns == ~ masked /\ ~ isr

Accept(bytes) ==
    /\ tx_buf' = Pushed(bytes) /\ tx_head' = Wrap(tx_head + Len(bytes))
    /\ StartTxDma(tx_head', tx_tail, running, active)
    /\ UNCHANGED <<tx_tail, irq, isr, masked, wire>>

WriteWhatFits(frame) ==                 \* for a mutant of WriteFrame
    /\ TaskRuns
    /\ Accept(SubSeq(frame, 1, IF Len(frame) > FreeSpace THEN FreeSpace ELSE Len(frame)))
\* write_frame().  A frame that does not fit is dropped, and the early return
\* leaves interrupts off.
WriteFrame(frame) ==
    /\ TaskRuns
    /\ \/ Len(frame) <= FreeSpace /\ Accept(frame)
       \/ Len(frame) > FreeSpace /\ masked' = TRUE /\ UNCHANGED <<ring, irq, isr, wire>>

\* EventLogger::incrementDropCount, which the caller runs after a dropped frame:
\* leaving its critical section turns interrupts on again.
IncrementDropCount ==
    /\ masked /\ masked' = FALSE
    /\ UNCHANGED <<ring, irq, isr, wire>>

\* write_byte() finding room; without room it changes nothing but a counter.
WriteByte(b) == TaskRuns /\ Wrap(tx_head + 1) # tx_tail /\ Accept(<<b>>)

\* The channel sends a byte; past the end of the ring it would find no byte of ours.
DmaTransfer ==
    /\ dma.left > 0
    /\ wire' = IF dma.pos \in Slots THEN tx_buf[dma.pos] ELSE NoByte
    /\ dma' = [pos |-> dma.pos + 1, left |-> dma.left - 1]
    /\ irq' = (irq \/ dma.left = 1)
    /\ UNCHANGED <<tx_buf, tx_head, tx_tail, running, active, isr, masked>>

\* dma_irq_trampoline acknowledges the flag before it calls the handler.
IrqEnter ==
    /\ irq /\ TaskRuns
    /\ irq' = FALSE /\ isr' = TRUE
    /\ UNCHANGED <<ring, masked, wire>>

IrqHandleNoRestart ==                   \* for a mutant of IrqHandle
    /\ isr /\ isr' = FALSE
    /\ tx_tail' = Wrap(tx_tail + active) /\ running' = FALSE /\ active' = 0
    /\ UNCHANGED <<tx_buf, tx_head, dma, irq, masked, wire>>
IrqHandleStaysBusy ==                   \* for another
    /\ isr /\ isr' = FALSE
    /\ tx_tail' = Wrap(tx_tail + active) /\ active' = 0
    /\ UNCHANGED <<tx_buf, tx_head, running, dma, irq, masked, wire>>
\* dma_irq_handler: the chunk is sent, start the next one.
IrqHandle ==
    /\ isr /\ isr' = FALSE
    /\ tx_tail' = Wrap(tx_tail + active)
    /\ StartTxDma(tx_head, tx_tail', FALSE, 0)
    /\ UNCHANGED <<tx_buf, tx_head, irq, masked, wire>>

Init ==
    /\ tx_buf = [i \in Slots |-> NoByte] /\ tx_head = 0 /\ tx_tail = 0
    /\ running = FALSE /\ active = 0 /\ dma = [pos |-> 0, left |-> 0]
    /\ irq = FALSE /\ isr = FALSE /\ masked = FALSE /\ wire = NoByte

Next ==
    \/ \E frame \in Frames : WriteFrame(frame)
    \/ \E b \in Bytes : WriteByte(b)
    \/ IncrementDropCount \/ DmaTransfer \/ IrqEnter \/ IrqHandle

\* The channel does not stall; a handler and a task that found the ring full run
\* on, nothing can preempt them; and a pending interrupt is taken as soon as
\* interrupts are on, however briefly (hence strong fairness).
Fairness ==
    /\ WF_vars(DmaTransfer) /\ SF_vars(IrqEnter) /\ WF_vars(IrqHandle)
    /\ WF_vars(IncrementDropCount)

Spec == Init /\ [][Next]_vars
FairSpec == Spec /\ Fairness

-----------------------------------------------------------------------------
(* Properties.                                                             *)

TypeOK ==
    /\ tx_buf \in [Slots -> Bytes \cup {NoByte}]
    /\ tx_head \in Slots /\ tx_tail \in Slots
    /\ running \in BOOLEAN /\ active \in 0 .. TxSize
    /\ dma \in [pos : 0 .. TxSize, left : 0 .. TxSize]
    /\ irq \in BOOLEAN /\ isr \in BOOLEAN /\ masked \in BOOLEAN
    /\ wire \in Bytes \cup {NoByte}

\* The chunk under way starts at the tail, lies within the bytes accepted and
\* within the buffer, and the channel is inside it.  When it has ended, and only
\* then, one completion is outstanding: as flag or as running handler, never both.
ChunkInFlight ==
    /\ running => /\ active \in 1 .. RingDist(tx_tail, tx_head)
                  /\ tx_tail + active <= TxSize
                  /\ dma.pos + dma.left = tx_tail + active
                  /\ dma.pos >= tx_tail
    /\ ~ running => active = 0 /\ tx_head = tx_tail
    /\ ~ (irq /\ isr)
    /\ (irq \/ isr) <=> (running /\ dma.left = 0)
    /\ ~ running => dma.left = 0

\* The bytes accepted and not yet on the wire, oldest first.
Sent == IF running THEN active - dma.left ELSE 0
Queued ==
    [i \in 1 .. RingDist(tx_tail, tx_head) - Sent |-> tx_buf[Wrap(tx_tail + Sent + i - 1)]]

\* The driver is a FIFO of bytes of capacity tx_size_ - 1: every byte accepted
\* goes out once, in order, unchanged, and frames are accepted whole.
Fifo == INSTANCE ByteFifo WITH
    Capacity <- TxSize - 1, Chunks <- Frames \cup {<<b>> : b \in Bytes},
    queue <- Queued, out <- wire
ImplementsFifo == Fifo!Spec

\* The line does not stall: while bytes wait, bytes go out.  A lost completion
\* interrupt, a chunk never started or interrupts left off would stop it.
LineNeverStalls == <>[](Queued # << >>) => []<><<DmaTransfer>>_vars
=============================================================================
