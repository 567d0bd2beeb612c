------------------------------ MODULE LogStream ------------------------------
(***************************************************************************)
(* The two tasks that share the UART: the logger task sends each event as a *)
(* live frame (EventLogger::sendBinary) before it appends it to flash, and  *)
(* the command task dumps stored frames byte by byte                        *)
(* (sendFramesOldestFirst, sendLatestFrames) while it holds the storage     *)
(* mutex, for which the append of the logger waits.                         *)
(*                                                                         *)
(* Tasks are scheduled by fixed priorities on one core: a task takes a step *)
(* only when no task of higher priority is ready.  Each runs on while it has *)
(* work; the blocking calls are where it ceases to be ready.                *)
(***************************************************************************)
EXTENDS UartDma
Seqs == INSTANCE SequencesExt

CONSTANTS
    DumpFrames,     \* the stored frames
    MaxBacklog,     \* the length of the event queue
    MaxDump         \* bound: frames of a dump

ASSUME StreamAssumption ==
    /\ MaxBacklog \in Nat /\ MaxDump \in Nat
    /\ \A frame \in DumpFrames : frame \in Seq(Bytes) /\ Len(frame) > 0

VARIABLES
    backlog,        \* events in the queue of the logger
    logger,         \* "receive", "dropped" (in incrementDropCount), "lock", or
                    \* "io": in append() waiting for the shared I/O lock
    command,        \* "sleep" (no input), "lock" or "dump"
    dump,           \* bytes of the dump still to be sent
    inserted        \* live frames accepted since the dump began

callers == <<backlog, logger, command, dump, inserted>>
svars == <<vars, callers>>

EqualPriority == [logger |-> 3, command |-> 1, producer |-> 1]  \* for a mutant of Priority
Priority == [logger |-> 3, command |-> 2, producer |-> 1]

\* The storage mutex is free: append() holds it also while it waits for I/O.
StorageFree == logger # "io" /\ command # "dump"

\* The tasks not blocked.  "producer" stands for the tasks that log and measure.
Ready == {"producer"}
    \cup (IF logger = "dropped" \/ (logger = "receive" /\ backlog > 0)
               \/ (logger = "lock" /\ StorageFree) THEN {"logger"} ELSE {})
    \cup (IF command = "dump" \/ (command = "lock" /\ StorageFree) THEN {"command"} ELSE {})

Runs(task) == task \in Ready /\ \A t \in Ready : Priority[t] <= Priority[task]

\* log() from a measuring task; with the queue full it only counts a drop.
Produce ==
    /\ TaskRuns /\ Runs("producer") /\ backlog < MaxBacklog
    /\ backlog' = backlog + 1
    /\ UNCHANGED <<vars, logger, command, dump, inserted>>

\* A measuring task gives the shared I/O lock back and append() ends.
IoDone ==
    /\ TaskRuns /\ Runs("producer") /\ logger = "io" /\ logger' = "receive"
    /\ UNCHANGED <<vars, backlog, command, dump, inserted>>

\* sendBinary: the UART first; a full ring drops the frame before the flash sees it.
LoggerSends(frame) ==
    /\ logger = "receive" /\ Runs("logger")
    /\ WriteFrame(frame) /\ backlog' = backlog - 1
    /\ logger' = IF masked' THEN "dropped" ELSE "lock"
    /\ inserted' = IF command = "dump" /\ ~ masked' THEN inserted + 1 ELSE inserted
    /\ UNCHANGED <<command, dump>>

DropKeepsMask ==                        \* for a mutant of LoggerCountsDrop
    /\ logger = "dropped" /\ Runs("logger") /\ logger' = "receive"
    /\ UNCHANGED <<vars, backlog, command, dump, inserted>>
LoggerCountsDrop ==
    /\ logger = "dropped" /\ Runs("logger") /\ IncrementDropCount /\ logger' = "receive"
    /\ UNCHANGED <<backlog, command, dump, inserted>>

\* append() takes the storage mutex; the shared I/O lock may be taken.
LoggerAppends ==
    /\ TaskRuns /\ logger = "lock" /\ Runs("logger")
    /\ logger' \in {"receive", "io"}
    /\ UNCHANGED <<vars, backlog, command, dump, inserted>>

\* The line "a" or "lN" is complete.
CommandWakes ==
    /\ TaskRuns /\ command = "sleep" /\ Runs("producer") /\ command' = "lock"
    /\ UNCHANGED <<vars, backlog, logger, dump, inserted>>

DumpStart(frames) ==
    /\ TaskRuns /\ command = "lock" /\ Runs("command")
    /\ command' = "dump" /\ dump' = Seqs!FlattenSeq(frames) /\ inserted' = 0
    /\ UNCHANGED <<vars, backlog, logger>>

\* One byte of write_buffer_blocking.
DumpByte ==
    /\ command = "dump" /\ dump # << >> /\ Runs("command")
    /\ WriteByte(Head(dump)) /\ dump' = Tail(dump)
    /\ UNCHANGED <<backlog, logger, command, inserted>>

\* The ring is full: write_byte_blocking tries again.
DumpSpins ==
    /\ command = "dump" /\ dump # << >> /\ Runs("command") /\ ~ isr
    /\ FreeSpace = 0 /\ UNCHANGED svars

DumpEnd ==
    /\ TaskRuns /\ command = "dump" /\ dump = << >> /\ Runs("command")
    /\ command' = "sleep"
    /\ UNCHANGED <<vars, backlog, logger, dump, inserted>>

Hardware == (DmaTransfer \/ IrqEnter \/ IrqHandle) /\ UNCHANGED callers

StreamInit ==
    /\ Init
    /\ backlog = 0 /\ logger = "receive" /\ command = "sleep" /\ dump = << >> /\ inserted = 0

Dumps == UNION {[1 .. n -> DumpFrames] : n \in 0 .. MaxDump}

StreamNext ==
    \/ Produce \/ IoDone
    \/ (\E frame \in Frames : LoggerSends(frame)) \/ LoggerCountsDrop \/ LoggerAppends
    \/ CommandWakes \/ (\E frames \in Dumps : DumpStart(frames)) \/ DumpByte \/ DumpSpins \/ DumpEnd
    \/ Hardware

StreamSpec == StreamInit /\ [][StreamNext]_svars

\* The scheduler runs the ready task of highest priority, hardware runs by
\* itself, and a task holding the shared I/O lock gives it back.
StreamFairness ==
    /\ WF_svars(DmaTransfer /\ UNCHANGED callers)
    /\ SF_svars(IrqEnter /\ UNCHANGED callers) /\ WF_svars(IrqHandle /\ UNCHANGED callers)
    /\ WF_svars(\E frame \in Frames : LoggerSends(frame))
    /\ WF_svars(LoggerCountsDrop) /\ WF_svars(LoggerAppends) /\ WF_svars(IoDone)
    /\ WF_svars(DumpByte) /\ WF_svars(DumpEnd)

FairStreamSpec == StreamSpec /\ StreamFairness

-----------------------------------------------------------------------------
(* Properties.                                                             *)

\* Live frames go out whole ("Frame単位送信", UartDma.cpp): no byte of a dump
\* and no other frame comes between the bytes of one.  (In the instances a byte
\* identifies its frame and its place in it.)
LiveFramesWhole ==
    \A frame \in Frames, i \in 1 .. Len(Queued) :
        Queued[i] = frame[1] =>
            /\ i + Len(frame) - 1 <= Len(Queued)
            /\ SubSeq(Queued, i, i + Len(frame) - 1) = frame

\* No live frame gets between the bytes of a dump, although these are written one
\* by one with interrupts on: the priorities see to it that the queue is empty
\* when a dump starts and stays empty until it ends.
DumpNotInterleaved == command = "dump" => inserted = 0

\* Interrupts are off between two steps only while the logger is on its way from
\* the failed write_frame to incrementDropCount.
MaskedOnlyWhileDropping == masked => logger = "dropped"

\* A dump always comes to its end, also when it is longer than the ring.
DumpCompletes == command = "dump" ~> command = "sleep"
=============================================================================
