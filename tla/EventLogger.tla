----------------------------- MODULE EventLogger -----------------------------
(***************************************************************************)
(* The path of an event (EventLogger.cpp): a task takes a sequence number,  *)
(* puts the event in the queue, the logger task sends it over the UART and *)
(* appends it to the flash log.  The command task may pause and resume the *)
(* tasks, and erase the log, after which the numbers start again; a reset   *)
(* restores them from the log.                                             *)
(*                                                                         *)
(* The flash log is taken frame by frame: what the index and the dump make *)
(* of the order of the frames.  Its addresses, recycling and damage are the *)
(* subject of FlashLogStorage.                                             *)
(***************************************************************************)
EXTENDS Integers, Sequences, FiniteSets

CONSTANTS
    Producers,      \* the tasks that log, all of priority 1
    QueueLength,
    MaxEvents,      \* bound: events made in one behaviour
    MaxCrashes      \* bound: resets in one behaviour

ASSUME LoggerAssumption ==
    /\ IsFiniteSet(Producers)       \* main() creates them, before the scheduler starts
    /\ QueueLength \in Nat \ {0}
    /\ MaxEvents \in Nat /\ MaxCrashes \in Nat

VARIABLES
    paused,         \* g_log_paused
    late,           \* tasks that tested it before the command p and call log() after
    seq,            \* EventLogger::seq_
    taken,          \* the event a producer has made and not yet queued
    queue,
    logger,         \* "receive", "lock", or "io": in append(), waiting for I/O
    hand,           \* the event the logger is working on
    command,        \* "sleep", "lock", "erase" or "reset" (before setNextSeq)
    store,          \* the frames in flash in the order of the ring, and the index
    drop_count,
    tx_count,
    made,           \* events made so far; the age of an event is its number here
    counted_twice,  \* events sent live that the flash refused: in both counts
    booted,         \* events made before the last reset
    crashes,
    \* History, read by properties only:
    overtaken,      \* since the last clean restart of the numbers, an event was
                    \* queued before one made earlier
    raced,          \* the numbers restarted while events with old ones were around
    quiet_erase     \* the erase under way was given when logging was paused and over

tasks == <<paused, late, taken>>
stats == <<drop_count, tx_count, counted_twice>>
history == <<overtaken, raced, quiet_erase>>
vars == <<tasks, seq, queue, logger, hand, command, store, stats, made, booted,
          crashes, history>>

NoEvent == [seq |-> -1, age |-> 0, by |-> "none"]

-----------------------------------------------------------------------------
(* The flash log.                                                          *)

\* rebuildIndexFromFlash: the ends of the log by sequence number.
Rebuilt(frames) ==
    IF frames = << >> THEN [frames |-> frames, oldest |-> 1, newest_seq |-> 0]
    ELSE [frames |-> frames,
          oldest |-> CHOOSE i \in DOMAIN frames :
                        \A j \in DOMAIN frames : frames[i].seq <= frames[j].seq,
          newest_seq |-> (CHOOSE e \in {frames[i] : i \in DOMAIN frames} :
                        \A j \in DOMAIN frames : frames[j].seq <= e.seq).seq]

\* updateIndexAfterAppend: the newest frame is the one appended last.
Appended(event) ==
    [store EXCEPT !.frames = Append(store.frames, event), !.newest_seq = event.seq]

\* sendFramesOldestFirst: once round the ring from the oldest frame, until the
\* newest has been sent.
Dump ==
    LET n == Len(store.frames)
        round == [i \in 1 .. n |->
                    store.frames[((store.oldest + i - 2) % n) + 1]]
        stops == {i \in 1 .. n : round[i].seq = store.newest_seq}
    IN  IF stops = {} THEN round
        ELSE SubSeq(round, 1, CHOOSE i \in stops : \A j \in stops : i <= j)

-----------------------------------------------------------------------------
(* Scheduling: logger 3, command 2, producers 1, one core.                  *)

Up == logger # "off"
StorageTakenTwice == logger # "io" /\ command = "sleep"    \* for a mutant of StorageFree
StorageFree == logger # "io" /\ command # "erase"

LoggerReady == (logger = "receive" /\ queue # << >>) \/ (logger = "lock" /\ StorageFree)
\* While it erases, the command task sleeps in waitWhileBusy or waits for the
\* shared I/O lock.
CommandReady == command = "reset" \/ (command = "lock" /\ StorageFree)

ProducerRuns == Up /\ ~ LoggerReady /\ ~ CommandReady
CommandAfterLogger == Up /\ logger = "receive" /\ queue = << >>    \* for a mutant of CommandRuns
CommandRuns == Up /\ ~ LoggerReady

-----------------------------------------------------------------------------

LogUnchecked(p) == TRUE                 \* for a mutant of MayLog
\* A task tests isLogPaused() before it calls log(); until the flag changes, one that
\* has tested it is like one that has not.
MayLog(p) == ~ paused \/ p \in late

\* makeEvent: the number is taken in a critical section of its own.
MakeEvent(p) ==
    /\ ProducerRuns /\ MayLog(p) /\ taken[p] = NoEvent /\ made < MaxEvents
    /\ late' = late \ {p}
    /\ taken' = [taken EXCEPT ![p] = [seq |-> seq, age |-> made + 1, by |-> p]]
    /\ seq' = seq + 1 /\ made' = made + 1
    /\ UNCHANGED <<paused, queue, logger, hand, command, store, stats, booted, crashes,
                   history>>

SendToFront(event) == <<event>> \o queue        \* for a mutant of SendToQueue
SendToQueue(event) == Append(queue, event)

Pending == {p \in Producers : taken[p] # NoEvent}

\* The rest of log(): xQueueSend without waiting; a full queue drops the event.
LogEvent(p) ==
    /\ ProducerRuns /\ p \in Pending
    /\ taken' = [taken EXCEPT ![p] = NoEvent]
    /\ IF Len(queue) < QueueLength
       THEN /\ queue' = SendToQueue(taken[p])
            /\ overtaken' = (overtaken \/ \E q \in Pending : taken[q].age < taken[p].age)
            /\ UNCHANGED drop_count
       ELSE drop_count' = drop_count + 1 /\ UNCHANGED <<queue, overtaken>>
    /\ UNCHANGED <<paused, late, seq, logger, hand, command, store, tx_count,
                   counted_twice, made, booted, crashes, raced, quiet_erase>>

UncountedUartDrop == UNCHANGED drop_count       \* for a mutant of UartDrop
UartDrop == drop_count' = drop_count + 1

\* receive() and the UART half of sendBinary(); the ring of UartDma may be full.
SendFrame ==
    /\ logger = "receive" /\ queue # << >>
    /\ queue' = Tail(queue)
    /\ \/ logger' = "lock" /\ hand' = Head(queue) /\ UNCHANGED drop_count
       \/ UartDrop /\ UNCHANGED <<logger, hand>>
    /\ UNCHANGED <<tasks, seq, command, store, tx_count, counted_twice, made, booted,
                   crashes, history>>

\* append() gets the storage mutex and, maybe after a wait, its flash commands
\* done; a failure rebuilds the index.  Either way the event counts as sent.
AppendDone ==
    /\ \/ store' = Appended(hand) /\ UNCHANGED <<drop_count, counted_twice>>
       \/ /\ store' = Rebuilt(store.frames)
          /\ drop_count' = drop_count + 1 /\ counted_twice' = counted_twice + 1
    /\ tx_count' = tx_count + 1
    /\ logger' = "receive" /\ hand' = NoEvent
    /\ UNCHANGED <<tasks, seq, queue, command, made, booted, crashes, history>>

AppendFrame == logger = "lock" /\ StorageFree /\ AppendDone

AppendWaits ==
    /\ logger = "lock" /\ StorageFree /\ logger' = "io"
    /\ UNCHANGED <<tasks, seq, queue, hand, command, store, stats, made, booted, crashes,
                   history>>

AppendResumes == logger = "io" /\ ProducerRuns /\ AppendDone

-----------------------------------------------------------------------------
(* The command task.                                                       *)

\* The commands p, which may find tasks between their test and log(), and r.
Pause ==
    /\ command = "sleep" /\ ProducerRuns /\ ~ paused /\ paused' = TRUE
    /\ late' \in SUBSET (Producers \ Pending)
    /\ UNCHANGED <<taken, seq, queue, logger, hand, command, store, stats, made,
                   booted, crashes, history>>

Resume ==
    /\ command = "sleep" /\ ProducerRuns /\ paused /\ paused' = FALSE /\ late' = {}
    /\ UNCHANGED <<taken, seq, queue, logger, hand, command, store, stats, made,
                   booted, crashes, history>>

EventsUnderWay == Pending # {} \/ queue # << >> \/ hand # NoEvent

\* The command e.
EraseCommand ==
    /\ command = "sleep" /\ ProducerRuns /\ command' = "lock"
    /\ quiet_erase' = (paused /\ late = {} /\ ~ EventsUnderWay)
    /\ UNCHANGED <<tasks, seq, queue, logger, hand, store, stats, made, booted, crashes,
                   overtaken, raced>>

EraseStart ==
    /\ command = "lock" /\ CommandRuns /\ StorageFree /\ command' = "erase"
    /\ UNCHANGED <<tasks, seq, queue, logger, hand, store, stats, made, booted, crashes,
                   history>>

\* What an erase that fails leaves behind: the sectors before are erased, with
\* the first n frames, and the index still has their addresses, from where the
\* walk of a dump comes to the first frame left.
ErasedUpTo(n) ==
    [store EXCEPT !.frames = SubSeq(@, n + 1, Len(@)), !.oldest = IF @ > n THEN @ - n ELSE 1]

\* eraseLogArea returns and gives the mutex back: all is erased, or an erase
\* failed or did not get the shared I/O lock.
EraseEnd ==
    /\ command = "erase" /\ CommandRuns
    /\ \/ store' = Rebuilt(<< >>) /\ command' = "reset" /\ UNCHANGED quiet_erase
       \/ /\ \E n \in 0 .. Len(store.frames) : store' = ErasedUpTo(n)
          /\ command' = "sleep" /\ quiet_erase' = FALSE
    /\ UNCHANGED <<tasks, seq, queue, logger, hand, stats, made, booted, crashes,
                   overtaken, raced>>

\* The numbers restart: cleanly when no event has an old one.
SetNextSeq ==
    /\ command = "reset" /\ CommandRuns /\ command' = "sleep" /\ seq' = 0
    /\ raced' = (EventsUnderWay \/ store.frames # << >>)
    /\ overtaken' = (overtaken /\ raced') /\ quiet_erase' = FALSE
    /\ UNCHANGED <<tasks, queue, logger, hand, store, stats, made, booted, crashes>>

-----------------------------------------------------------------------------

Crash ==
    /\ Up /\ crashes < MaxCrashes /\ crashes' = crashes + 1
    /\ logger' = "off" /\ command' = "sleep" /\ hand' = NoEvent /\ queue' = << >>
    /\ paused' = TRUE /\ late' = {} /\ taken' = [p \in Producers |-> NoEvent]
    /\ seq' = 0 /\ drop_count' = 0 /\ tx_count' = 0 /\ counted_twice' = 0
    /\ booted' = made /\ quiet_erase' = FALSE
    /\ UNCHANGED <<store, made, overtaken, raced>>

BootFromZero == 0                       \* for a mutant of RestoredSeq
\* main(): numbering goes on after the newest frame found.
RestoredSeq == IF store.frames = << >> THEN 0 ELSE Rebuilt(store.frames).newest_seq + 1

Boot ==
    /\ logger = "off" /\ logger' = "receive"
    /\ store' = Rebuilt(store.frames) /\ seq' = RestoredSeq
    /\ UNCHANGED <<tasks, queue, hand, command, stats, made, booted, crashes, history>>

Init ==
    /\ paused = TRUE /\ late = {} /\ taken = [p \in Producers |-> NoEvent]
    /\ seq = 0 /\ queue = << >>
    /\ logger = "off" /\ hand = NoEvent /\ command = "sleep" /\ store = Rebuilt(<< >>)
    /\ drop_count = 0 /\ tx_count = 0 /\ made = 0 /\ counted_twice = 0
    /\ booted = 0 /\ crashes = 0
    /\ overtaken = FALSE /\ raced = FALSE /\ quiet_erase = FALSE

Logger == SendFrame \/ AppendFrame \/ AppendWaits

Next ==
    \/ \E p \in Producers : MakeEvent(p) \/ LogEvent(p)
    \/ Logger \/ AppendResumes
    \/ Pause \/ Resume \/ EraseCommand \/ EraseStart \/ EraseEnd \/ SetNextSeq
    \/ Crash \/ Boot

Spec == Init /\ [][Next]_vars

\* The task that is ready, of highest priority, gets to run, and every wait for I/O
\* ends (the shared I/O lock is given back or times out).
Fairness ==
    /\ WF_vars(Logger \/ AppendResumes \/ Boot)
    /\ WF_vars(EraseStart \/ EraseEnd \/ SetNextSeq)
FairSpec == Spec /\ Fairness

-----------------------------------------------------------------------------
(* Properties.                                                             *)

\* No event is lost uncounted: since the last reset every event made is on its
\* way, sent, or in the drop count, which also counts the events that were sent
\* but not stored (LOGGER_STATS reports these numbers).
EveryLossCounted ==
    Up => made - booted =
            Cardinality(Pending) + Len(queue) + (IF hand = NoEvent THEN 0 ELSE 1)
            + tx_count + (drop_count - counted_twice)

\* The events of one task reach the log in the order in which it made them.
ProducerOrderKept ==
    \A i, j \in DOMAIN store.frames :
        i < j /\ store.frames[i].by = store.frames[j].by =>
            store.frames[i].age < store.frames[j].age

\* "send all frames oldest-first" (printHelp): every stored event is sent, none
\* before an event made earlier.
DumpAlwaysOldestFirst ==
    Up /\ command # "erase" =>
        /\ Len(Dump) = Len(store.frames)
        /\ \A i, j \in DOMAIN Dump : i < j => Dump[i].age < Dump[j].age

\* Across drops, failed appends, erases (also failed ones) and resets the dump is
\* complete and in order; only two races can spoil it: a task switched out between
\* nextSeq and xQueueSend is overtaken, or setNextSeq(0) meets events numbered before.
DumpOldestFirst == ~ overtaken /\ ~ raced => DumpAlwaysOldestFirst

\* No two stored events have the same number, also across resets, unless the numbers
\* restarted while there were old ones: on this the index (newest, oldest) and the
\* gap statistics of the viewer rest.
StoredSeqsDistinct ==
    ~ raced =>
        \A i, j \in DOMAIN store.frames : store.frames[i].seq = store.frames[j].seq => i = j

\* An operator who pauses, waits until the last event is stored, and then erases
\* does not run into that race: the log stays empty and nothing is under way when
\* the numbers restart, since a paused task makes no more events.
PausedEraseIsClean ==
    quiet_erase => ~ EventsUnderWay /\ (command = "reset" => store.frames = << >>)

\* The logger is never stuck with an event: it gets the storage mutex, whoever
\* holds it, and comes back to its queue.
LoggerComesBack == logger # "receive" ~> logger = "receive"

\* An erase command ends, even while events keep the logger busy.
EraseEnds == command = "erase" ~> command = "sleep"
=============================================================================
