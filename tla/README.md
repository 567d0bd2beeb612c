# PicoSensorLogger in TLA+

Specifications, model-checking configurations and machine-checked proofs for the
firmware in `src/` (a FreeRTOS sensor logger for the Raspberry Pi Pico) and for
the viewer on the other end of its serial line, `debug/logger_viewer.py`.
Paths and line numbers below are those of the repository.

Contents: [the system](#1-the-system), [modules](#2-modules-and-code),
[runs](#3-model-checking-runs), [fairness](#4-fairness),
[proofs](#5-proofs), [divergences found](#6-where-code-and-documentation-part),
[limits](#7-what-is-not-modelled-or-not-shown), [plan](#8-plan),
[how to run it](#9-running-the-checks).

## 1. The system

One core runs six tasks with fixed priorities.

| task | priority | does |
| --- | --- | --- |
| logger | 3 | takes events from a queue of 32, sends each over the UART, appends it to flash |
| command | 2 | reads lines from USB stdio: dump the log, erase it, pause, status |
| temperature | 1 | every second: ADT7410 reading, log line, LCD; looks at the mailbox of the button |
| environment | 1 | every five seconds (or its configured period): BME280 reading, log line |
| adc | 1 | ADC value and its moving average, log line |
| button | 1 | polls and debounces the button, writes the mailbox |

An event takes this path: `EventLogger::logf` (any task) -> `makeEvent` takes a
sequence number -> `xQueueSend` without waiting -> logger task -> `sendBinary`:
first the frame goes to the transmit ring of `UartDma`, then `FlashLogStorage::append`
writes it. On the other side `logger_viewer.py` finds the frames in the bytes. The
UART carries frames only; the text of `printf` goes over USB.

### Components, their state and what makes them correct

* **Flash log storage** (`FlashLogStorage.cpp`, `FlashDriver.cpp`). State: 1 MB of
  NOR flash in sectors of 4096 bytes and pages of 256, used as a ring of frames; in
  RAM an index (write address, oldest, newest, newest number, count) that is rebuilt
  by a full scan at boot and after a failed append. Operations: `init`, `append`,
  `eraseLogArea`, `sendFramesOldestFirst`, `sendLatestFrames`. Guarded by a recursive
  mutex, with the shared I/O lock around every single flash command.
  *Hard:* a command may fail or a reset may come between or in the middle of any two
  flash commands; the index is maintained incrementally and must agree with a scan;
  positions and numbers both wrap round.
  *Correct when:* no stored frame is lost but to an erase of its sector, the index
  describes the flash, dumps are complete and in order, and the log is a sequence
  that only grows at one end and is recycled at the other. All but the second of these
  need frames that come in the order of their numbers, which the event logger does not
  guarantee.
* **UART driver** (`UartDma.cpp`). State: transmit ring with head and tail, the DMA
  chunk under way, the interrupt. *Hard:* the channel and its interrupt run beside the
  tasks; `write_frame` returns with interrupts off when the ring is full.
  *Correct when:* it is a FIFO of bytes that accepts frames as a whole, and the line
  never stalls while bytes wait.
* **Event logger** (`EventLogger.cpp`). State: next number, queue, drop and transmit
  counts. *Hard:* number and queue position are taken in two steps; events may be lost
  in three places; a task may be overtaken between the two; the erase command restarts the numbers while events are under way;
  a reset restores them from the log. *Correct when:* every loss is counted, the order
  of events survives, numbers identify events.
* **Command task** (`task_command.cpp`). State: the line buffer, the pause flag. *Hard:*
  dumps share the transmit ring with live frames; it holds the storage mutex for as long as
  a dump or erase takes; tasks see the pause flag late; the buffer is never cleared.
  *Correct when:* the command run is the one typed, dumps are not mixed with live frames and
  come to an end, and nobody waits for ever.
* **Shared I/O lock and maintenance flag** (`FlashBusy.cpp`, the mutexes of `main.cpp`).
  One mutex with a timeout of 1000 ms keeps I2C transactions apart from each other and from
  erases and programs (reads of the flash do not take it); `g_flash_maintenance_busy` asks sensor tasks to pause during an erase.
  *Hard:* timeouts, retries, failures on every path, priorities. *Correct when:* no
  erase or program meets an I2C transaction or a flash read, flash commands do not fail
  for want of the lock, an erase is not interrupted by a sensor, and sensors are not starved.
* **Temperature, environment and ADC tasks** with the drivers `AEADT7410.cpp`,
  `BME280.cpp`, `AQM0802.cpp`. *Hard:* a sensor may vanish and return at any moment.
  *Correct when:* readings resume, a lock once taken is always given back, what is
  published as a value was measured (BME280) or is the mean of the last samples (ADC), and
  the LCD, whose bytes may fail one by one, shows one whole page.
* **Button and display mode** (`ButtonTask.cpp`, mailbox of one `DisplayMode`).
  *Hard:* bouncing contacts; a mailbox that is overwritten. *Correct when:* a press is
  one step and the display ends in the mode selected last.
* **Log viewer** (`debug/logger_viewer.py`). State: position within a frame, statistics
  of sequence numbers. *Hard:* it never rewinds, so a damaged length swallows what
  follows; dumps replay old numbers. *Correct when:* on a clean line every frame is found and the statistics
  mean what they seem to, and damage costs a bounded number of frames.
* **CRC-32** (`Crc32.cpp`). A loop of shifts that must give what the viewer gets from
  `binascii.crc32`.
* **Startup, LED, kernel hooks, heap report, plot script, event identifiers.**
  Data, constants or terminal output, not modelled or only as an initial state
  ([section 7](#7-what-is-not-modelled-or-not-shown)).

### How they interact

Calls run from tasks into `EventLogger`, from the logger task into `UartDma` and
`FlashLogStorage`, from the command task into the same two. Shared state: the event
queue, the transmit ring (critical sections with interrupts off), the storage index
(storage mutex), the wires (shared I/O mutex, but for flash reads), the maintenance flag (a volatile bool), the
mailbox. The order of locks is storage mutex, then shared I/O lock; sensor
tasks take only the latter. The only callback is the DMA completion interrupt.
`PROJECT.json` lists the hazards line by line with the properties that cover them.

## 2. Modules and code

| module | models | extends |
| --- | --- | --- |
| `FlashDriver` | the NOR array: erase, program, and what a failed or interrupted command leaves behind | |
| `FlashLogStorage` | `append`, `eraseLogArea`, boot scan, index, resets, step by flash command | `FlashDriver` |
| `FlashLogDump` | the walks of the commands `a` and `lN`, and the order they must produce | `FlashLogStorage` |
| `EventLog` | *abstract:* a log that grows at its end and is recycled at its start | |
| `UartDma` | transmit ring, DMA chunks, completion interrupt, `write_frame`, `write_byte` | |
| `ByteFifo` | *abstract:* a bounded FIFO of bytes that accepts frames whole | |
| `LogStream` | logger task and command task on one ring, by priority | `UartDma` |
| `EventLogger` | numbering, queue, counts, pause, resume and erase commands, restore after reset | |
| `SharedIo` | both mutexes, the flag, the tasks that use the wires, time in ticks | |
| `ModeButton` | the button, its contacts, `button_task` and the mailbox | |
| `Aqm0802` | the LCD and its driver: init, clear, lines whose bytes may fail | |
| `DisplayControl` | `temperature_task` as the one that reads the mailbox and writes the pages | `ModeButton`, `Aqm0802` |
| `CommandLine` | the line editor of `command_task`, the choice of the command, `parseLatestCount` | |
| `MovingAverage` | ring and running sum of `utility.h`, the latest value of `adc_task` | |
| `Crc32` | the CRC of `Crc32.cpp` on sets of bits | |
| `Bme280` | the chip, its init at boot, `environment_task` and the values it publishes | |
| `LogViewer` | framing, resynchronisation and statistics of the viewer, with the line | |
| `MCLogStream`, `MCLogViewer`, `MCDisplay` | frames, payloads and pages of the runs | the module named |
| `MCUnits` | runs `CommandLine`, `MovingAverage`, `Crc32`, `Bme280`, `ModeButton`, one at a time | all five |
| `FlashLogStorageProofs`, `EventLoggerProofs`, `SharedIoProofs`, `LogViewerProofs` | theorems | the module named |
| `FlashLogDumpProofs` | theorems about the dumps and the refinement of `EventLog` | `FlashLogDump`, `FlashLogStorageProofs` |
| `LogStreamProofs` | theorems about the driver and the two tasks on it | `LogStream` |
| `DisplayProofs` | theorems about the button and the screen | `DisplayControl` |
| `UnitProofs` | theorems about the line editor, the average, the BME280 and the CRC | `CommandLine`, `MovingAverage`, `Bme280`, `Crc32` |

Definitions keep the names of the code where there is one (`append` is split into
the actions `AppendStart`, `EraseSector`, `ProgramChunk`, `Commit`, `AppendFails`,
one for each flash command it issues). The `map` in `PROJECT.json` gives the source
lines of every definition. Operators marked *for a mutant of* are plausible wrong
versions of their neighbour; nothing uses them but the mutation tests, in which each
property must fail when its definition is exchanged.

**The flash.** A cell is `Erased`, `Junk`, or byte number `off` of the frame
`<<seq, len>>`. Programming a cell that is not erased makes it `Junk` (NOR flash only
clears bits). An interrupted or failed command leaves any subset of its cells changed,
either to its goal or to `Junk`; the rest of a frame that lost a cell is `Junk` as
well, since its CRC can no longer fit. The CRC is thus abstracted by identity: a frame
is intact exactly when all its cells belong together (`DamageIsNoticed` of `Crc32` is the
part of this that is a fact, and proved: damage within four bytes in a row always shows). `append` and `eraseLogArea` hold
the storage mutex throughout, so one runs at a time and `pc` says which flash command
comes next.

**The numbers that reach the storage.** `append` takes a frame whatever its number. A task takes
a number in `makeEvent` and queues the event afterwards, so the logger hands over numbers with gaps
(`AppendFresh`: those passed over are lost, or still on their way, in `late`) and numbers that were
overtaken (`AppendLate`). After `eraseLogArea` has returned (`restart`) events with old numbers may be
appended before `SetNextSeq`, and later too. `disordered` is a history: a frame was handed over
behind one that is not older, and the log has not been erased since. The one assumption on
numbers is `InOneHalf`, a guard of `AppendStart`: those stored and the one handed over lie within
2^31 of each other, as `isSeqNewer` needs. Order of numbers is not assumed. What depends on it says so:
`IndexMatchesFlash` (which frame is the oldest, which the newest), `DumpSendsAllOldestFirst`,
`DumpSendsLatest`, `FramesLostOnlyToErase` and `OneScarCostsOneEvent` hold while `disordered` is
false; `IndexDescribesFlash` and the type invariant hold always. The exception is a
real one: without the condition TLC finds, with one late number and one fault, numbers 0, 2 and 1 stored in
this order, the index rebuilt, and a dump that ends at number 2 and never sends 1. It is the race that
`EventLogger` calls `overtaken` (and, after an erase, `raced`, the run `erase_race`).

**The refinement `ImplementsEventLog`.** `log` is the sequence of numbers of the intact
frames ordered by age, `clearing` is `pc = "wipe"`, `in_order` is `~ disordered`. Every step is one of: an event is
recorded (newer than the newest), frames of one sector go from the old end (completely,
or in part when an erase is torn), anything goes while `eraseLogArea` runs, or nothing.
An event handed over behind one that is not older ends the promise (`LoseOrder`): the abstract log is
empty until the log has been erased, and is filled again from there.
**The refinement `ImplementsFifo`.** `queue` is the ring between the bytes that left and
the head, counted from the DMA position rather than from `tx_tail_`; `out` is the byte
last on the wire. A frame accepted is one `Put`, a DMA transfer one `Get`, all else
stutters.

**Scheduling.** On one core with fixed priorities a task runs only when no task of higher
priority is ready. `LogStream`, `EventLogger` and `SharedIo` say so in their guards
(`Runs`, `CommandRuns`, `MayRun`): much of what is shown depends on it, and mutants that
level the priorities break those properties. Preemption at any step by a task of equal or
higher priority is included. `LogStream` lets the lower-priority tasks act as one
`"producer"`.

**Time.** `SharedIo` counts ticks and lets one pass only when no task has anything to do;
waits and uses of the wires carry the number of ticks left. `ModeButton` counts polls
of the button (10 ms). The other modules have no time; a timeout is a choice there.
In `SharedIo` the many I2C transactions of one display update count as one: each
takes and gives back the lock in the same way, and a failed one only ends the update.
A flash read has no lock: a task that reads (`"spin"`) keeps the CPU for up to `ReadTicks` in
`append` and `DumpTicks` in a dump, also in the middle of an I2C transaction of a sensor task, which
may then fail although the sensor is there (`Outcomes`).
What a failed one leaves on the screen is the subject of `Aqm0802`, which takes a line as
one step that may break off at any byte: nobody else writes to the LCD.

**The LCD.** A character on the screen is the page and line it belongs to, or a blank; the
texts differ in length from page to page, so that an unpadded line would show. A page is one
of the modes, the start page or the page of a missing sensor. While the LCD does not
acknowledge, a byte may be shown all the same or not; it keeps its power. `temperature_task` begins no
round while the maintenance flag is up, which in `DisplayControl` may change at any time.

**The viewer.** `TakeNumber` gives out a number; `SendLive` sends any number given out and not yet sent,
as the queue decides, so that frames are overtaken or never come; `RestartNumbers` is the command `e`, after which old
numbers may still be sent. The viewer reads one cell at a time.

**The pause flag.** A task tests `isLogPaused()` and calls `log` later. In `EventLogger` the
command `p` picks the tasks that are between the two (`late`), which may still make one
event each.

**The BME280.** Of a value only its origin is kept: computed with the chip's calibration or
without, and which of the three quantities the chip had measured. The registers are those that
`configureNormalMode` writes; `ctrl_hum` takes effect with the next write of `ctrl_meas`.

## 3. Model-checking runs

Twelve runs; nine pass, three find the code in disagreement with what a document or
comment says. Sizes are distinct states; the longest runs take about three
minutes with two workers.

### Storage

* `storage_faults` (747 thousand states). Frames in the order of their numbers (`MaxLate = 0`).
  Three sectors of five cells, each one page, frames of two and four cells, so that a sector holds
  one frame or two and has unused cells at its end, and the next frame may fit there or not; three
  sectors are the least with an oldest, a newest and a middle one. One failed command or one reset
  anywhere, torn in every way: any cells of the frame may be bad, also some behind a first that is
  still erased. `IndexMatchesFlash`, `DumpSendsAllOldestFirst`, `DumpSendsLatest`,
  `FramesLostOnlyToErase`, `OneScarCostsOneEvent` and the type invariant hold. Numbers wrap at 14,
  the least for seven frames at a time. For more faults than one, and for frames that end before, at
  and behind page ends, see the theorems of section 5. (No frames fill five
  cells exactly: that case is the run `dump_after_exact_fill` below.)
* `storage_refines` (2.9 million). Gaps in the numbers (events lost before they reach the storage).
  One number at a time may be overtaken and come later, and one append may fall between an erase and
  the restart of the numbers; one fault anywhere. `IndexDescribesFlash` holds in every order,
  `ImplementsEventLog` with its condition. Two sectors of five cells, of which a frame takes two,
  are the least in which a wrapped ring can be out of order. The numbers wrap at 10, for four frames
  whose numbers are up to two apart, and a page is one cell, so that every frame crosses a page end.
  The properties that need the order are in `storage_faults`; one late number is the least that breaks
  it.
* `dump_after_exact_fill`, `busy_after_failed_erase`:
  [section 6](#6-where-code-and-documentation-part).

One fault is enough to meet each failure path in each state the normal operations
reach; the proofs below cover any number of faults for what they prove.

### Line

* `log_stream` (107 thousand). Ring of eight bytes, chunks of at most three, live frames of
  three and five, dumps of up to four stored frames. Each byte identifies its frame and its
  place. The wrap, a full ring, chunks cut by their limit and by the end of the buffer, drops
  and dumps longer than the ring all occur. `ChunkInFlight`, `ImplementsFifo` (driver);
  `LiveFramesWhole`, `DumpNotInterleaved`, `MaskedOnlyWhileDropping` (safety of the two
  tasks together); `LineNeverStalls`, `DumpCompletes` (liveness).

### Events

* `logger_pipeline` (2.3 million). Two producers, a queue of two, four events, pause, resume
  and erase commands that succeed or fail anywhere, a reset, drops at queue, UART and flash.
  Four events are two more than the queue holds. `EveryLossCounted`, `ProducerOrderKept`,
  `LoggerComesBack`, `EraseEnds`; and, all of this together, `DumpOldestFirst` and
  `StoredSeqsDistinct`, each but for races that the model names: `overtaken` (a task
  switched out between `nextSeq` and `xQueueSend`, so that number order and ring order
  differ; no document excludes it, and the viewer counts such frames both as a gap and as late) and `raced`
  (the numbers restart while an event with an old one is around, the subject of `erase_race`).
  Both are histories that only properties read, and a clean restart of the numbers ends both.
  `PausedEraseIsClean` says how an operator avoids the second: pause, let the last event
  be stored, erase.
* `erase_race`: [section 6](#6-where-code-and-documentation-part).

### Wires and tasks

* `shared_io` (3.7 million). A tick is 333 ms: the lock times out after three, an I2C
  transaction (10 ms for ADT7410 and LCD, twice 50 ms for BME280) lasts at most one, a flash
  command (500 ms) two, a dump up to four, a read of `append` (rebuild of the whole log included) up to one. Flash commands
  fail, sensors come and go, the log is erased or dumped. `NoOverlap`: an erase or a program overlaps
  with nothing, and the only overlap is a flash read within an I2C transaction; `FlashNeverTimesOut`, `EraseKeepsTheBus`.
* `sensor_recovery` (805 thousand). A tick is 500 ms, flash commands succeed, erase
  commands, adc task running, and no time for flash reads (`ReadTicks` and `DumpTicks` 0: no deadline of a
  connected sensor is missed because of them, which the recovery needs): `SensorsGetTheBus`, `SensorRecovers`. What bounds a sensor's wait
  is that two sector erases are never close to each other: `SectorRoom` frames lie between
  them, and only `MaxBacklog` plus the events of one lock wait can be appended before the
  logger rests. With `SectorRoom = 1` the property fails, so the bound of 2 is tight for a
  backlog of one. In the code a sector takes at least 49 frames (82 bytes each) against a
  queue of 32 and about seven events a lock wait, a wider margin.
* `display` (2.6 million). Button, mailbox, temperature task and LCD together; the sensor,
  the acknowledgements of the LCD and the maintenance flag come and go without a bound. The two
  eventualities have the condition that the flag stays down in the end (`<>[]~ busy`): after a failed
  `eraseLogArea` it does not, and the task never looks at the mailbox or the sensor again. Two presses are the least
  with which a mode is overwritten unseen; three modes, lines of two characters. The
  contacts do not bounce here, which `units` covers. `ScreenIsOnePage`,
  `DisplayFollowsButton`, `MissingSensorShown`.

### Units

* `units` (1.2 million). The parts that run by themselves, one at a time; the initial state
  chooses which.
  * Line editor: a buffer of five, seven keys out of two letters, two digits, blank, NUL,
    backspace and Enter, so that lines are edited, run, too long, and shorter than the one
    before. `MaxLatest` is 50 and `ULONG_MAX` 500, so that three digits pass the first and
    four the second. `TypeOK` (the terminator has a place), `RunsWhatWasTyped`,
    `LatestMeansN`.
  * Average: a ring of three, eight samples, so that it goes round twice: `PublishedIsMean`.
  * CRC: all messages of up to five bytes out of 0x00, 0xA5, 0xFF, and beside each every other
    message of that length. `CrcIsRemainder` compares the loop with the division of polynomials
    that defines CRC-32. (`DamageIsNoticed`, that two messages that differ within four bytes in a
    row have different CRCs, is proved, and not a property of this run.)
  * BME280: up to one loss of power and any number of failed accesses, at every access of
    `init()` and in every round: `PublishedIsMeasured`.
  * Button: seven modes, a debounce of five polls, bounces as long as that, seven presses (so
    that the modes wrap): `OneStepPerPress`.

### Viewer

* `viewer` (28 million). The magic occurs in a payload and its second byte in checksums; events are
  dropped and overtaken, stored frames are sent again, the numbers restart, and two bytes anywhere
  are lost or changed. Three numbers and three frames are the least for a gap and a late frame at
  once. `StatsMatchFirmware` is about a line without damage: every frame is found and none is called
  bad; and, until the numbers restart, a gap is an event dropped *or overtaken*, and a late or
  double frame one of a dump *or overtaken*. An overtaken event is thus counted twice, as missing
  and as late, although nothing was lost. Of the counts after a restart nothing is claimed.
  `DamageCostsFew` is about a line with damage, when the magic occurs at the start of frames only
  (elsewhere a reader that never rewinds may take it for a start). "At the start only" is
  `NoMagicInside`: neither byte of the magic is a length or in a payload; the firmware's lengths are
  at most 64, and the magic is 0xA5, 0x5A. The number in front and the checksum behind may be any
  bytes. `FramesPerDamage` counts what one damaged byte can swallow at most: its own frame, and
  `MaxByte` bytes of payload with a checksum behind them, in frames of at least five cells. Two
  damages are the least with one during the recovery from another.

`CHECK_DEADLOCK FALSE` stands in the runs of `EventLogger`, `LogViewer` and `MCUnits`: their
bounds on events, damage, keys, samples and bytes end every behaviour.

Bounds in guards: `MaxGap`, `MaxLate`, `MaxFaults` (storage), `MaxDump`, `MaxBacklog` (line),
`MaxEvents`, `MaxCrashes` (events), `SectorRoom`, `MaxBacklog`, `DumpTicks`, `ReadTicks`,
`MaxUnplugs` (wires), `MaxPresses` (button), `MaxKeys`, `MaxSamples`, `MaxLen`, `MaxPowerLosses` (units), `MaxSeq`, `MaxDamage`, `MaxSent`, `MaxByte` (viewer).

## 4. Fairness

Only what the hardware or the kernel guarantees is assumed.

| module | assumed | because |
| --- | --- | --- |
| `UartDma`, `LogStream` | weak fairness of `DmaTransfer` and `IrqHandle` | the channel is paced by the UART, without flow control; nothing preempts the handler |
| | strong fairness of `IrqEnter` | the flag is latched: it is taken whenever interrupts are on, and critical sections turn them on again and again |
| | weak fairness of each action of the logger, of `DumpByte` and `DumpEnd` | the ready task of highest priority runs; the guard `Runs` turns their readiness into a statement about priority |
| | weak fairness of `IoDone` | a task that holds the shared I/O lock gives it back: its transactions have timeouts |
| `EventLogger` | weak fairness of logger and boot steps together, and of the erase steps together | the ready task of highest priority runs, and waits for I/O end |
| `SharedIo` | weak fairness of `Next` without operator, plugs and starts of rounds | time passes and ready tasks run |
| | strong fairness of `SensorBegins` | delays end, and a task that is ready often is scheduled |
| `DisplayControl` | weak fairness of clock and button task together, and of the temperature task | time passes, and both tasks run once their delays end; under maintenance the latter has no step |

Nobody has to press, type, connect or disconnect anything, no command has to fail or succeed,
no event has to be logged.

## 5. Proofs

All theorems hold for every value of the constants that satisfies the named assumptions
in the modules: `ConfigAssumption` (the conditions `FlashLogStorage::isConfigValid` tests) and
the assumption each module states on its own constants; further hypotheses are named below.

* **`FlashLogStorageProofs`**: `TypeCorrect` (`Spec => []TypeOK`) and `IndexDescribes`
  (`Spec => []IndexDescribesFlash`) for every layout, any number of faults and frames handed over in any
  order; `FramesAreKept` (`Spec => FramesLostOnlyToErase`) while they are in the order of their numbers.
  What holds in any order is `TInv` (where the cells of frames lie, and that the numbers are comparable) and
  `PointInv` (what the index counts and points to at each place of an operation). All else is an
  invariant of the form `~ disordered => ...`.
  That a frame is lost only to an erase means that `append` never programs
  over an intact one, which rests on the write position, which rests on the scan.
  The invariant of ordered frames, `IInv`, is therefore
  `TypeOK /\ FlashInv /\ AppendInv /\ WriteInv`:
  `FlashInv` says that the cells of a frame lie in one sector, that within a sector frames
  are ordered by age, and that all numbers lie in one half of the sequence space;
  `WriteInv` that nothing intact lies behind the write position in its sector;
  `AppendInv` the same for the frame being written. The hard step is a rebuild: the newest
  frame found by the scan is the last of its sector (by the order within sectors), and so
  the position behind it is free. A type invariant alone is not inductive:
  the branch "append crosses log end" is dead only because a frame starts where it fits
  its sector, an arithmetical fact about `%` that the first lemmas establish.
  `IndexIsTrue` (`Spec /\ NoSectorSkipped => []IndexMatchesFlash`) needs more than order within
  a sector: `RingIndexInv` adds `OrderInv`, the frames are in the order of age round the whole
  ring from a cut that moves with the write position, the append or the erase under way;
  `IndexInv`, what the index describes at each place of an operation (after `append` has
  invalidated a sector, the frames outside it, although they are still in flash);
  and `NewestInv`, nothing in the flash is newer than the frame being written. It is proved per action:
  an invalidated sector takes away the oldest frames (`InvalidateIsTrue`), a new frame is
  the newest and stands last (`RingGrows`), a wipe takes them from the start, and a
  rebuild finds what the index said (`RebuildIsTrue`). The hypothesis `NoSectorSkipped`, no
  rebuild skips a sector behind a newest frame that fills its own, cannot be dropped:
  a rebuild that does so is the divergence of `dump_after_exact_fill` (section 6).
  `IndexIsTrueUnfilled` replaces it by one on the constants, `NoFramesFillASector`: there
  is a set of places in a sector, closed under adding a frame, that does not reach its end
  (`NothingSkipped`). Both have the other condition in the property: the ends of the index are the
  oldest and the newest frame only while the frames are in order. The sizes 3 and 6 in sectors of 8 of the runs satisfy it.
  `ScarsCostOneEvent` (`Spec /\ []BusyImpliesMaintenance => OneScarCostsOneEvent`), for any number
  of faults: `ScarInv` says that a frame is appended either right behind the newest one in flash or
  at the start of a sector erased for it. In the second case nothing can spoil it; in the
  first a spoiled frame leaves a dirty first byte where the rebuilt index would write, so that it
  moves on to the next sector. The property is about frames in order, and the hypothesis is that no `eraseLogArea` has failed: a failed
  one leaves a write position that is not behind the newest frame (`busy_after_failed_erase`,
  section 6), and TLC, given two faults, finds a scar that costs two events: a torn program, then a
  torn erase of the sector with the newest frame.
* **`FlashLogDumpProofs`**: `DumpIsInOrder` (`Spec /\ NoSectorSkipped => []DumpSendsAllOldestFirst`) and
  `LatestAreNewest` (`... => []DumpSendsLatest`). The reference order, by age, takes the newest frame off
  again and again; it exists and is the only one (`InAge`), because the numbers lie in one half
  of the sequence space. The walk is a recursive function over the cells scanned; its equation is
  solved by an explicit sequence, the frames met from the start to the newest, so that what
  remains is that going round the ring from the oldest frame meets the frames by age and the newest
  one last. That is `OrderInv` and `IndexMatchesFlash`, proved before. All of it is on the condition of
  order that the properties state.
  `StorageIsAnEventLog` (`Spec /\ NoSectorSkipped => ImplementsEventLog`), action by action on two images
  of the flash: an append that completes a frame is a `Record`, a sector erased for it, whole or
  torn, an `Evict` of frames that are older than all others and no more than a sector holds,
  a step of `eraseLogArea` a `Clear`, and all else (programming the first pages of a frame, the index, a reset)
  leaves the log as it is; an append out of order is a `LoseOrder`, and the last step of an erase restores the promise. `DumpIsInOrderUnfilled` and `StorageIsAnEventLogUnfilled` have
  `NoFramesFillASector` instead of `NoSectorSkipped`. `PartOf` of `EventLog` says "in the same order"
  of any two entries, which is easier to reason about than a filtered sequence and means the
  same when no entry occurs twice.
* **`LogStreamProofs`**, first about `UartDma` alone: `ChunkStaysInRing` (`Spec => []ChunkInFlight`),
  `RingIsTyped` (`Spec => []TypeOK`) and `DriverIsFifo`
  (`Spec => ImplementsFifo`), for every ring size, chunk limit and set of frames.
  `RingInv == TypeOK /\ ChunkInFlight` is inductive; the refinement goes action by action:
  accepting is a `Put` (`AcceptPuts`), a transfer a `Get` (`TransferGets`), and the handler
  moves tail and chunk together, so that the abstract queue does not change
  (`HandlerKeepsQueue`).
  Then about the tasks: `DumpsStayWhole` and `MaskIsTransient` from `PriorityInv`: while a dump
  is under way the logger waits on an empty queue, and since the command task is ready until
  the dump ends, no task below it can add an event. `StreamIsFifo`
  (`StreamSpec => ImplementsFifo`): each step of the two tasks is one of the driver, because a
  dump consists of bytes (`DumpInv`), so that `DriverIsFifo` holds for both together.
  `FramesStayWhole` (`LiveFramesWhole`) has a hypothesis, `FirstBytesTell`: the first byte of a live
  frame occurs nowhere else in what is sent. That is how the model tells bytes apart, a
  tag that names the frame and the place; without it the property could not be read off the
  ring. `StreamInv` says that the bytes queued are a rest of one frame followed by whole
  frames and bytes of dumps, and the proof follows what a `Put` adds and a transfer takes.
  What a concatenation of frames holds is shown by minimal counterexample (below).
* **`EventLoggerProofs`**: `LossesCounted`, `OrderOfTasksKept`, `NumbersDistinct`, `DumpInOrder`
  and `QuietEraseClean`, that is all safety properties of the event path, for any finite set
  of producers, queue length, number of events and resets. One inductive invariant serves all
  (`LoggerSafe`), because each needs the others:
  `CountInv` is the balance of events made, under way, sent and dropped; `WayInv` sees flash, hand,
  queue and tasks as one way on which an event only moves forward, and relates any two
  events on it by `Order`: those of one task by age, and all by number as long as neither
  race has happened. Order in the flash alone is not inductive: whether the next frame fits depends
  on what the logger holds, that on the queue, and that on what tasks hold before
  `xQueueSend`. `MadeInv` closes it with the counter `seq` above all; `TasksInv` with the
  numbers not yet queued; `IndexInv` with what the boot scan will find; `QuietInv` with
  the operator's pause, under which nothing moves. The histories `overtaken` and `raced` are
  hypotheses of the same properties that the runs check, no more is assumed.
* **`SharedIoProofs`**: `WiresExclusive` (`[]NoOverlap`) from `LockInv`: erases and programs are kept from
  I2C transactions by `shared_io_mutex` and from flash reads by the storage mutex, so that both are needed;
  no theorem says that reads keep away from I2C, which they do not. And
  `FlashWaitsEnd` (`[]FlashNeverTimesOut`) with `WaitInv`, for every configuration in which
  `I2cTicks < LockTimeout`. `WaitInv` bounds what a writer has waited plus what it still must wait
  by the length of one transaction; it needs that the wires are not left free while someone
  waits for them when a tick passes (`NoTickOnFreeWires`). `EraseIsNotInterrupted`
  (`[]EraseKeepsTheBus`) holds for every value of the constants: between two sectors the lock goes to
  the logger or back to the command task, which asks for it again in the step in which it gave it
  back.
* **`DisplayProofs`**: `PressIsOneStep` (`ButtonSpec => []OneStepPerPress`) if
  `Bounce <= DEBOUNCE`. The hypothesis is sharp: with contacts that bounce one poll longer TLC finds
  a press counted twice. `ButtonInv` relates what is left of the bouncing to what is left of the
  task's delay, for each place where `button_task` can be while the finger is up or down.
  `OnePage` (`[]ScreenIsOnePage`) for every width, number of modes and texts, through any failure of
  LCD and sensor. `PageInv` adds what the screen holds in the middle of a page: the first line is
  complete unless one of its bytes failed. The round of a lost sensor, which starts from a blank
  screen, and the texts shorter than a line are why a page leaves nothing of another.
* **`UnitProofs`**: `AverageIsMean` for every window and any samples: the running sum is the sum of
  the ring (`RingInv`), so that it does not drift. `ValuesAreMeasured` for any number of failed
  accesses at boot and afterwards: its invariant states which registers are written at each access
  of `init()`. `BufferIsRespected` and `CommandIsTyped` for any buffer and any keys: `EditInv` says
  that the buffer up to the cursor is what a terminal shows of the keys, and the keys that
  found the buffer full are left out of both. The assumption is that backspace is no character
  (`"BS"` is not among the letters, digits and others that can be stored).
  `LatestCountIsTyped` (`CommandLineSpec => []LatestMeansN`): a line that is `l`, blanks or none, and the
  numeral of N with any leading zeros gives N or the cap, although `strtoul` saturates on the
  way; nothing typed before is in it, by `CommandIsTyped`.
  `CrcIsCrc32` (`CrcSpec => []CrcIsRemainder`) for messages of any length: dividing is linear, one byte more
  shifts the dividend by eight, and eight steps of the loop are eight steps of the division (`Step`
  is the same subtraction with the bits reversed). `DamageShows` (`CrcSpec => []DamageIsNoticed`), also for any
  length: when k of the four bytes are in, two messages that differ show it in the highest 8k bits of their words
  (`DamageInv`). The proof runs the loop backwards: it is linear (`StepLinear`), and words that differ
  in low bits only after a byte differed eight bits higher before (`AddByteBack`). Damage further apart a CRC
  of 32 bits cannot always notice;
  nothing is stated of it.
* **`LogViewerProofs`**: `StatsAreTrue` (`[]StatsMatchFirmware`) for all payloads, magics and checksums,
  drops, dumps and orders of arrival, on a line that damages nothing. `StatsInv` is only about such a line
  (`damaged = 0 => ...`): the line holds the rest of one frame and the reader's state is a function of
  how much of it was read (`InAir`), or both are between frames (`Idle`); `Numbers` says which
  numbers are under way, received and overtaken, and `Books` is the balance of
  gaps, late frames and duplicates against what the firmware dropped, sent again or let overtake,
  with the frame on the line not yet booked; both hold until the numbers restart. That the payload may hold the magic makes no difference to a
  reader that is in step, and the proof shows why: it searches only between frames.
  `ResyncCostsFew` (`[]DamageCostsFew`) is about a line with any number of damaged bytes, by an account:
  `Budget` says that the frames lost so far, and those that the cells which the viewer
  will still eat out of step (`Hunger`) can hit, are paid for by the damage so far. A damaged byte
  of a frame that is read in step pays for the frame and for `MaxByte` + 1 cells behind it; one that meets a viewer
  out of step lengthens what it eats by a cell at most. Every byte read brings the
  viewer a cell nearer to its next look for the magic (`HungerNext`), and the false magic that a
  damaged byte can make, in front of the line only (`Clean`), was paid for with that byte (`MagicCost`).
  The bound was found by the proof: an earlier one, which left out the checksum behind the payload
  swallowed, held in a smaller run, and TLC refuted it once a checksum could show the largest byte.

**Sequences and recursive functions.** Sums, concatenations and the text of a line are
recursive *functions* in these modules. Where their values matter for every argument the proofs use
`NatMin` (every nonempty set of numbers has a least element, from the library's facts on
well-founded relations): first that such a function exists and is determined by its
equations, then the property by taking the least argument at which it would fail
(`FlattenExists`, `FlattenOf`, and the lemmas on `Total` and `OnScreen`). The inductive invariants were run through
TLC first, on small instances and, where they have hypotheses, on both sides of them.

**Only model-checked.**

* Liveness and everything under fairness, and `ENABLED`: out of the prover's reach.
* `SensorsGetTheBus`: true only for rates of events that the constants must express; the least
  `SectorRoom` of the run is one sample of them.

## 6. Where code and documentation part

* `dump_after_exact_fill` (`FlashLogStorage.cpp:312`). The command `a` is to "send all frames
  oldest-first". When the newest frame ends exactly at a sector end and the index is
  rebuilt, the write position falls on the next sector, which still holds the oldest frames;
  it is taken for dirty and skipped. The ring is then no longer in the order of age: the
  dump meets the newest frame early and stops there.
* `busy_after_failed_erase` (`FlashLogStorage.cpp:113`, `:119`). `eraseLogArea` returns early
  without clearing `g_flash_maintenance_busy`; the sensor tasks stay idle, and the display stands still, until a
  later erase succeeds or the board is reset.
* `erase_race` (`task_command.cpp:111`). Between the end of `eraseLogArea` and `setNextSeq(0)`,
  or later for an event that already has its number, an old number is stored in the new
  log; the dump is then no longer complete and in order.

Things that follow from a single line and have no run of their own: `FlashDriver::read` takes no
`shared_io_mutex`, so that read-backs, rebuilds and dumps may come in the middle of an I2C transaction (the
two buses have different pins; what suffers is the timing of the sensor task), while `README.md:146` of the
repository speaks of flash *writes* only; the maintenance flag is tested once
in a round (`TemperatureTask.cpp:107`), so a round under way goes on logging and queueing for
the bus during an erase, and what keeps the bus apart is mutex and priority
(`EraseKeepsTheBus`); a BME280 whose `init()` failed at boot, or that lost its power since, is
read all the same and never initialized again, so that numbers computed without calibration or
without a measurement pass for values (`main.cpp:150`, `EnvironmentTask.cpp:29`; the two
conditions of `PublishedIsMeasured` are not tested by the code); and the button has no effect as long as the ADT7410 is missing, since
the mailbox is read only behind the `continue` at `TemperatureTask.cpp:127`, while
`README.md:65` promises the switch without a condition (`MissingSensorShown` states what is shown instead).

## 7. What is not modelled or not shown

* The receive ring of `UartDma`, `write_frame_blocking`, `write_string` and the `FromISR`
  variants: no task of this firmware uses them.
* The text of the commands `h` and `s`; the latter reads the index without a lock and only
  prints it.
* The compensation formulas of the BME280 (`BME280.cpp:212-304`): 64-bit arithmetic of the data
  sheet, beyond TLC's integers. Conversions of temperature and ADC values, the texts on the
  LCD, CSV output of the viewer: data without decisions.
* A temperature sensor that loses its power so shortly that no read fails keeps its `initialized_`
  and goes on with the settings of its reset.
* How many rounds `temperature_task` makes up for after a long erase (`TemperatureTask.cpp:254`:
  its `last_wake` stands still meanwhile). No document bounds them.
* Startup beyond the boot scan and the restore of the number: a failure stops the program.
  LED, kernel hooks, heap report, plot script.
* Real baud rate and clock: how long a dump lasts is a bound (`DumpTicks`).
* Storage and event path meet in `EventLogger` through frames taken as units (and `FlashLogStorage` takes
  from the event path the orders in which numbers may come, bounded by `MaxGap` and `MaxLate` in the runs); that the frames
  behave so is what `FlashLogStorage` and `FlashLogDump` show, and the composition of the two is
  not checked as a whole.

## 8. Plan

Done, in this order: storage and its dumps (the largest state, the most failure paths), the
UART and the two tasks on it, the event path, the locks, display, viewer; proofs for storage,
driver, stream, locks; then pause and late tasks in the event path, the LCD under the display,
and the units: line editor, average, CRC, BME280.

Then proofs of those: the whole event path, the editor, average and sensor, the button and the
screen, the viewer's statistics, frames and FIFO of the two tasks on the line, the index
against the flash.

Then the dumps and the refinement of `EventLog`, the CRC, `lN`, and the viewer on a damaged line, so
that of the safety properties of the passing runs `SensorsGetTheBus` is the only one without a theorem.

Then appends in any order of numbers (storage, viewer), the restart of the numbers as a step of its own,
flash reads without a lock, and the maintenance flag under the display.

Next:

1. `SharedIoProofs`: `SensorsGetTheBus` from a hypothesis that relates `SectorRoom`, `MaxBacklog` and
   the timeouts.
2. A composition of `FlashLogStorage` and `EventLogger` in which the latter uses the log that
   `EventLog` promises in place of frames taken as units.
3. `FlashLogStorage`: the walk after an exact fill or an overtaken frame, what a dump still sends then.

## 9. Running the checks

    tlasany FlashLogStorage.tla                                parse a module
    tlc -workers 2 -config StorageFaults.cfg FlashLogDump      one run; PROJECT.json names module and cfg of each
    tlapm FlashLogStorageProofs.tla                            check the proofs of a module
