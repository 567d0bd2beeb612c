------------------------------- MODULE SharedIo -------------------------------
(***************************************************************************)
(* Who may use the wires: shared_io_mutex keeps I2C transactions, erases and *)
(* programs apart, the storage mutex keeps the index and its flash frames   *)
(* together, and g_flash_maintenance_busy asks the sensor tasks to stay     *)
(* away during an erase of the log.  FlashDriver::read takes no             *)
(* shared_io_mutex: the scans, read-backs and rebuilds of append() and the  *)
(* reads of a dump run under the storage mutex alone, on the CPU without a  *)
(* pause, and may come in the middle of an I2C transaction.                 *)
(*                                                                         *)
(* Time is counted in ticks.  A task that is ready runs at once, the one of *)
(* highest priority first; a tick passes when none has anything to do.      *)
(***************************************************************************)
EXTENDS Integers, FiniteSets

CONSTANTS
    LockTimeout,    \* pdMS_TO_TICKS(1000), for the shared I/O mutex
    I2cTicks,       \* I2C_TIMEOUT_US: an I2C transaction lasts at most this long
    FlashTicks,     \* WAIT_BUSY_MS: so does a flash command
    ProgramTicks,   \* a page program that succeeds lasts at most this long
    DumpTicks,      \* bound: the time a dump reads the flash and spins on the UART
    ReadTicks,      \* bound: the time append() reads the flash without a pause
    Sectors,        \* sectors of the log
    SectorRoom,     \* bound: frames a sector has room for after its first, at least
    FlashFails,     \* flash commands may fail
    Commands,       \* the commands the operator uses: "erase", "dump"
    MaxBacklog,     \* the length of the event queue
    AdcPeriod,      \* the period of adc_task, which logs but needs no wires
    MaxUnplugs      \* bound: how often a sensor is disconnected

ASSUME SharedIoAssumption ==
    /\ LockTimeout \in Nat /\ I2cTicks \in Nat /\ FlashTicks \in Nat /\ DumpTicks \in Nat
    /\ ReadTicks \in Nat
    /\ ProgramTicks \in Nat /\ Sectors \in Nat \ {0} /\ SectorRoom \in Nat /\ FlashFails \in BOOLEAN
    /\ Commands \subseteq {"erase", "dump"}
    /\ MaxBacklog \in Nat /\ AdcPeriod \in Nat /\ MaxUnplugs \in Nat

Sensors == {"temperature", "environment"}
Tasks == Sensors \cup {"logger", "command"}
Nobody == "nobody"

VARIABLES
    at,             \* where each task is: "rest" and "done" (between two rounds),
                    \* "storage" and "io" (waiting for a mutex), "hold" (using the
                    \* wires with shared_io_mutex) or "spin" (reading the flash
                    \* without it, and sending what a dump has read)
    left,           \* ticks left of its wait or its use
    op,             \* what it does next on the wires
    n,              \* attempts, sectors or pages left for that
    storage,        \* the owner of the storage mutex
    shared_io,      \* the owner of shared_io_mutex
    busy,           \* g_flash_maintenance_busy
    initialized,    \* AEADT7410::initialized_
    connected,      \* the sensors that answer
    sample,         \* the temperature of this round: "none" yet, "OK" or "NG"
    room,           \* frames the sector being filled has room for, at least
    backlog,        \* events in the queue of the logger
    adc,            \* ticks until the next round of adc_task
    unplugs

mutexes == <<storage, shared_io>>
sensor == <<initialized, sample>>
vars == <<at, left, op, n, storage, shared_io, busy, initialized, connected, sample,
          room, backlog, adc, unplugs>>

-----------------------------------------------------------------------------
(* Scheduling.                                                             *)

EqualPriority == [t \in Tasks |-> 1]        \* for a mutant of Priority
Priority == [t \in Tasks |-> CASE t = "logger" -> 3 [] t = "command" -> 2 [] OTHER -> 1]

\* The wait list of the mutex: by priority, then by age.  A read that follows an
\* init at once, without a delay between, may get there first.
IsNext(t) ==
    /\ at[t] = "io" /\ shared_io = Nobody
    /\ \A u \in Tasks : at[u] = "io" =>
        \/ Priority[u] < Priority[t]
        \/ Priority[u] = Priority[t] /\ (left[t] <= left[u] \/ op[t] = "read at once")

Expired(t) == at[t] = "io" /\ left[t] = 0 /\ shared_io # Nobody
IoOver(t) == at[t] = "hold" /\ left[t] = 0

Ready(t) ==
    \/ IsNext(t) \/ Expired(t) \/ IoOver(t) \/ at[t] = "spin"
    \/ at[t] = "storage" /\ storage = Nobody
    \/ t = "logger" /\ at[t] = "rest" /\ backlog > 0

\* One core: no ready task has a higher priority.
MayRun(t) == \A u \in Tasks : Ready(u) => Priority[u] <= Priority[t]

WaitForIo(t) == at' = [at EXCEPT ![t] = "io"] /\ left' = [left EXCEPT ![t] = LockTimeout]
Finish(t) == at' = [at EXCEPT ![t] = "done"] /\ left' = [left EXCEPT ![t] = 0]
\* Events that find room in the queue; none with logging paused (commands p, r).
Log == backlog' \in backlog .. MaxBacklog

-----------------------------------------------------------------------------
(* What a task does when a use of the wires is over, or was not granted: ok  *)
(* says whether it succeeded.                                               *)

ClearInitialized == initialized' = FALSE

Record(valid) == sample' = (IF valid THEN "OK" ELSE "NG") /\ Log

\* temperature_task: init if needed, up to three reads, the sample logged, then
\* the display, whose failures nobody looks at.
AfterTemperature(ok) ==
    LET t == "temperature"
        Show == WaitForIo(t) /\ op' = [op EXCEPT ![t] = "display"] /\ UNCHANGED n
        Read(o, k) == /\ WaitForIo(t) /\ op' = [op EXCEPT ![t] = o]
                      /\ n' = [n EXCEPT ![t] = k]
    IN  /\ \/ /\ op[t] = "init" /\ ok /\ initialized' = TRUE
              /\ Read("read at once", 3) /\ Log /\ UNCHANGED sample
           \/ /\ op[t] = "init" /\ ~ ok /\ Record(FALSE) /\ Show /\ UNCHANGED initialized
           \/ /\ op[t] \in {"read", "read at once"} /\ ok
              /\ Record(TRUE) /\ Show /\ UNCHANGED initialized
           \/ /\ op[t] \in {"read", "read at once"} /\ ~ ok
              /\ IF n[t] > 1
                 THEN Read("read", n[t] - 1) /\ UNCHANGED <<sensor, backlog>>
                 ELSE ClearInitialized /\ Record(FALSE) /\ Show
           \/ /\ op[t] = "display" /\ Finish(t) /\ n' = [n EXCEPT ![t] = 0]
              /\ UNCHANGED <<op, sensor, backlog>>
        /\ UNCHANGED <<storage, busy, room>>

\* environment_task: up to three reads; values or ERR are logged.
AfterEnvironment(ok) ==
    LET t == "environment"
    IN  /\ IF ~ ok /\ n[t] > 1
           THEN WaitForIo(t) /\ n' = [n EXCEPT ![t] = n[t] - 1] /\ UNCHANGED backlog
           ELSE Finish(t) /\ Log /\ n' = [n EXCEPT ![t] = 0]
        /\ UNCHANGED <<op, storage, busy, sensor, room>>

\* FlashDriver::read in the logger task, which keeps the CPU.
ReadFlash(o) ==
    /\ at' = [at EXCEPT !["logger"] = "spin"] /\ op' = [op EXCEPT !["logger"] = o]
    /\ \E ticks \in 0 .. ReadTicks : left' = [left EXCEPT !["logger"] = ticks]

\* append: a new sector is erased before its first frame is programmed, a frame may
\* lie in two pages, and the whole frame is read back; after a failure the index is
\* rebuilt from the flash.
AfterAppend(ok) ==
    LET t == "logger"
    IN  /\ \/ /\ ok /\ op[t] = "erase" /\ WaitForIo(t)
              /\ op' = [op EXCEPT ![t] = "program"] /\ room' = SectorRoom
              /\ UNCHANGED <<n, storage>>
           \/ /\ ok /\ op[t] = "program" /\ n[t] > 1 /\ WaitForIo(t)
              /\ n' = [n EXCEPT ![t] = n[t] - 1] /\ UNCHANGED <<op, room, storage>>
           \/ /\ ok /\ op[t] = "program" /\ n[t] <= 1
              /\ ReadFlash("read back") /\ UNCHANGED <<n, room, storage>>
           \/ /\ ~ ok /\ ReadFlash("rebuild") /\ room' = 0 /\ UNCHANGED <<n, storage>>
        /\ UNCHANGED <<busy, sensor, backlog>>

BusyStays == UNCHANGED busy                 \* for a mutant of ClearBusy
ClearBusy == busy' = FALSE

\* eraseLogArea: sector by sector; a failure leaves busy set.
AfterErase(ok) ==
    LET t == "command"
    IN  /\ IF ok /\ n[t] > 1
           THEN WaitForIo(t) /\ n' = [n EXCEPT ![t] = n[t] - 1]
                /\ UNCHANGED <<storage, busy, room>>
           ELSE /\ Finish(t) /\ storage' = Nobody /\ n' = [n EXCEPT ![t] = 0]
                /\ IF ok THEN ClearBusy /\ room' = 0 ELSE UNCHANGED <<busy, room>>
        /\ UNCHANGED <<op, sensor, backlog>>

After(t, ok) ==
    \/ t = "temperature" /\ AfterTemperature(ok)
    \/ t = "environment" /\ AfterEnvironment(ok)
    \/ t = "logger" /\ AfterAppend(ok)
    \/ t = "command" /\ AfterErase(ok)

-----------------------------------------------------------------------------
(* The steps.                                                              *)

\* The start of a round of a sensor task, unless an erase is going on.
SensorBegins(t) ==
    /\ at[t] = "rest" /\ MayRun(t) /\ ~ busy
    /\ WaitForIo(t)
    /\ op' = [op EXCEPT ![t] = IF t = "temperature" /\ ~ initialized THEN "init" ELSE "read"]
    /\ n' = [n EXCEPT ![t] = 3]
    /\ sample' = IF t = "temperature" THEN "none" ELSE sample
    /\ UNCHANGED <<mutexes, busy, room, initialized, connected, backlog, adc, unplugs>>

\* The line "e", "a" or "lN" is complete.
CommandBegins(o) ==
    /\ at["command"] = "rest" /\ MayRun("command")
    /\ at' = [at EXCEPT !["command"] = "storage"]
    /\ op' = [op EXCEPT !["command"] = o]
    /\ UNCHANGED <<left, n, mutexes, busy, room, sensor, connected, backlog, adc, unplugs>>

\* receive() and sendFrame() of the logger task; append() wants the storage mutex.
LoggerBegins ==
    /\ at["logger"] = "rest" /\ backlog > 0 /\ backlog' = backlog - 1
    /\ at' = [at EXCEPT !["logger"] = "storage"]
    /\ UNCHANGED <<left, op, n, mutexes, busy, room, sensor, connected, adc, unplugs>>

HasStorage(t) == at[t] = "storage" /\ storage = Nobody /\ MayRun(t) /\ storage' = t

\* A frame begins a new sector only when the one before is full; before the erase
\* the frames in that sector are taken out of the index.
AppendStarts(o, pages) ==
    /\ HasStorage("logger")
    /\ \/ o = "erase" /\ room = 0 /\ ReadFlash("invalidate") /\ UNCHANGED room
       \/ /\ o = "program" /\ WaitForIo("logger")
          /\ room' = (IF room > 0 THEN room - 1 ELSE room)
          /\ op' = [op EXCEPT !["logger"] = o]
    /\ n' = [n EXCEPT !["logger"] = pages]
    /\ UNCHANGED <<shared_io, busy, sensor, connected, backlog, adc, unplugs>>

\* What append has read is there: the erase is next, or append returns and the
\* storage mutex is given back, after a rebuild when the frame was not as written.
AppendReads(ok) ==
    LET t == "logger"
    IN  /\ at[t] = "spin" /\ left[t] = 0 /\ MayRun(t)
        /\ \/ /\ ok /\ op[t] = "invalidate" /\ WaitForIo(t) /\ op' = [op EXCEPT ![t] = "erase"]
              /\ UNCHANGED <<n, room, storage>>
           \/ /\ ok /\ op[t] \in {"read back", "rebuild"}
              /\ at' = [at EXCEPT ![t] = "rest"] /\ UNCHANGED <<left, room>>
              /\ op' = [op EXCEPT ![t] = "none"] /\ n' = [n EXCEPT ![t] = 0]
              /\ storage' = Nobody
           \/ /\ ~ ok /\ op[t] = "read back" /\ FlashFails
              /\ ReadFlash("rebuild") /\ room' = 0 /\ UNCHANGED <<n, storage>>
        /\ UNCHANGED <<shared_io, busy, sensor, connected, backlog, adc, unplugs>>

EraseStarts ==
    /\ op["command"] = "erase" /\ HasStorage("command") /\ busy' = TRUE
    /\ WaitForIo("command") /\ n' = [n EXCEPT !["command"] = Sectors]
    /\ UNCHANGED <<op, shared_io, room, sensor, connected, backlog, adc, unplugs>>

\* A dump reads frame after frame and waits for room in the UART ring: with the
\* storage mutex, without shared_io_mutex, and without giving the CPU away.
DumpStarts(ticks) ==
    /\ op["command"] = "dump" /\ HasStorage("command")
    /\ at' = [at EXCEPT !["command"] = "spin"] /\ left' = [left EXCEPT !["command"] = ticks]
    /\ UNCHANGED <<op, n, shared_io, busy, room, sensor, connected, backlog, adc, unplugs>>

DumpEnds ==
    /\ at["command"] = "spin" /\ left["command"] = 0 /\ MayRun("command")
    /\ Finish("command") /\ storage' = Nobody
    /\ UNCHANGED <<op, n, shared_io, busy, room, sensor, connected, backlog, adc, unplugs>>

\* i2c_*_timeout_us give up after I2C_TIMEOUT_US, waitWhileBusy after WAIT_BUSY_MS.
BlockingI2c(t) ==                           \* for a mutant of MaxUse
    IF t \in Sensors THEN LockTimeout + 1 ELSE FlashTicks
MaxUse(t) ==
    IF t \in Sensors THEN I2cTicks
    ELSE IF op[t] = "erase" \/ FlashFails THEN FlashTicks ELSE ProgramTicks

\* The mutex is free for t: lock_shared_io, lockI2c.
TakeIo(t) ==
    /\ IsNext(t) /\ MayRun(t) /\ shared_io' = t
    /\ at' = [at EXCEPT ![t] = "hold"]
    /\ \E ticks \in 0 .. MaxUse(t) : left' = [left EXCEPT ![t] = ticks]
    /\ UNCHANGED <<op, n, storage, busy, room, sensor, connected, backlog, adc, unplugs>>

KeepIoOnError(t, ok) == shared_io' = IF ok THEN Nobody ELSE t   \* for a mutant of GiveIo
GiveIo(t, ok) == shared_io' = Nobody

\* A sensor that does not answer fails; so may one that does, when the task was kept
\* from the CPU beyond the deadline of its transaction by one that spins.
Outcomes(t) ==
    IF t \notin Sensors THEN {TRUE, ~ FlashFails}
    ELSE IF t \in connected /\ ReadTicks = 0 /\ DumpTicks = 0 THEN {TRUE}
    ELSE {FALSE, (t \in connected)}

\* The transaction or flash command is over and the mutex is given back.
IoEnds(t, ok) ==
    /\ IoOver(t) /\ MayRun(t)
    /\ ok \in Outcomes(t) /\ GiveIo(t, ok) /\ After(t, ok)
    /\ UNCHANGED <<connected, adc, unplugs>>

GoOnWithoutLock(t) ==                       \* for a mutant of NoLock
    /\ at' = [at EXCEPT ![t] = "hold"] /\ left' = [left EXCEPT ![t] = 0]
    /\ UNCHANGED <<op, n, storage, busy, room, sensor, backlog>>
NoLock(t) == After(t, FALSE)

\* xSemaphoreTake returns pdFALSE.
TimeOut(t) ==
    /\ Expired(t) /\ MayRun(t) /\ NoLock(t)
    /\ UNCHANGED <<shared_io, connected, adc, unplugs>>

Tick ==
    /\ \A t \in Tasks : Ready(t) /\ MayRun(t) => at[t] = "spin" /\ left[t] > 0
    /\ left' = [t \in Tasks |-> IF left[t] > 0 THEN left[t] - 1 ELSE 0]
    /\ at' = [t \in Tasks |-> IF at[t] = "done" THEN "rest" ELSE at[t]]
    /\ adc' = IF adc > 0 THEN adc - 1 ELSE 0
    /\ UNCHANGED <<op, n, mutexes, busy, room, sensor, connected, backlog, unplugs>>

\* A round of adc_task, which runs like the sensor tasks when no other is ready.
AdcLogs ==
    /\ adc = 0 /\ (\A u \in Tasks : Ready(u) => Priority[u] <= 1)
    /\ adc' = AdcPeriod /\ Log
    /\ UNCHANGED <<at, left, op, n, mutexes, busy, room, sensor, connected, unplugs>>

\* A sensor is disconnected or comes back.
Plug(t) ==
    /\ \/ t \in connected /\ unplugs < MaxUnplugs
          /\ connected' = connected \ {t} /\ unplugs' = unplugs + 1
       \/ t \notin connected /\ connected' = connected \cup {t} /\ UNCHANGED unplugs
    /\ UNCHANGED <<at, left, op, n, mutexes, busy, room, sensor, backlog, adc>>

Init ==
    /\ at = [t \in Tasks |-> "rest"] /\ left = [t \in Tasks |-> 0]
    /\ op = [t \in Tasks |-> "none"] /\ n = [t \in Tasks |-> 0]
    /\ storage = Nobody /\ shared_io = Nobody /\ busy = FALSE
    /\ initialized = FALSE /\ sample = "none"
    /\ connected \in SUBSET Sensors /\ room = 0 /\ backlog = 0 /\ adc = 0 /\ unplugs = 0

Next ==
    \/ \E t \in Sensors : SensorBegins(t) \/ Plug(t)
    \/ (\E o \in Commands : CommandBegins(o)) \/ EraseStarts
    \/ (\E ticks \in 0 .. DumpTicks : DumpStarts(ticks)) \/ DumpEnds
    \/ LoggerBegins \/ (\E ok \in BOOLEAN : AppendReads(ok))
    \/ (\E o \in {"erase", "program"}, pages \in 1 .. 2 : AppendStarts(o, pages))
    \/ \E t \in Tasks : TakeIo(t) \/ TimeOut(t) \/ \E ok \in BOOLEAN : IoEnds(t, ok)
    \/ AdcLogs \/ Tick

Spec == Init /\ [][Next]_vars

\* Time passes, ready tasks run, and a delay of a sensor task ends.
FairSpec ==
    /\ Spec
    /\ WF_vars(Next /\ ~ (\E o \in Commands : CommandBegins(o))
                    /\ ~ (\E t \in Sensors : Plug(t) \/ SensorBegins(t)))
    /\ \A t \in Sensors : SF_vars(SensorBegins(t))

-----------------------------------------------------------------------------
(* Properties.                                                             *)

\* While a sector is erased or a page programmed, nobody else uses the wires: no I2C
\* transaction is under way, as README.md says in its section on exclusive control,
\* and no read of the flash, whatever failed or timed out before.  Nor do two I2C
\* transactions or two reads overlap.  The one overlap there is, which the code
\* allows, is a flash read in the middle of an I2C transaction.
NoOverlap ==
    \A t, u \in Tasks :
        t # u /\ at[t] \in {"hold", "spin"} /\ at[u] \in {"hold", "spin"} =>
            \E s, r \in {t, u} : s \in Sensors /\ at[s] = "hold" /\ at[r] = "spin"

\* append() and eraseLogArea() never fail for want of the shared I/O lock: with
\* their priority they wait for one transaction of a sensor task at most, and
\* that gives up long before LockTimeout.
FlashNeverTimesOut == \A t \in {"logger", "command"} : ~ Expired(t)

\* Once the first sector of an erase is under way, no I2C transaction happens
\* until eraseLogArea returns, although the lock is given back after each sector.
EraseKeepsTheBus ==
    at["command"] \in {"io", "hold"} /\ n["command"] < Sectors => shared_io \notin Sensors

\* Until the first command, and with a flash that works, no sensor task ever loses
\* the shared I/O lock to a timeout: not to the logger, whatever it appends, and
\* not to the other sensor, whatever it retries.
SensorsGetTheBus ==
    op["command"] = "none" /\ ~ FlashFails => \A t \in Sensors : ~ Expired(t)

\* "a sensor that was not connected at start can be connected and recover later"
\* (TemperatureTask.cpp): when it stays connected and no command runs for good,
\* readings keep arriving.
SensorRecovers ==
    <>[]("temperature" \in connected /\ at["command"] = "rest") => []<>(sample = "OK")
=============================================================================
