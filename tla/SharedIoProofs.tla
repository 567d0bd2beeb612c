---------------------------- MODULE SharedIoProofs ----------------------------
(***************************************************************************)
(* Proofs about SharedIo: an erase or a program has the wires to itself, and *)
(* the waits of the tasks that write the flash are bounded, for all timeouts *)
(* and however long the flash is read.                                      *)
(***************************************************************************)
EXTENDS SharedIo, TLAPS

Writers == {"logger", "command"}

\* The mutexes and what their owners do.
LockInv ==
    /\ at \in [Tasks -> {"rest", "done", "storage", "io", "hold", "spin"}]
    /\ left \in [Tasks -> Nat]
    /\ shared_io \in Tasks \cup {Nobody}
    /\ \A t \in Tasks : at[t] = "hold" <=> shared_io = t
    /\ \A t \in Writers : at[t] \in {"io", "hold", "spin"} => storage = t
    /\ \A t \in Tasks : at[t] = "spin" => t \in Writers

\* A sensor task holds the wires for I2cTicks at most, and what a writer has
\* waited together with what it still has to wait is within that.
WaitInv ==
    /\ \A s \in Sensors : at[s] = "hold" => left[s] <= I2cTicks
    /\ \A c \in Writers : at[c] = "io" =>
        /\ shared_io = Nobody => LockTimeout <= left[c] + I2cTicks
        /\ shared_io # Nobody => LockTimeout + left[shared_io] <= left[c] + I2cTicks

USE DEF Tasks, Sensors, Writers, Nobody

\* One step of a task t: what can change.
Waits(t) ==
    /\ at' = [at EXCEPT ![t] = "io"] /\ left' = [left EXCEPT ![t] = LockTimeout]
    /\ storage' = storage
Reads(t) ==
    /\ t = "logger" /\ at' = [at EXCEPT ![t] = "spin"]
    /\ \E ticks \in Nat : left' = [left EXCEPT ![t] = ticks]
    /\ storage' = storage
Stops(t) ==
    /\ \E where \in {"done", "rest"} : at' = [at EXCEPT ![t] = where]
    /\ left' = [left EXCEPT ![t] = 0]
    /\ storage' = IF t \in Writers THEN Nobody ELSE storage

LEMMA ReadingTakesTime ==
  ASSUME NEW o, ReadFlash(o), storage' = storage
  PROVE  Reads("logger")
<1>1. PICK ticks \in 0 .. ReadTicks : left' = [left EXCEPT !["logger"] = ticks]
  BY DEF ReadFlash
<1>2. ticks \in Nat
  BY SharedIoAssumption
<1> QED
  BY <1>1, <1>2 DEF ReadFlash, Reads

\* After a use of the wires a task queues for them again, or reads the flash, or ends
\* its round and gives the storage mutex back if it had it.
LEMMA AfterUse ==
  ASSUME NEW t \in Tasks, NEW ok, After(t, ok)
  PROVE  Waits(t) \/ Stops(t) \/ Reads(t)
<1> USE DEF Waits, Stops, WaitForIo, Finish
<1>1. CASE t = "temperature" /\ AfterTemperature(ok)
  BY <1>1 DEF AfterTemperature
<1>2. CASE t = "environment" /\ AfterEnvironment(ok)
  BY <1>2 DEF AfterEnvironment
<1>3. CASE t = "logger" /\ AfterAppend(ok)
  BY <1>3, ReadingTakesTime DEF AfterAppend
<1>4. CASE t = "command" /\ AfterErase(ok)
  BY <1>4 DEF AfterErase
<1> QED
  BY <1>1, <1>2, <1>3, <1>4 DEF After

LEMMA LockInit == Init => LockInv /\ WaitInv
  BY SharedIoAssumption DEF Init, LockInv, WaitInv

\* The steps that give the wires back or get none.
LEMMA LockKeptByUse ==
  ASSUME LockInv, NEW t \in Tasks, Waits(t) \/ Stops(t) \/ Reads(t),
         \/ at[t] = "hold" /\ shared_io' = Nobody
         \/ at[t] \in {"io", "spin"} /\ shared_io' = shared_io
  PROVE  LockInv'
<1>1. CASE Waits(t)
  BY <1>1, SharedIoAssumption DEF LockInv, Waits
<1>2. CASE Stops(t)
  BY <1>2 DEF LockInv, Stops
<1>3. CASE Reads(t)
  BY <1>3 DEF LockInv, Reads
<1> QED
  BY <1>1, <1>2, <1>3

\* The reads of append go on, or end like a use of the wires.
LEMMA AfterReading ==
  ASSUME LockInv, NEW ok, AppendReads(ok)
  PROVE  /\ at["logger"] = "spin" /\ shared_io' = shared_io
         /\ Waits("logger") \/ Stops("logger") \/ Reads("logger")
<1>1. CASE WaitForIo("logger") /\ storage' = storage
  BY <1>1 DEF AppendReads, WaitForIo, Waits
<1>2. CASE at' = [at EXCEPT !["logger"] = "rest"] /\ left' = left /\ storage' = Nobody
  BY <1>2 DEF AppendReads, Stops, LockInv
<1>3. CASE ReadFlash("rebuild") /\ storage' = storage
  BY <1>3, ReadingTakesTime DEF AppendReads
<1> QED
  BY <1>1, <1>2, <1>3 DEF AppendReads

\* The start of append: the first use of the wires, with or without a lock.
LEMMA AfterStart ==
  ASSUME NEW o \in {"erase", "program"}, NEW pages, AppendStarts(o, pages)
  PROVE  /\ HasStorage("logger") /\ shared_io' = shared_io
         /\ \/ WaitForIo("logger")
            \/ /\ at' = [at EXCEPT !["logger"] = "spin"]
               /\ \E ticks \in Nat : left' = [left EXCEPT !["logger"] = ticks]
  BY SharedIoAssumption DEF AppendStarts, ReadFlash

LEMMA LockStep == LockInv /\ [Next]_vars => LockInv'
<1> SUFFICES ASSUME LockInv, [Next]_vars PROVE LockInv'
  OBVIOUS
<1>1. ASSUME NEW t \in Sensors, SensorBegins(t) PROVE LockInv'
  BY <1>1, SharedIoAssumption DEF SensorBegins, WaitForIo, mutexes, LockInv
<1>2. ASSUME NEW t \in Sensors, Plug(t) PROVE LockInv'
  BY <1>2 DEF Plug, mutexes, LockInv
<1>3. ASSUME NEW o \in Commands, CommandBegins(o) PROVE LockInv'
  BY <1>3 DEF CommandBegins, mutexes, LockInv
<1>4. CASE EraseStarts
  BY <1>4, SharedIoAssumption DEF EraseStarts, HasStorage, WaitForIo, LockInv
<1>5. ASSUME NEW ticks \in 0 .. DumpTicks, DumpStarts(ticks) PROVE LockInv'
  BY <1>5, SharedIoAssumption DEF DumpStarts, HasStorage, LockInv
<1>6. CASE DumpEnds
  BY <1>6 DEF DumpEnds, Finish, LockInv
<1>7. CASE LoggerBegins
  BY <1>7 DEF LoggerBegins, mutexes, LockInv
<1>8. ASSUME NEW o \in {"erase", "program"}, NEW pages \in 1 .. 2, AppendStarts(o, pages)
      PROVE  LockInv'
  <2>1. CASE WaitForIo("logger")
    BY <1>8, <2>1, AfterStart, SharedIoAssumption DEF HasStorage, WaitForIo, LockInv
  <2>2. CASE ~ WaitForIo("logger")
    BY <1>8, <2>2, AfterStart DEF HasStorage, LockInv
  <2> QED
    BY <2>1, <2>2
<1>9. ASSUME NEW t \in Tasks, TakeIo(t) PROVE LockInv'
  <2>1. PICK ticks \in 0 .. MaxUse(t) : left' = [left EXCEPT ![t] = ticks]
    BY <1>9 DEF TakeIo
  <2>2. ticks \in Nat
    OBVIOUS
  <2> QED
    BY <1>9, <2>1, <2>2 DEF TakeIo, IsNext, LockInv
<1>10. ASSUME NEW t \in Tasks, TimeOut(t) PROVE LockInv'
  <2>1. at[t] = "io" /\ shared_io' = shared_io /\ After(t, FALSE)
    BY <1>10 DEF TimeOut, Expired, NoLock
  <2> QED
    BY <2>1, AfterUse, LockKeptByUse
<1>11. ASSUME NEW t \in Tasks, NEW ok \in BOOLEAN, IoEnds(t, ok) PROVE LockInv'
  <2>1. at[t] = "hold" /\ shared_io' = Nobody /\ After(t, ok)
    BY <1>11 DEF IoEnds, IoOver, GiveIo
  <2> QED
    BY <2>1, AfterUse, LockKeptByUse
<1>12. CASE Tick
  BY <1>12 DEF Tick, mutexes, LockInv
<1>13. CASE AdcLogs
  BY <1>13 DEF AdcLogs, mutexes, LockInv
<1>15. ASSUME NEW ok \in BOOLEAN, AppendReads(ok) PROVE LockInv'
  BY <1>15, AfterReading, LockKeptByUse
<1>14. CASE UNCHANGED vars
  BY <1>14 DEF vars, LockInv
<1> QED
  BY <1>1, <1>2, <1>3, <1>4, <1>5, <1>6, <1>7, <1>8, <1>9, <1>10, <1>11, <1>12, <1>13,
     <1>14, <1>15 DEF Next

\* An erase or a program overlaps with no I2C transaction and with no read of the
\* flash, and two I2C transactions or two reads never overlap, whatever fails, for all
\* timeouts and lengths: of the two mutexes shared_io_mutex alone would not keep the
\* reads away, nor the storage mutex the I2C transactions.
THEOREM WiresExclusive == Spec => []NoOverlap
<1>1. LockInv => NoOverlap
  <2> SUFFICES ASSUME LockInv, NEW t \in Tasks, NEW u \in Tasks, t # u,
                      at[t] \in {"hold", "spin"}, at[u] \in {"hold", "spin"}
               PROVE  \E s, r \in {t, u} : s \in Sensors /\ at[s] = "hold" /\ at[r] = "spin"
    BY DEF NoOverlap
  <2>1. ~ (at[t] = "hold" /\ at[u] = "hold")
    BY DEF LockInv
  <2>2. ~ (t \in Writers /\ u \in Writers)
    BY DEF LockInv
  <2>3. \A x \in Tasks : at[x] = "spin" => x \in Writers
    BY DEF LockInv
  <2>4. Tasks = Sensors \cup Writers
    OBVIOUS
  <2> QED
    BY <2>1, <2>2, <2>3, <2>4
<1> QED
  BY LockInit, LockStep, <1>1, PTL DEF Spec

-----------------------------------------------------------------------------
(* The bound on the waits.                                                 *)

LEMMA Priorities ==
  /\ \A c \in Writers : Priority[c] \in Nat /\ Priority[c] > 1
  /\ \A s \in Sensors : Priority[s] = 1
  BY DEF Priority

\* While a writer is waiting for the wires the other one is not, and no task spins.
LEMMA OneWriter ==
  ASSUME LockInv, NEW c \in Writers, at[c] = "io"
  PROVE  /\ \A d \in Writers : d # c => at[d] \notin {"io", "hold", "spin"}
         /\ \A t \in Tasks : at[t] # "spin"
         /\ shared_io \in Sensors \cup {Nobody}
  BY DEF LockInv

\* No time passes while a task is ready and none spins.
LEMMA ReadyTasksRun ==
  ASSUME NEW t \in Tasks, Ready(t), \A u \in Tasks : at[u] # "spin", Tick
  PROVE  FALSE
<1>1. ~ (\E u \in Tasks : Ready(u) /\ MayRun(u))
  BY DEF Tick
<1>2. CASE Ready("logger")
  BY <1>1, <1>2 DEF MayRun, Priority
<1>3. CASE ~ Ready("logger") /\ Ready("command")
  BY <1>1, <1>3 DEF MayRun, Priority
<1>4. CASE ~ Ready("logger") /\ ~ Ready("command")
  BY <1>1, <1>4 DEF MayRun, Priority
<1> QED
  BY <1>2, <1>3, <1>4

\* Hence no time passes while a writer waits and the wires are free or their
\* owner is done with them.
LEMMA NoTickOnFreeWires ==
  ASSUME LockInv, Tick, NEW c \in Writers, at[c] = "io"
  PROVE  shared_io \in Sensors /\ left[shared_io] > 0
<1>1. \A t \in Tasks : at[t] # "spin"
  BY OneWriter
<1>2. shared_io # Nobody
  <2>1. SUFFICES ASSUME shared_io = Nobody PROVE IsNext(c)
    BY <1>1, ReadyTasksRun DEF Ready
  <2>2. \A u \in Tasks : at[u] = "io" => u = c \/ u \in Sensors
    BY OneWriter
  <2>3. left[c] \in Nat
    BY DEF LockInv
  <2> QED
    <3>1. ASSUME NEW u \in Tasks, at[u] = "io"
          PROVE  \/ Priority[u] < Priority[c]
                 \/ Priority[u] = Priority[c] /\ left[c] <= left[u]
      <4>1. CASE u = c
        BY <2>3, <4>1
      <4>2. CASE u \in Sensors
        BY <4>2, Priorities
      <4> QED
        BY <2>2, <3>1, <4>1, <4>2
    <3> QED
      BY <2>1, <3>1 DEF IsNext
<1>3. shared_io \in Sensors
  BY <1>2, OneWriter
<1>4. at[shared_io] = "hold" /\ left[shared_io] \in Nat
  BY <1>3 DEF LockInv
<1>5. left[shared_io] # 0
  BY <1>1, <1>3, <1>4, ReadyTasksRun DEF Ready, IoOver
<1> QED
  BY <1>3, <1>4, <1>5

\* A task takes the wires only when no writer that comes first is waiting.
LEMMA TakeSkipsNoWriter ==
  ASSUME LockInv, NEW s \in Sensors, TakeIo(s), NEW c \in Writers
  PROVE  at[c] # "io"
<1> SUFFICES ASSUME at[c] = "io" PROVE FALSE
  OBVIOUS
<1>1. Priority[c] < Priority[s] \/ Priority[c] = Priority[s]
  BY DEF TakeIo, IsNext
<1> QED
  BY <1>1, Priorities

LEMMA WaitKeptByUse ==
  ASSUME LockInv, WaitInv, NEW t \in Tasks, Waits(t) \/ Stops(t) \/ Reads(t),
         \/ at[t] = "hold" /\ shared_io' = Nobody
         \/ at[t] \in {"io", "spin"} /\ shared_io' = shared_io
  PROVE  WaitInv'
<1> USE SharedIoAssumption
<1>1. ASSUME NEW s \in Sensors, at'[s] = "hold" PROVE left'[s] <= I2cTicks
  BY <1>1 DEF LockInv, WaitInv, Waits, Stops, Reads
<1>2. ASSUME NEW c \in Writers, at'[c] = "io", shared_io' = Nobody
      PROVE  LockTimeout <= left'[c] + I2cTicks
  BY <1>2 DEF LockInv, WaitInv, Waits, Stops, Reads
<1>3. ASSUME NEW c \in Writers, at'[c] = "io", shared_io' # Nobody
      PROVE  LockTimeout + left'[shared_io'] <= left'[c] + I2cTicks
  <2>1. at[t] \in {"io", "spin"} /\ shared_io' = shared_io /\ shared_io \in Tasks
    BY <1>3 DEF LockInv
  <2>2. shared_io # t /\ at[shared_io] = "hold" /\ left'[shared_io] = left[shared_io]
    BY <2>1 DEF LockInv, Waits, Stops, Reads
  <2>3. CASE c = t
    <3>1. left'[c] = LockTimeout
      BY <1>3, <2>3 DEF LockInv, Waits, Stops, Reads
    <3>2. shared_io \in Sensors
      BY <2>1, <2>2, <2>3 DEF LockInv
    <3> QED
      BY <2>1, <2>2, <3>1, <3>2 DEF WaitInv, LockInv
  <2>4. CASE c # t
    <3>1. at[c] = "io" /\ left'[c] = left[c]
      BY <1>3, <2>4 DEF LockInv, Waits, Stops, Reads
    <3> QED
      BY <2>1, <2>2, <3>1 DEF WaitInv, LockInv
  <2> QED
    BY <2>3, <2>4
<1> QED
  BY <1>1, <1>2, <1>3 DEF WaitInv

\* A writer that gets the storage mutex finds at most one sensor transaction under way.
LEMMA WaitStarts ==
  ASSUME LockInv, WaitInv, NEW c \in Writers, at[c] = "storage", storage = Nobody,
         WaitForIo(c), shared_io' = shared_io
  PROVE  WaitInv'
<1> USE SharedIoAssumption
<1>1. shared_io \in Sensors \cup {Nobody}
  BY DEF LockInv
<1>2. \A d \in Writers : d # c => at[d] # "io"
  BY DEF LockInv
<1> QED
  BY <1>1, <1>2 DEF WaitForIo, WaitInv, LockInv

LEMMA WaitStep == LockInv /\ WaitInv /\ [Next]_vars => WaitInv'
<1> SUFFICES ASSUME LockInv, WaitInv, [Next]_vars PROVE WaitInv'
  OBVIOUS
<1>1. ASSUME NEW t \in Sensors, SensorBegins(t) PROVE WaitInv'
  BY <1>1, SharedIoAssumption DEF SensorBegins, WaitForIo, mutexes, LockInv, WaitInv
<1>2. ASSUME NEW t \in Sensors, Plug(t) PROVE WaitInv'
  BY <1>2 DEF Plug, mutexes, WaitInv
<1>3. ASSUME NEW o \in Commands, CommandBegins(o) PROVE WaitInv'
  BY <1>3 DEF CommandBegins, mutexes, LockInv, WaitInv
<1>4. CASE EraseStarts
  BY <1>4, WaitStarts DEF EraseStarts, HasStorage
<1>5. ASSUME NEW ticks \in 0 .. DumpTicks, DumpStarts(ticks) PROVE WaitInv'
  BY <1>5 DEF DumpStarts, HasStorage, LockInv, WaitInv
<1>6. CASE DumpEnds
  BY <1>6 DEF DumpEnds, Finish, LockInv, WaitInv
<1>7. CASE LoggerBegins
  BY <1>7 DEF LoggerBegins, mutexes, LockInv, WaitInv
<1>8. ASSUME NEW o \in {"erase", "program"}, NEW pages \in 1 .. 2, AppendStarts(o, pages)
      PROVE  WaitInv'
  <2>1. CASE WaitForIo("logger")
    BY <1>8, <2>1, AfterStart, WaitStarts DEF HasStorage
  <2>2. CASE ~ WaitForIo("logger")
    BY <1>8, <2>2, AfterStart DEF HasStorage, LockInv, WaitInv
  <2> QED
    BY <2>1, <2>2
<1>9. ASSUME NEW t \in Tasks, TakeIo(t) PROVE WaitInv'
  <2>1. PICK ticks \in 0 .. MaxUse(t) : left' = [left EXCEPT ![t] = ticks]
    BY <1>9 DEF TakeIo
  <2>2. at[t] = "io" /\ shared_io = Nobody /\ shared_io' = t
        /\ at' = [at EXCEPT ![t] = "hold"]
    BY <1>9 DEF TakeIo, IsNext
  <2>3. CASE t \in Sensors
    <3>1. ticks \in Nat /\ ticks <= I2cTicks
      BY <2>3, SharedIoAssumption DEF MaxUse
    <3>2. \A c \in Writers : at[c] # "io"
      BY <1>9, <2>3, TakeSkipsNoWriter
    <3> QED
      BY <2>1, <2>2, <2>3, <3>1, <3>2 DEF LockInv, WaitInv
  <2>4. CASE t \in Writers
    <3>1. \A d \in Writers : d # t => at[d] # "io"
      BY <2>2, <2>4, OneWriter
    <3> QED
      BY <2>1, <2>2, <2>4, <3>1 DEF LockInv, WaitInv
  <2> QED
    BY <2>3, <2>4
<1>10. ASSUME NEW t \in Tasks, TimeOut(t) PROVE WaitInv'
  <2>1. at[t] = "io" /\ shared_io' = shared_io /\ After(t, FALSE)
    BY <1>10 DEF TimeOut, Expired, NoLock
  <2> QED
    BY <2>1, AfterUse, WaitKeptByUse
<1>11. ASSUME NEW t \in Tasks, NEW ok \in BOOLEAN, IoEnds(t, ok) PROVE WaitInv'
  <2>1. at[t] = "hold" /\ shared_io' = Nobody /\ After(t, ok)
    BY <1>11 DEF IoEnds, IoOver, GiveIo
  <2> QED
    BY <2>1, AfterUse, WaitKeptByUse
<1>12. CASE Tick
  <2>1. /\ left' = [t \in Tasks |-> IF left[t] > 0 THEN left[t] - 1 ELSE 0]
        /\ shared_io' = shared_io /\ left \in [Tasks -> Nat]
        /\ \A t \in Tasks : at'[t] \in {"hold", "io"} => at'[t] = at[t]
    BY <1>12 DEF Tick, mutexes, LockInv
  <2>2. ASSUME NEW s \in Sensors, at'[s] = "hold" PROVE left'[s] <= I2cTicks
    BY <2>1, <2>2, SharedIoAssumption DEF WaitInv
  <2>3. ASSUME NEW c \in Writers, at'[c] = "io"
        PROVE  shared_io' \in Sensors /\ LockTimeout + left'[shared_io'] <= left'[c] + I2cTicks
    <3>1. at[c] = "io"
      BY <2>1, <2>3
    <3>2. shared_io \in Sensors /\ left[shared_io] > 0
      BY <1>12, <3>1, NoTickOnFreeWires
    <3>3. LockTimeout + left[shared_io] <= left[c] + I2cTicks
      BY <3>1, <3>2 DEF WaitInv
    <3>4. left'[shared_io] = left[shared_io] - 1 /\ left'[c] >= left[c] - 1
      BY <2>1, <3>2
    <3> QED
      BY <2>1, <3>2, <3>3, <3>4, SharedIoAssumption
  <2> QED
    BY <2>2, <2>3 DEF WaitInv
<1>13. CASE AdcLogs
  BY <1>13 DEF AdcLogs, mutexes, WaitInv
<1>15. ASSUME NEW ok \in BOOLEAN, AppendReads(ok) PROVE WaitInv'
  BY <1>15, AfterReading, WaitKeptByUse
<1>14. CASE UNCHANGED vars
  BY <1>14 DEF vars, WaitInv
<1> QED
  BY <1>1, <1>2, <1>3, <1>4, <1>5, <1>6, <1>7, <1>8, <1>9, <1>10, <1>11, <1>12, <1>13,
     <1>14, <1>15 DEF Next

\* append() and eraseLogArea() always get the shared I/O lock, however long the
\* queue, the log and the dumps are, and whatever fails, if an I2C transaction
\* gives up sooner than the lock times out.
THEOREM FlashWaitsEnd ==
  ASSUME I2cTicks < LockTimeout
  PROVE  Spec => []FlashNeverTimesOut
<1>1. LockInv /\ WaitInv => FlashNeverTimesOut
  <2> SUFFICES ASSUME LockInv, WaitInv, NEW c \in Writers, Expired(c) PROVE FALSE
    BY DEF FlashNeverTimesOut
  <2>1. at[c] = "io" /\ left[c] = 0 /\ shared_io \in Sensors
    BY OneWriter DEF Expired
  <2>2. left[shared_io] \in Nat
    BY <2>1 DEF LockInv
  <2> QED
    BY <2>1, <2>2, SharedIoAssumption DEF WaitInv
<1> QED
  BY LockInit, LockStep, WaitStep, <1>1, PTL DEF Spec

-----------------------------------------------------------------------------
(* An erase keeps the wires.                                               *)

\* The mutex is given back after each sector, but to the command task, which waits
\* for it again in the same step: it comes before any sensor task.
EraseInv == n \in [Tasks -> Int] /\ EraseKeepsTheBus

LEMMA NAfterUse ==
  ASSUME EraseInv, NEW t \in Tasks, NEW ok, After(t, ok)
  PROVE  n' \in [Tasks -> Int] /\ (t # "command" => n'["command"] = n["command"])
<1> USE DEF EraseInv
<1>1. CASE t = "temperature" /\ AfterTemperature(ok)
  <2>1. n' \in {n, [n EXCEPT !["temperature"] = 3], [n EXCEPT !["temperature"] = n["temperature"] - 1],
                [n EXCEPT !["temperature"] = 0]}
    BY <1>1, Zenon DEF AfterTemperature
  <2>2. n["temperature"] - 1 \in Int
    OBVIOUS
  <2> QED
    BY <1>1, <2>1, <2>2
<1>2. CASE t = "environment" /\ AfterEnvironment(ok)
  BY <1>2 DEF AfterEnvironment
<1>3. CASE t = "logger" /\ AfterAppend(ok)
  <2>1. n' \in {n, [n EXCEPT !["logger"] = n["logger"] - 1]}
    BY <1>3, Zenon DEF AfterAppend
  <2>2. n["logger"] - 1 \in Int
    OBVIOUS
  <2> QED
    BY <1>3, <2>1, <2>2
<1>4. CASE t = "command" /\ AfterErase(ok)
  BY <1>4 DEF AfterErase
<1> QED
  BY <1>1, <1>2, <1>3, <1>4 DEF After

\* A use or a wait that ends takes no wires.
LEMMA EraseKeptByUse ==
  ASSUME LockInv, EraseInv, NEW t \in Tasks, NEW ok, After(t, ok),
         \/ at[t] = "hold" /\ shared_io' = Nobody
         \/ at[t] = "io" /\ ~ ok /\ shared_io' = shared_io
  PROVE  EraseInv'
<1>1. n' \in [Tasks -> Int] /\ (t # "command" => n'["command"] = n["command"])
  BY NAfterUse
<1>2. CASE shared_io' = Nobody
  BY <1>1, <1>2 DEF EraseInv, EraseKeepsTheBus
<1>3. CASE shared_io' = shared_io /\ t # "command"
  <2>1. at'["command"] = at["command"]
    BY <1>3, AfterUse DEF Waits, Stops, Reads, LockInv
  <2> QED
    BY <1>1, <1>3, <2>1 DEF EraseInv, EraseKeepsTheBus
<1>4. CASE shared_io' = shared_io /\ t = "command" /\ at[t] = "io" /\ ~ ok
  <2>1. at'["command"] = "done"
    BY <1>4 DEF After, AfterErase, Finish, LockInv
  <2> QED
    BY <1>1, <2>1 DEF EraseInv, EraseKeepsTheBus
<1> QED
  BY <1>2, <1>3, <1>4

LEMMA EraseStep == LockInv /\ EraseInv /\ [Next]_vars => EraseInv'
<1> SUFFICES ASSUME LockInv, EraseInv, [Next]_vars PROVE EraseInv'
  OBVIOUS
<1> USE DEF EraseInv, EraseKeepsTheBus
<1>1. ASSUME NEW t \in Sensors, SensorBegins(t) PROVE EraseInv'
  BY <1>1 DEF SensorBegins, WaitForIo, mutexes, LockInv
<1>2. ASSUME NEW t \in Sensors, Plug(t) PROVE EraseInv'
  BY <1>2 DEF Plug, mutexes
<1>3. ASSUME NEW o \in Commands, CommandBegins(o) PROVE EraseInv'
  BY <1>3 DEF CommandBegins, mutexes, LockInv
<1>4. CASE EraseStarts
  BY <1>4, SharedIoAssumption DEF EraseStarts, HasStorage, WaitForIo, LockInv
<1>5. ASSUME NEW ticks \in 0 .. DumpTicks, DumpStarts(ticks) PROVE EraseInv'
  BY <1>5 DEF DumpStarts, HasStorage, LockInv
<1>6. CASE DumpEnds
  BY <1>6 DEF DumpEnds, Finish, LockInv
<1>7. CASE LoggerBegins
  BY <1>7 DEF LoggerBegins, mutexes, LockInv
<1>8. ASSUME NEW o \in {"erase", "program"}, NEW pages \in 1 .. 2, AppendStarts(o, pages)
      PROVE  EraseInv'
  BY <1>8 DEF AppendStarts, HasStorage, WaitForIo, ReadFlash, LockInv
<1>9. ASSUME NEW t \in Tasks, TakeIo(t) PROVE EraseInv'
  <2>1. /\ at' = [at EXCEPT ![t] = "hold"] /\ n' = n /\ shared_io' = t
        /\ at[t] = "io" /\ shared_io = Nobody
    BY <1>9 DEF TakeIo, IsNext
  <2>2. CASE t \in Sensors
    <3>1. at["command"] # "io" /\ at["command"] # "hold"
      BY <1>9, <2>1, <2>2, TakeSkipsNoWriter DEF LockInv
    <3> QED
      BY <2>1, <2>2, <3>1 DEF LockInv
  <2>3. CASE t \notin Sensors
    BY <2>1, <2>3
  <2> QED
    BY <2>2, <2>3
<1>10. ASSUME NEW t \in Tasks, TimeOut(t) PROVE EraseInv'
  BY <1>10, EraseKeptByUse DEF TimeOut, Expired, NoLock
<1>11. ASSUME NEW t \in Tasks, NEW ok \in BOOLEAN, IoEnds(t, ok) PROVE EraseInv'
  BY <1>11, EraseKeptByUse DEF IoEnds, IoOver, GiveIo
<1>12. CASE Tick
  BY <1>12 DEF Tick, mutexes, LockInv
<1>13. CASE AdcLogs
  BY <1>13 DEF AdcLogs, mutexes
<1>15. ASSUME NEW ok \in BOOLEAN, AppendReads(ok) PROVE EraseInv'
  <2>1. n' \in {n, [n EXCEPT !["logger"] = 0]} /\ shared_io' = shared_io
    BY <1>15, Zenon DEF AppendReads
  <2>2. at'["command"] = at["command"]
    BY <1>15, AfterReading DEF Waits, Stops, Reads, LockInv
  <2> QED
    BY <2>1, <2>2
<1>14. CASE UNCHANGED vars
  BY <1>14 DEF vars
<1> QED
  BY <1>1, <1>2, <1>3, <1>4, <1>5, <1>6, <1>7, <1>8, <1>9, <1>10, <1>11, <1>12, <1>13,
     <1>14, <1>15 DEF Next

\* From the second sector of an erase on no I2C transaction comes between, for any
\* number of sectors and all timeouts, although the lock is free after each sector.
THEOREM EraseIsNotInterrupted == Spec => []EraseKeepsTheBus
<1>1. Init => EraseInv
  BY SharedIoAssumption DEF Init, EraseInv, EraseKeepsTheBus
<1>2. EraseInv => EraseKeepsTheBus
  BY DEF EraseInv
<1> QED
  BY LockInit, LockStep, EraseStep, <1>1, <1>2, PTL DEF Spec
=============================================================================
