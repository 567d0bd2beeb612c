-------------------------------- MODULE Bme280 --------------------------------
(***************************************************************************)
(* The BME280, its driver (BME280.cpp) and environment_task: main() calls   *)
(* init() once, and the task reads the chip ever after, whether init()      *)
(* succeeded or not.                                                       *)
(*                                                                         *)
(* A register access is one step and may fail (the chip does not answer,    *)
(* the lock or the transaction times out); the lock itself is modelled in   *)
(* SharedIo.  Of the values only the origin is kept: whether they were      *)
(* computed with a calibration, and which quantities the chip had measured. *)
(***************************************************************************)
EXTENDS Integers, Sequences

CONSTANTS
    RETRY_COUNT,
    MaxPowerLosses  \* bound: how often the chip loses its power

ASSUME Bme280Assumption == RETRY_COUNT \in Nat \ {0} /\ MaxPowerLosses \in Nat

VARIABLES
    \* the chip
    powered,
    chip_mode,      \* "sleep" or "normal"
    ctrl_hum,       \* the register, which takes effect when ctrl_meas is written
    enabled,        \* the quantities it measures
    measured,       \* those whose data registers hold a measurement
    power_losses,
    \* the driver and its users
    next_access,    \* of init(); behind the last one when the tasks run
    init_ok,        \* what init() returned
    cal_,           \* cal_ was read from the chip; before that it is all zeros
    tries,          \* failed reads in this round of environment_task
    latest,         \* g_latest_bme280_values and their valid flag
    env_line        \* the last round logged "values" or "ERR"

chip == <<powered, chip_mode, ctrl_hum, enabled, measured, power_losses>>
driver == <<next_access, init_ok, cal_>>
environment == <<tries, latest, env_line>>
bme280_vars == <<chip, driver, environment>>

Quantities == {"T", "P", "H"}

-----------------------------------------------------------------------------
(* The chip.                                                               *)

PowerLoss ==
    /\ powered /\ power_losses < MaxPowerLosses
    /\ powered' = FALSE /\ power_losses' = power_losses + 1
    /\ chip_mode' = "sleep" /\ ctrl_hum' = FALSE /\ enabled' = {} /\ measured' = {}
    /\ UNCHANGED <<driver, environment>>

PowerUp ==
    /\ ~ powered /\ powered' = TRUE
    /\ UNCHANGED <<chip_mode, ctrl_hum, enabled, measured, power_losses, driver, environment>>

Measure ==
    /\ chip_mode = "normal" /\ measured' = enabled
    /\ UNCHANGED <<powered, chip_mode, ctrl_hum, enabled, power_losses, driver, environment>>

\* What a register write does to it.
Written(register) ==
    /\ \/ register = "reset" /\ chip_mode' = "sleep" /\ ctrl_hum' = FALSE /\ enabled' = {}
                             /\ measured' = {}
       \/ register = "ctrl_hum" /\ ctrl_hum' = TRUE /\ UNCHANGED <<chip_mode, enabled, measured>>
       \/ register = "ctrl_meas" /\ chip_mode' = "normal" /\ UNCHANGED <<ctrl_hum, measured>>
                                 /\ enabled' = IF ctrl_hum THEN Quantities ELSE {"T", "P"}
       \/ register = "config" /\ UNCHANGED <<chip_mode, ctrl_hum, enabled, measured>>
    /\ UNCHANGED <<powered, power_losses>>

-----------------------------------------------------------------------------
(* init(): readChipId, readCalibration, configureNormalMode.               *)

Reads == {"id", "calib00", "calib26"}

HumidityLast ==                             \* for a mutant of Accesses
    <<"id", "calib00", "calib26", "reset", "config", "ctrl_meas", "ctrl_hum", "wait">>
Accesses ==
    <<"id", "calib00", "calib26", "reset", "config", "ctrl_hum", "ctrl_meas", "wait">>

TasksRun == next_access > Len(Accesses)

AccessWorks ==
    /\ ~ TasksRun /\ powered /\ next_access' = next_access + 1
    /\ LET access == Accesses[next_access]
       IN  /\ access # "wait"
           /\ IF access \in Reads THEN UNCHANGED chip ELSE Written(access)
           /\ cal_' = (cal_ \/ access = "calib26")
    /\ UNCHANGED <<init_ok, environment>>

\* sleep_ms(1000), longer than the first measurement takes; init() is through.
WaitForMeasurement ==
    /\ ~ TasksRun /\ Accesses[next_access] = "wait" /\ next_access' = next_access + 1
    /\ init_ok' = TRUE
    /\ measured' = IF chip_mode = "normal" THEN enabled ELSE measured
    /\ UNCHANGED <<powered, chip_mode, ctrl_hum, enabled, power_losses, cal_, environment>>

\* An access fails, possibly after the chip has taken the value, or the chip has another
\* identity: init() returns false, and main() goes on.
AccessFails ==
    /\ ~ TasksRun /\ Accesses[next_access] # "wait"
    /\ next_access' = Len(Accesses) + 1
    /\ \/ UNCHANGED chip
       \/ powered /\ Accesses[next_access] \notin Reads /\ Written(Accesses[next_access])
    /\ UNCHANGED <<init_ok, cal_, environment>>

-----------------------------------------------------------------------------
(* environment_task: a round of up to RETRY_COUNT reads.                    *)

\* read(): the raw values in the data registers, compensated with cal_.
Computed == [valid |-> TRUE, calibrated |-> cal_, measured |-> measured]

ReadWorks ==
    /\ TasksRun /\ powered /\ latest' = Computed
    /\ tries' = 0 /\ env_line' = "values"
    /\ UNCHANGED <<chip, driver>>

ReadFails ==
    /\ TasksRun
    /\ IF tries + 1 < RETRY_COUNT THEN tries' = tries + 1 /\ UNCHANGED env_line
                                  ELSE tries' = 0 /\ env_line' = "ERR"
    /\ UNCHANGED <<chip, driver, latest>>

\* The board starts; the chip may have been running for long, or not be there.
Bme280Init ==
    /\ powered \in BOOLEAN /\ power_losses = 0
    /\ \/ chip_mode = "sleep" /\ ctrl_hum = FALSE /\ enabled = {} /\ measured = {}
       \/ powered /\ chip_mode = "normal" /\ ctrl_hum = TRUE /\ enabled = Quantities
                  /\ measured = Quantities
    /\ next_access = 1 /\ init_ok = FALSE /\ cal_ = FALSE
    /\ tries = 0 /\ env_line = "none"
    /\ latest = [valid |-> FALSE, calibrated |-> FALSE, measured |-> {}]

Bme280Next ==
    \/ PowerLoss \/ PowerUp \/ Measure
    \/ AccessWorks \/ WaitForMeasurement \/ AccessFails
    \/ ReadWorks \/ ReadFails

Bme280Spec == Bme280Init /\ [][Bme280Next]_bme280_vars

-----------------------------------------------------------------------------
(* Properties.                                                             *)

\* When init() has succeeded and the chip has kept its power, the values that the LCD
\* and the log show as valid are measurements of all three quantities, computed with
\* the chip's calibration.  Neither condition is tested by the code: a chip that did not
\* answer at boot, or was unplugged since, delivers numbers that pass for values.
PublishedIsMeasured ==
    init_ok /\ power_losses = 0 /\ latest.valid =>
        latest.calibrated /\ latest.measured = Quantities
=============================================================================
