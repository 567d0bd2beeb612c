---------------------------- MODULE DisplayControl ----------------------------
(***************************************************************************)
(* The button selects what the LCD shows: button_task (ModeButton)          *)
(* overwrites a mailbox of one mode, which temperature_task looks at in     *)
(* each of its rounds in which the sensor is there, before it writes the    *)
(* page of the mode to the LCD (Aqm0802).                                  *)
(*                                                                         *)
(* A round of temperature_task takes as long as it takes. It begins none    *)
(* while the flash is under maintenance, which FlashLogStorage says (there  *)
(* the flag stays up after a failed eraseLogArea).                         *)
(***************************************************************************)
EXTENDS ModeButton, Aqm0802

ASSUME DisplayAssumption == {-2, -1} \cup (0 .. Modes - 1) \subseteq Pages

VARIABLES
    round,          \* temperature_task: "start", then "check", "read", "mail", and
                    \* "line0" and "line1" of the page
    current_mode,
    page,           \* the page it writes
    lcd_initialized,
    initialized,    \* AEADT7410::initialized_
    answers,        \* the sensor is there
    busy            \* g_flash_maintenance_busy

display == <<round, current_mode, page, lcd_initialized, initialized, lcd>>
vars == <<button_vars, display, answers, busy>>

-----------------------------------------------------------------------------
(* temperature_task.                                                       *)

\* Pages that are not those of a mode.
StartPage == -1
NoReading == -2                             \* "T:--.--", "NG"

\* Before the loop: lcd_initialized is decided once and for all.
Start ==
    /\ round = "start"
    /\ \/ InitWorks /\ lcd_initialized' = TRUE /\ round' = "line0"
       \/ InitFails /\ lcd_initialized' = FALSE /\ round' = "check"
    /\ page' = StartPage
    /\ UNCHANGED <<button_vars, current_mode, initialized, answers,
                   busy, lcd_there, lcd_failed>>

\* The top of the loop: under maintenance the task only looks again, 100 ms later. A
\* sensor that cannot be initialized ends the round, with its own page in any mode and
\* without a look at the mailbox.
CheckSensor ==
    /\ round = "check" /\ ~ busy
    /\ \/ /\ ~ initialized /\ ~ answers
          /\ round' = IF lcd_initialized THEN "line0" ELSE "check"
          /\ page' = NoReading /\ UNCHANGED initialized
       \/ /\ initialized \/ answers
          /\ initialized' = TRUE /\ round' = "read" /\ UNCHANGED page
    /\ UNCHANGED <<button_vars, current_mode, lcd_initialized, lcd,
                   answers, busy>>

StayInitialized == TRUE                     \* for a mutant of AfterReads
\* Three failed reads send it back to init() in the next round.
AfterReads == answers

ReadSensor ==
    /\ round = "read" /\ round' = "mail" /\ initialized' = AfterReads
    /\ UNCHANGED <<button_vars, current_mode, page, lcd_initialized, lcd,
                   answers, busy>>

\* The mailbox is emptied; a new mode clears the LCD.
ReadMailbox ==
    /\ round = "mail" /\ display_mode_queue' = -1
    /\ current_mode' = IF display_mode_queue = -1 THEN current_mode ELSE display_mode_queue
    /\ IF display_mode_queue # -1 /\ lcd_initialized THEN Clear ELSE UNCHANGED lcd_text
    /\ round' = IF lcd_initialized THEN "line0" ELSE "check"
    /\ page' = IF current_mode' = 0 /\ ~ initialized THEN NoReading ELSE current_mode'
    /\ UNCHANGED <<user, task, lcd_initialized, initialized, answers, busy,
                   lcd_there, lcd_failed>>

\* The two calls of printLine, the second whatever became of the first.
WriteLcd ==
    /\ \/ round = "line0" /\ PrintLine(page, 0) /\ round' = "line1"
       \/ round = "line1" /\ PrintLine(page, 1) /\ round' = "check"
    /\ UNCHANGED <<button_vars, current_mode, page, lcd_initialized,
                   initialized, answers, busy, lcd_there>>

-----------------------------------------------------------------------------

\* What is plugged in or acknowledges may change at any time.
SensorChanges ==
    /\ answers' = ~ answers
    /\ UNCHANGED <<button_vars, display, busy>>

\* An erase command begins or ends, a failed one or a good one.
MaintenanceChanges ==
    /\ busy' = ~ busy
    /\ UNCHANGED <<button_vars, display, answers>>

LcdComesAndGoes ==
    /\ LcdChanges
    /\ UNCHANGED <<button_vars, round, current_mode, page,
                   lcd_initialized, initialized, answers, busy>>

SelectMode ==
    /\ ButtonNext
    /\ UNCHANGED <<display, answers, busy>>

Init ==
    /\ ButtonInit /\ LcdInit
    /\ round = "start" /\ current_mode = 0 /\ page = StartPage
    /\ lcd_initialized = FALSE /\ initialized = FALSE /\ answers \in BOOLEAN
    /\ busy = FALSE

TemperatureTask == Start \/ CheckSensor \/ ReadSensor \/ ReadMailbox \/ WriteLcd

Next ==
    \/ SelectMode \/ TemperatureTask
    \/ SensorChanges \/ LcdComesAndGoes \/ MaintenanceChanges

Spec == Init /\ [][Next]_vars

\* Time passes and both tasks run; nobody has to press, nothing has to come or go.
FairSpec ==
    /\ Spec
    /\ WF_vars(ButtonTask /\ UNCHANGED <<display, answers, busy>>)
    /\ WF_vars(TemperatureTask)

-----------------------------------------------------------------------------
(* Properties.                                                             *)

\* Between two rounds the screen shows one page and nothing left from another, when
\* every byte of this page was acknowledged, whatever went wrong before: failed writes
\* and a failed clear are made good by the next page.
ScreenIsOnePage ==
    round = "check" /\ lcd_initialized /\ ~ lcd_failed => lcd_text = Screen(page)

\* When the user leaves the button alone, the sensor answers, the LCD acknowledges and
\* no maintenance is under way, the screen ends up with the mode selected last, although
\* modes in between may be overwritten in the mailbox unseen. Maintenance that never
\* ends is a failed eraseLogArea: then the page of before stays.
Settled == <>[][UNCHANGED presses]_vars
DisplayFollowsButton ==
    Settled /\ <>[]answers /\ <>[]lcd_there /\ <>[]~ busy =>
        <>[](current_mode = mode /\ (lcd_initialized => lcd_text = Screen(mode)))

\* When the sensor is gone for good and no maintenance is under way, the screen says so,
\* whatever mode was selected and is selected: the button has no effect until the sensor
\* is back.
MissingSensorShown ==
    <>[]~ answers /\ <>[]lcd_there /\ <>[]~ busy =>
        <>[](lcd_initialized => lcd_text = Screen(NoReading))
=============================================================================
