----------------------------- MODULE ModeButton -----------------------------
(***************************************************************************)
(* The button (ButtonTask.cpp): button_task debounces the pin, steps through *)
(* the display modes and overwrites a mailbox with the mode selected.       *)
(*                                                                         *)
(* Time is counted in ticks of the poll interval.                          *)
(***************************************************************************)
EXTENDS Integers

CONSTANTS
    Modes,          \* DisplayMode::Max
    DEBOUNCE,       \* DEBOUNCE_MS in polls
    Bounce,         \* the contacts bounce for at most this many polls
    MaxPresses      \* bound: how often the user presses

ASSUME ButtonAssumption ==
    /\ Modes \in Nat \ {0} /\ DEBOUNCE \in Nat \ {0}
    /\ Bounce \in Nat /\ MaxPresses \in Nat

VARIABLES
    pressed,        \* what the finger does
    pin,            \* gpio_get(BUTTON_PIN); TRUE is released (pulled up)
    bouncing,       \* ticks until the contacts are at rest
    steady,         \* ticks since they are, counted up to LongEnough
    presses,
    button,         \* button_task: "poll", "debounce", "held" or "released"
    delay,          \* ticks left of its delay
    prev_state,
    mode,           \* its mode
    steps,          \* how often it has changed it
    display_mode_queue  \* the mailbox: a mode, or -1 when empty

user == <<pressed, pin, bouncing, steady, presses>>
task == <<button, delay, prev_state, mode, steps>>
button_vars == <<user, task, display_mode_queue>>

\* Long enough for the task to see an edge, wait and see the next one.
LongEnough == 2 * DEBOUNCE + 2

-----------------------------------------------------------------------------
(* The user, who presses and releases without haste, and the contacts.      *)

Push ==
    /\ bouncing = 0 /\ steady = LongEnough
    /\ ~ pressed => presses < MaxPresses
    /\ presses' = IF pressed THEN presses ELSE presses + 1
    /\ pressed' = ~ pressed /\ pin' = pressed
    /\ bouncing' = Bounce /\ steady' = 0
    /\ UNCHANGED <<task, display_mode_queue>>

\* A tick; while the contacts bounce the pin shows anything.
Tick ==
    /\ delay > 0 /\ delay' = delay - 1
    /\ bouncing' = IF bouncing > 0 THEN bouncing - 1 ELSE 0
    /\ pin' \in IF bouncing' > 0 THEN BOOLEAN ELSE {~ pressed}
    /\ steady' = IF bouncing = 0 /\ steady < LongEnough THEN steady + 1 ELSE steady
    /\ UNCHANGED <<pressed, presses, button, prev_state, mode, steps, display_mode_queue>>

-----------------------------------------------------------------------------
(* button_task.                                                            *)

\* An edge is looked at again after DEBOUNCE.
Poll ==
    /\ button = "poll" /\ delay = 0
    /\ IF prev_state /\ ~ pin
       THEN button' = "debounce" /\ delay' = DEBOUNCE /\ UNCHANGED prev_state
       ELSE prev_state' = pin /\ delay' = 1 /\ UNCHANGED button
    /\ UNCHANGED <<user, mode, steps, display_mode_queue>>

SendIfEmpty(m) == IF display_mode_queue = -1 THEN m ELSE display_mode_queue  \* for a mutant of Mailbox
Mailbox(m) == m                             \* xQueueOverwrite

NextMode == IF mode + 1 >= Modes THEN 0 ELSE mode + 1

\* Still down: the next mode is selected.  Up again: now_state, read before the
\* delay, becomes prev_state.
Debounced ==
    /\ button = "debounce" /\ delay = 0
    /\ IF ~ pin
       THEN /\ mode' = NextMode /\ steps' = steps + 1
            /\ display_mode_queue' = Mailbox(NextMode)
            /\ button' = "held" /\ UNCHANGED <<delay, prev_state>>
       ELSE /\ prev_state' = FALSE /\ delay' = 1 /\ button' = "poll"
            /\ UNCHANGED <<mode, steps, display_mode_queue>>
    /\ UNCHANGED user

ReleaseAtOnce ==                            \* for a mutant of WaitRelease
    /\ button = "held" /\ delay = 0
    /\ button' = "released" /\ delay' = DEBOUNCE
    /\ UNCHANGED <<user, prev_state, mode, steps, display_mode_queue>>
WaitRelease ==
    /\ button = "held" /\ delay = 0
    /\ IF pin THEN button' = "released" /\ delay' = DEBOUNCE
              ELSE delay' = 1 /\ UNCHANGED button
    /\ UNCHANGED <<user, prev_state, mode, steps, display_mode_queue>>

Released ==
    /\ button = "released" /\ delay = 0
    /\ button' = "poll" /\ prev_state' = TRUE
    /\ UNCHANGED <<user, delay, mode, steps, display_mode_queue>>

ButtonInit ==
    /\ pressed = FALSE /\ pin = TRUE /\ bouncing = 0 /\ steady = LongEnough /\ presses = 0
    /\ button = "poll" /\ delay = 0 /\ prev_state = TRUE /\ mode = 0 /\ steps = 0
    /\ display_mode_queue = -1

\* All that happens by itself, the user's part apart.
ButtonTask == Tick \/ Poll \/ Debounced \/ WaitRelease \/ Released

ButtonNext == Push \/ ButtonTask

ButtonSpec == ButtonInit /\ [][ButtonNext]_button_vars

-----------------------------------------------------------------------------
(* Properties.                                                             *)

\* A press is one step, however the contacts bounce, both going down and coming up:
\* no bounce is a press of its own, and a press that has settled has been seen.
OneStepPerPress ==
    /\ steps <= presses
    /\ steady = LongEnough => steps = presses
=============================================================================
