----------------------------- MODULE DisplayProofs -----------------------------
(***************************************************************************)
(* Proofs about the button and the display: a press is one step, for any   *)
(* debounce time that is not shorter than the bouncing, and between two    *)
(* rounds the screen shows one page.                                      *)
(***************************************************************************)
EXTENDS DisplayControl, TLAPS

-----------------------------------------------------------------------------
(* The button.                                                             *)

ButtonTypes ==
    /\ pressed \in BOOLEAN /\ pin \in BOOLEAN /\ prev_state = TRUE
    /\ bouncing \in 0 .. Bounce /\ steady \in 0 .. LongEnough
    /\ presses \in Nat /\ steps \in Nat /\ delay \in 0 .. DEBOUNCE
    /\ button \in {"poll", "debounce", "held", "released"}

\* The contacts: at rest they show what the finger does.
ContactsInv ==
    /\ bouncing = 0 => (pin <=> ~ pressed)
    /\ bouncing > 0 => steady = 0

\* A change of the pin is seen at the next poll, or at the first one after the bouncing.
SoonSeen == delay <= 1 /\ (bouncing = 0 => steady + delay <= 1)
\* The wait after that outlasts the bouncing, and the user does not act in it.
Waited == bouncing <= delay /\ steady + delay <= DEBOUNCE + 1

\* Where button_task is when the finger is up or down.
TaskInv ==
    /\ button = "poll" /\ ~ pressed => bouncing = 0 /\ delay <= 1
    /\ button = "poll" /\ pressed => SoonSeen
    /\ button = "debounce" => pressed /\ Waited
    /\ button = "held" /\ pressed => bouncing = 0 /\ delay <= 1
    /\ button = "held" /\ ~ pressed => SoonSeen
    /\ button = "released" => ~ pressed /\ Waited

\* A press is counted while its bouncing is waited for.
StepsInv == presses = IF pressed /\ button \in {"poll", "debounce"} THEN steps + 1 ELSE steps

ButtonInv == ButtonTypes /\ ContactsInv /\ TaskInv /\ StepsInv

LEMMA ButtonInvInit == ButtonInit => ButtonInv
<1> SUFFICES ASSUME ButtonInit PROVE ButtonInv
  OBVIOUS
<1> USE ButtonAssumption DEF ButtonInit
<1>1. LongEnough \in Nat /\ LongEnough = 2 * DEBOUNCE + 2
  BY DEF LongEnough
<1>2. ButtonTypes
  <2>1. pressed \in BOOLEAN /\ pin \in BOOLEAN /\ prev_state = TRUE
    BY Zenon
  <2> QED
    BY <1>1, <2>1 DEF ButtonTypes
<1>3. ContactsInv /\ TaskInv /\ StepsInv
  BY <1>1 DEF ContactsInv, TaskInv, StepsInv
<1> QED
  BY <1>2, <1>3 DEF ButtonInv

LEMMA ButtonInvNext ==
  ASSUME ButtonInv, Bounce <= DEBOUNCE, [ButtonNext]_button_vars
  PROVE  ButtonInv'
<1> USE ButtonAssumption DEF user, task
<1>0. ButtonTypes /\ ContactsInv /\ TaskInv /\ StepsInv
  BY DEF ButtonInv
<1>01. LongEnough = 2 * DEBOUNCE + 2
  BY DEF LongEnough
<1>1. CASE Push
  <2>1. /\ bouncing' = Bounce /\ steady' = 0 /\ bouncing = 0 /\ steady = LongEnough
        /\ UNCHANGED <<button, delay, prev_state, steps>>
        /\ pressed' \in BOOLEAN /\ (pressed' <=> ~ pressed)
        /\ pin' \in BOOLEAN /\ (pin' <=> pressed)
        /\ presses' = IF pressed THEN presses ELSE presses + 1
    BY <1>0, <1>1 DEF Push, ButtonTypes
  <2>2. ~ (steady + delay <= 1) /\ ~ (steady + delay <= DEBOUNCE + 1)
    BY <1>0, <1>01, <2>1 DEF ButtonTypes
  <2>3. button = IF pressed THEN "held" ELSE "poll"
    BY <1>0, <2>1, <2>2 DEF ButtonTypes, TaskInv, SoonSeen, Waited
  <2>4. delay <= 1
    BY <1>0, <2>1, <2>3 DEF TaskInv
  <2>5. ButtonTypes'
    BY <1>0, <1>01, <2>1 DEF ButtonTypes, LongEnough
  <2>6. ContactsInv'
    BY <1>0, <2>1 DEF ContactsInv, ButtonTypes
  <2>7. TaskInv'
    BY <1>0, <2>1, <2>3, <2>4 DEF TaskInv, SoonSeen, ButtonTypes
  <2>8. StepsInv'
    BY <1>0, <2>1, <2>3 DEF StepsInv, ButtonTypes
  <2> QED
    BY <2>5, <2>6, <2>7, <2>8 DEF ButtonInv
<1>2. CASE Tick
  <2>1. /\ delay > 0 /\ delay' = delay - 1
        /\ bouncing' = IF bouncing > 0 THEN bouncing - 1 ELSE 0
        /\ pin' \in IF bouncing' > 0 THEN BOOLEAN ELSE {~ pressed}
        /\ steady' = IF bouncing = 0 /\ steady < LongEnough THEN steady + 1 ELSE steady
        /\ UNCHANGED <<pressed, presses, button, prev_state, steps>>
    BY <1>2 DEF Tick
  <2>2. /\ bouncing \in Nat /\ steady \in Nat /\ delay \in Nat /\ Bounce \in Nat
        /\ bouncing' \in 0 .. Bounce /\ steady' \in 0 .. LongEnough /\ delay' \in 0 .. DEBOUNCE
    BY <1>0, <1>01, <2>1 DEF ButtonTypes
  <2>20. pin' \in BOOLEAN /\ (~ (bouncing' > 0) => (pin' <=> ~ pressed))
    <3>1. CASE bouncing' > 0
      BY <2>1, <3>1
    <3>2. CASE ~ (bouncing' > 0)
      <4>1. pin' = ~ pressed
        BY <2>1, <3>2, Zenon
      <4> QED
        BY <3>2, <4>1, Zenon
    <3> QED
      BY <3>1, <3>2
  <2>3. ButtonTypes'
    BY <1>0, <2>1, <2>2, <2>20 DEF ButtonTypes, LongEnough
  <2>4. ContactsInv'
    BY <1>0, <2>1, <2>2, <2>20 DEF ContactsInv
  <2>5. SoonSeen => SoonSeen'
    BY <1>0, <2>1, <2>2 DEF SoonSeen, ContactsInv
  <2>6. Waited => Waited'
    BY <1>0, <2>1, <2>2 DEF Waited, ContactsInv
  <2>7. bouncing = 0 /\ delay <= 1 => bouncing' = 0 /\ delay' <= 1
    BY <2>1, <2>2
  <2>8. TaskInv'
    BY <1>0, <2>1, <2>5, <2>6, <2>7 DEF TaskInv
  <2>9. StepsInv'
    BY <1>0, <2>1 DEF StepsInv
  <2> QED
    BY <2>3, <2>4, <2>8, <2>9 DEF ButtonInv
<1>3. CASE Poll
  <2>1. /\ button = "poll" /\ delay = 0 /\ prev_state
        /\ UNCHANGED <<pressed, pin, bouncing, steady, presses, steps>>
        /\ \/ ~ pin /\ button' = "debounce" /\ delay' = DEBOUNCE /\ prev_state' = prev_state
           \/ pin /\ button' = "poll" /\ delay' = 1 /\ prev_state' = pin
    BY <1>0, <1>3 DEF Poll, ButtonTypes
  <2>10. prev_state' = TRUE
    <3>1. prev_state = TRUE /\ pin \in BOOLEAN
      BY <1>0 DEF ButtonTypes
    <3> QED
      BY <2>1, <3>1, Zenon
  <2>2. ~ pin => pressed /\ SoonSeen
    BY <1>0, <2>1 DEF TaskInv, ContactsInv
  <2>3. pin /\ pressed => bouncing > 0
    BY <1>0, <2>1 DEF ContactsInv, ButtonTypes
  <2>4. ButtonTypes'
    <3>1. delay' \in {1, DEBOUNCE} /\ button' \in {"poll", "debounce"}
      BY <2>1, Zenon
    <3>2. UNCHANGED <<pressed, pin, bouncing, steady, presses, steps>>
      BY <2>1
    <3> QED
      BY <1>0, <3>1, <3>2, <2>10 DEF ButtonTypes, LongEnough
  <2>5. ContactsInv'
    BY <1>0, <2>1 DEF ContactsInv
  <2>6. TaskInv'
    <3>1. CASE ~ pin
      <4>1. bouncing \in Nat /\ steady \in Nat /\ bouncing <= DEBOUNCE
        BY <1>0 DEF ButtonTypes
      <4>2. steady <= 1
        BY <1>0, <2>1, <2>2, <3>1, <4>1 DEF ContactsInv, SoonSeen
      <4>3. delay' = DEBOUNCE /\ bouncing' = bouncing /\ steady' = steady
        BY <2>1, <3>1
      <4>4. Waited'
        BY <4>1, <4>2, <4>3 DEF Waited
      <4>5. pressed'
        BY <2>1, <2>2, <3>1
      <4> QED
        BY <2>1, <3>1, <4>4, <4>5 DEF TaskInv
    <3>2. CASE pin
      <4>1. SoonSeen' \/ ~ pressed
        BY <1>0, <2>1, <2>3, <3>2 DEF SoonSeen, ButtonTypes
      <4> QED
        BY <1>0, <2>1, <3>2, <4>1 DEF TaskInv
    <3> QED
      BY <3>1, <3>2
  <2>7. StepsInv'
    BY <1>0, <2>1 DEF StepsInv
  <2> QED
    BY <2>4, <2>5, <2>6, <2>7 DEF ButtonInv
<1>4. CASE Debounced
  <2>1. button = "debounce" /\ delay = 0 /\ pressed /\ bouncing = 0 /\ ~ pin
    BY <1>0, <1>4 DEF Debounced, TaskInv, ButtonTypes, ContactsInv, Waited
  <2>2. /\ UNCHANGED <<pressed, pin, bouncing, steady, presses, delay, prev_state>>
        /\ steps' = steps + 1 /\ button' = "held"
    BY <1>4, <2>1 DEF Debounced
  <2>3. ButtonTypes'
    BY <1>0, <2>2 DEF ButtonTypes, LongEnough
  <2>4. ContactsInv'
    BY <1>0, <2>2 DEF ContactsInv
  <2>5. TaskInv'
    BY <2>1, <2>2 DEF TaskInv
  <2>6. StepsInv'
    BY <1>0, <2>1, <2>2 DEF StepsInv, ButtonTypes
  <2> QED
    BY <2>3, <2>4, <2>5, <2>6 DEF ButtonInv
<1>5. CASE WaitRelease
  <2>1. /\ button = "held" /\ delay = 0
        /\ UNCHANGED <<pressed, pin, bouncing, steady, presses, prev_state, steps>>
        /\ \/ pin /\ button' = "released" /\ delay' = DEBOUNCE
           \/ ~ pin /\ button' = "held" /\ delay' = 1
    BY <1>5 DEF WaitRelease
  <2>2. pin => ~ pressed /\ SoonSeen
    BY <1>0, <2>1 DEF TaskInv, ContactsInv
  <2>3. ~ pin /\ ~ pressed => bouncing > 0
    BY <1>0, <2>1 DEF ContactsInv, ButtonTypes
  <2>4. ButtonTypes'
    BY <1>0, <2>1 DEF ButtonTypes, LongEnough
  <2>5. ContactsInv'
    BY <1>0, <2>1 DEF ContactsInv
  <2>6. TaskInv'
    BY <1>0, <2>1, <2>2, <2>3 DEF TaskInv, SoonSeen, Waited, ContactsInv, ButtonTypes
  <2>7. StepsInv'
    BY <1>0, <2>1 DEF StepsInv
  <2> QED
    BY <2>4, <2>5, <2>6, <2>7 DEF ButtonInv
<1>6. CASE Released
  <2>1. /\ button = "released" /\ delay = 0 /\ button' = "poll" /\ prev_state' = TRUE
        /\ UNCHANGED <<pressed, pin, bouncing, steady, presses, steps, delay>>
    BY <1>6 DEF Released
  <2>2. ~ pressed /\ bouncing = 0
    BY <1>0, <2>1 DEF TaskInv, Waited, ButtonTypes
  <2>3. ButtonTypes'
    BY <1>0, <2>1 DEF ButtonTypes, LongEnough
  <2>4. ContactsInv'
    BY <1>0, <2>1 DEF ContactsInv
  <2>5. TaskInv' /\ StepsInv'
    BY <1>0, <2>1, <2>2 DEF TaskInv, StepsInv
  <2> QED
    BY <2>3, <2>4, <2>5 DEF ButtonInv
<1>7. CASE UNCHANGED button_vars
  BY <1>0, <1>7 DEF button_vars, ButtonInv, ButtonTypes, ContactsInv, TaskInv, StepsInv,
          SoonSeen, Waited, LongEnough
<1> QED
  BY <1>1, <1>2, <1>3, <1>4, <1>5, <1>6, <1>7 DEF ButtonNext, ButtonTask

LEMMA ButtonInvImplies == ButtonInv => OneStepPerPress
<1> SUFFICES ASSUME ButtonInv PROVE OneStepPerPress
  OBVIOUS
<1>1. ButtonTypes /\ StepsInv /\ TaskInv /\ ContactsInv
  BY DEF ButtonInv
<1>2. presses \in {steps, steps + 1} /\ steps \in Nat
  BY <1>1 DEF ButtonTypes, StepsInv
<1>3. ASSUME steady = LongEnough PROVE steps = presses
  <2>1. bouncing = 0 /\ ~ (steady + delay <= 1) /\ ~ (steady + delay <= DEBOUNCE + 1)
    BY <1>1, <1>3, ButtonAssumption DEF ButtonTypes, ContactsInv, LongEnough
  <2> QED
    BY <1>1, <2>1 DEF TaskInv, StepsInv, SoonSeen, Waited
<1> QED
  BY <1>2, <1>3 DEF OneStepPerPress

\* A press is one step of the mode, however the contacts bounce, if they bounce no
\* longer than DEBOUNCE; a longer bouncing can lose a press.
THEOREM PressIsOneStep ==
  ASSUME Bounce <= DEBOUNCE
  PROVE  ButtonSpec => []OneStepPerPress
<1>1. ButtonInit => ButtonInv
  BY ButtonInvInit
<1>2. ButtonInv /\ [ButtonNext]_button_vars => ButtonInv'
  BY ButtonInvNext
<1>3. ButtonInv => OneStepPerPress
  BY ButtonInvImplies
<1> QED
  BY <1>1, <1>2, <1>3, PTL DEF ButtonSpec

-----------------------------------------------------------------------------
(* The screen.                                                             *)

Cells == (Pages \X {0, 1}) \cup {Blank}

\* A page under way has its first line on the screen, unless one of its bytes failed.
PageInv ==
    /\ lcd_text \in [{0, 1} -> [1 .. Cols -> Cells]]
    /\ page \in Pages /\ current_mode \in 0 .. Modes - 1
    /\ display_mode_queue \in {-1} \cup (0 .. Modes - 1) /\ mode \in 0 .. Modes - 1
    /\ round = "start" => ~ lcd_initialized
    /\ round = "line1" /\ ~ lcd_failed => lcd_text[0] = Line(page, 0)
    /\ ScreenIsOnePage

LEMMA PageFacts ==
  /\ Cols \in Nat \ {0} /\ Modes \in Nat \ {0}
  /\ {-2, -1} \cup (0 .. Modes - 1) \subseteq Pages
  /\ BlankScreen \in [{0, 1} -> [1 .. Cols -> Cells]]
  /\ \A p \in Pages, line \in {0, 1} : Line(p, line) \in [1 .. Cols -> Cells]
  BY LcdAssumption, ButtonAssumption, DisplayAssumption DEF BlankScreen, Line, Cells

\* What writing the first n characters of a line leaves.
LEMMA WrittenLines ==
  ASSUME lcd_text \in [{0, 1} -> [1 .. Cols -> Cells]], NEW p \in Pages,
         NEW line \in {0, 1}, NEW n \in 0 .. Cols
  PROVE  /\ Written(p, line, n) \in [{0, 1} -> [1 .. Cols -> Cells]]
         /\ Written(p, line, n)[1 - line] = lcd_text[1 - line]
         /\ n = Cols => Written(p, line, n)[line] = Line(p, line)
<1> DEFINE l == [c \in 1 .. Cols |-> IF c <= n THEN Line(p, line)[c] ELSE lcd_text[line][c]]
<1>1. l \in [1 .. Cols -> Cells]
  BY PageFacts
<1>2. n = Cols => l = Line(p, line)
  BY PageFacts
<1>3. Written(p, line, n) = [lcd_text EXCEPT ![line] = l]
  BY DEF Written
<1> HIDE DEF l
<1>4. 1 - line \in {0, 1} /\ 1 - line # line
  OBVIOUS
<1> QED
  BY <1>1, <1>2, <1>3, <1>4

\* Between two rounds the screen shows one page and nothing left from another, when
\* every byte of this page was acknowledged.
THEOREM OnePage == Spec => []ScreenIsOnePage
<1> USE DEF PageInv, lcd, display
<1>1. Init => PageInv
  BY PageFacts DEF Init, ButtonInit, LcdInit, StartPage, ScreenIsOnePage
<1>2. PageInv /\ [Next]_vars => PageInv'
  <2> SUFFICES ASSUME PageInv, [Next]_vars PROVE PageInv'
    OBVIOUS
  <2>1. CASE SelectMode
    <3>1. UNCHANGED <<round, current_mode, page, lcd_initialized, lcd_text, lcd_failed>>
      BY <2>1 DEF SelectMode
    <3>2. /\ mode' \in 0 .. Modes - 1
          /\ display_mode_queue' \in {-1} \cup (0 .. Modes - 1)
      BY <2>1, PageFacts DEF SelectMode, ButtonNext, ButtonTask, Push, Tick, Poll, Debounced,
              WaitRelease, Released, Mailbox, NextMode, user, task
    <3> QED
      BY <3>1, <3>2 DEF ScreenIsOnePage, Screen, Line
  <2>2. CASE Start
    BY <2>2, PageFacts DEF Start, InitWorks, InitFails, StartPage, ScreenIsOnePage,
            button_vars, task
  <2>3. CASE CheckSensor
    BY <2>3, PageFacts DEF CheckSensor, NoReading, ScreenIsOnePage, button_vars, task
  <2>4. CASE ReadSensor
    BY <2>4 DEF ReadSensor, ScreenIsOnePage, button_vars, task
  <2>5. CASE ReadMailbox
    <3>1. lcd_text' \in [{0, 1} -> [1 .. Cols -> Cells]]
      BY <2>5, PageFacts DEF ReadMailbox, Clear
    <3>2. current_mode' \in 0 .. Modes - 1 /\ page' \in Pages
      BY <2>5, PageFacts DEF ReadMailbox, NoReading
    <3> QED
      BY <2>5, <3>1, <3>2 DEF ReadMailbox, ScreenIsOnePage, task
  <2>6. ASSUME WriteLcd, round = "line0" PROVE PageInv'
    <3>1. /\ round' = "line1" /\ page' = page /\ PrintLine(page, 0)
          /\ UNCHANGED <<current_mode, lcd_initialized, mode, display_mode_queue>>
      BY <2>6 DEF WriteLcd, button_vars, task
    <3>2. PICK n \in 0 .. Cols : lcd_text' = Written(page, 0, n) /\ (~ lcd_failed' => n = Cols)
      BY <3>1, PageFacts DEF PrintLine
    <3>3. lcd_text' \in [{0, 1} -> [1 .. Cols -> Cells]] /\ (~ lcd_failed' => lcd_text'[0] = Line(page, 0))
      BY <3>2, WrittenLines
    <3> QED
      BY <3>1, <3>3 DEF ScreenIsOnePage, Line
  <2>7. ASSUME WriteLcd, round = "line1" PROVE PageInv'
    <3>1. /\ round' = "check" /\ page' = page /\ PrintLine(page, 1)
          /\ UNCHANGED <<current_mode, lcd_initialized, mode, display_mode_queue>>
      BY <2>7 DEF WriteLcd, button_vars, task
    <3>2. PICK n \in 0 .. Cols : lcd_text' = Written(page, 1, n)
                                 /\ (~ lcd_failed' => n = Cols /\ ~ lcd_failed)
      <4>1. CASE lcd_there /\ lcd_text' = Written(page, 1, Cols) /\ lcd_failed' = (lcd_failed /\ 1 = 1)
        <5>1. ~ lcd_failed' => ~ lcd_failed
          BY <4>1
        <5>2. Cols \in 0 .. Cols
          BY PageFacts
        <5> QED
          BY <4>1, <5>1, <5>2
      <4>2. CASE \E n \in 0 .. Cols : lcd_text' = Written(page, 1, n) /\ lcd_failed' = TRUE
        BY <4>2
      <4> QED
        BY <3>1, <4>1, <4>2 DEF PrintLine
    <3>3. /\ lcd_text' \in [{0, 1} -> [1 .. Cols -> Cells]] /\ lcd_text'[0] = lcd_text[0]
          /\ n = Cols => lcd_text'[1] = Line(page, 1)
      BY <3>2, WrittenLines
    <3>4. ASSUME ~ lcd_failed' PROVE lcd_text' = Screen(page)
      <4>1. \A line \in {0, 1} : lcd_text'[line] = Line(page, line)
        BY <2>7, <3>2, <3>3, <3>4
      <4> QED
        BY <3>3, <4>1 DEF Screen
    <3>5. Screen(page)' = Screen(page)
      BY <3>1 DEF Screen, Line
    <3> QED
      BY <3>1, <3>3, <3>4, <3>5 DEF ScreenIsOnePage
  <2>8. CASE SensorChanges \/ LcdComesAndGoes \/ MaintenanceChanges \/ UNCHANGED vars
    <3>1. UNCHANGED <<round, current_mode, page, lcd_initialized, lcd_text, lcd_failed, mode,
                      display_mode_queue>>
      BY <2>8 DEF SensorChanges, LcdComesAndGoes, LcdChanges, MaintenanceChanges, vars,
            button_vars, task
    <3> QED
      BY <3>1 DEF ScreenIsOnePage, Screen, Line
  <2> QED
    BY <2>1, <2>2, <2>3, <2>4, <2>5, <2>6, <2>7, <2>8 DEF Next, TemperatureTask, WriteLcd
<1>3. PageInv => ScreenIsOnePage
  BY DEF PageInv
<1> QED
  BY <1>1, <1>2, <1>3, PTL DEF Spec
=============================================================================
