------------------------------- MODULE Aqm0802 -------------------------------
(***************************************************************************)
(* The LCD and its driver (AQM0802.cpp).  A character on the screen is      *)
(* known by the page and the line it belongs to; which values a page shows  *)
(* is left out.                                                            *)
(*                                                                         *)
(* Every byte is a transaction of its own.  Nobody else writes to the LCD,  *)
(* so a line counts as one step, in which any of its bytes may be the first *)
(* to fail; the driver then leaves the rest of the line as it was.          *)
(***************************************************************************)
EXTENDS Integers

CONSTANTS
    Cols,           \* characters of a line, 8 in the code
    Pages,          \* what can be shown, numbers
    TextLength      \* characters of the text of <<page, line>>

ASSUME LcdAssumption ==
    /\ Cols \in Nat \ {0} /\ Pages \subseteq Int
    /\ TextLength \in [Pages \X {0, 1} -> 0 .. Cols]

VARIABLES
    lcd_there,      \* the LCD acknowledges what is written to it
    lcd_text,       \* by line and column
    lcd_failed      \* history: a byte of the last page was not acknowledged

lcd == <<lcd_there, lcd_text, lcd_failed>>

Blank == << >>
BlankScreen == [line \in {0, 1} |-> [c \in 1 .. Cols |-> Blank]]

\* printLine: the text, with blanks up to the end of the line.
Line(page, line) ==
    [c \in 1 .. Cols |-> IF c <= TextLength[<<page, line>>] THEN <<page, line>> ELSE Blank]

Screen(page) == [line \in {0, 1} |-> Line(page, line)]

Unpadded(page, line, n) ==                  \* for a mutant of Written
    [lcd_text EXCEPT ![line] =
        [c \in 1 .. Cols |-> IF c <= n /\ c <= TextLength[<<page, line>>]
                             THEN <<page, line>> ELSE @[c]]]
\* The first n characters of a line are written over the old ones.
Written(page, line, n) ==
    [lcd_text EXCEPT ![line] =
        [c \in 1 .. Cols |-> IF c <= n THEN Line(page, line)[c] ELSE @[c]]]

\* setCursor and print.  A byte whose acknowledgement is lost may be shown all the same.
PrintLine(page, line) ==
    \/ lcd_there /\ lcd_text' = Written(page, line, Cols)
                 /\ lcd_failed' = (lcd_failed /\ line = 1)
    \/ ~ lcd_there /\ \E n \in 0 .. Cols : lcd_text' = Written(page, line, n)
                   /\ lcd_failed' = TRUE

Clear ==
    \/ lcd_text' = BlankScreen
    \/ ~ lcd_there /\ UNCHANGED lcd_text

\* init(): all nine commands work, the last of which clears, or one fails.
InitWorks == lcd_there /\ lcd_text' = BlankScreen
InitFails == ~ lcd_there /\ UNCHANGED lcd_text

LcdChanges == lcd_there' = ~ lcd_there /\ UNCHANGED <<lcd_text, lcd_failed>>

LcdInit == lcd_there \in BOOLEAN /\ lcd_text = BlankScreen /\ lcd_failed = FALSE
=============================================================================
