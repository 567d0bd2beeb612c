----------------------------- MODULE CommandLine -----------------------------
(***************************************************************************)
(* The line editor and the parser of command_task (task_command.cpp): keys *)
(* are collected in a buffer of fixed size, backspace takes one back, Enter *)
(* runs the line, and a line that is too long is thrown away.              *)
(*                                                                         *)
(* What a command does to the log and to the tasks is modelled elsewhere    *)
(* (FlashLogStorage, FlashLogDump, EventLogger, SharedIo); here a command   *)
(* is the name under which it is called, in lower case, and its count.     *)
(***************************************************************************)
EXTENDS Integers, Sequences, SequencesExt

CONSTANTS
    CMD_BUF_SIZE,
    Keys,           \* the keys pressed besides Enter and backspace, NUL among them
    MaxLatest,      \* the cap of parseLatestCount
    ULONG_MAX,      \* where strtoul saturates
    MaxKeys         \* bound: keys pressed in one behaviour

ASSUME CommandLineAssumption ==
    /\ CMD_BUF_SIZE \in Nat \ {0, 1}
    /\ MaxLatest \in Nat \ {0} /\ ULONG_MAX \in Nat /\ ULONG_MAX >= MaxLatest
    /\ MaxKeys \in Nat /\ "BS" \notin Keys

VARIABLES
    cmd_buf, pos,
    done,           \* the last line that was run: its command, and the keys it was made of
    typed,          \* history: the keys pressed since the last prompt
    keystrokes      \* keys pressed so far

command_vars == <<cmd_buf, pos, done, typed, keystrokes>>

NUL == "NUL"
Uninitialized == "?"
Digits == <<"0", "1", "2", "3", "4", "5", "6", "7", "8", "9">>
DigitValue(key) == (CHOOSE i \in 1 .. 10 : Digits[i] = key) - 1
IsDigit(key) == \E i \in 1 .. 10 : Digits[i] = key
Blanks == {" ", "TAB"}

-----------------------------------------------------------------------------
(* The parser.                                                             *)

\* The C string that begins at the start of the buffer.
CString(buf) ==
    LET end == CHOOSE i \in 0 .. CMD_BUF_SIZE :
                  /\ i = CMD_BUF_SIZE \/ buf[i] = NUL
                  /\ \A j \in 0 .. i - 1 : buf[j] # NUL
    IN  [i \in 1 .. end |-> buf[i - 1]]

\* The longest beginning of a line whose characters all pass a test.
Leading(line, Test(_)) ==
    LET n == CHOOSE i \in 0 .. Len(line) :
                /\ \A j \in 1 .. i : Test(line[j])
                /\ i = Len(line) \/ ~ Test(line[i + 1])
    IN  SubSeq(line, 1, n)

SkipSpaces(line) ==
    LET blanks == Leading(line, LAMBDA c : c \in Blanks)
    IN  SubSeq(line, Len(blanks) + 1, Len(line))

Saturated(value) == IF value > ULONG_MAX THEN ULONG_MAX ELSE value

\* strtoul reads the digits there are and leaves the rest.
Strtoul(line) ==
    LET digits == Leading(line, IsDigit)
        value[n \in 0 .. Len(digits)] ==
            IF n = 0 THEN 0 ELSE Saturated(10 * value[n - 1] + DigitValue(digits[n]))
    IN  value[Len(digits)]

Uncapped(value) == value                    \* for a mutant of Capped
Capped(value) == IF value > MaxLatest THEN MaxLatest ELSE value

NoCount == 0

\* parseLatestCount, NoCount where it returns false.
ParseLatestCount(line) ==
    IF line # << >> /\ line[1] = "l"
    THEN Capped(Strtoul(SkipSpaces(Tail(line))))
    ELSE NoCount

\* The chain of comparisons in command_task.
CommandOf(line) ==
    IF \E c \in {"h", "s", "p", "r", "a", "e"} : line = <<c>>
    THEN [name |-> line[1], count |-> NoCount]
    ELSE IF ParseLatestCount(line) # NoCount
    THEN [name |-> "l", count |-> ParseLatestCount(line)]
    ELSE [name |-> "unknown", count |-> NoCount]

-----------------------------------------------------------------------------
(* The editor.                                                             *)

Press == keystrokes < MaxKeys /\ keystrokes' = keystrokes + 1

Unterminated == cmd_buf                     \* for a mutant of Terminated
Terminated == [cmd_buf EXCEPT ![pos] = NUL]

\* Enter: an empty line does nothing, any other is run; then comes a new prompt.
Enter ==
    /\ Press /\ cmd_buf' = Terminated
    /\ done' = IF pos > 0 THEN [command |-> CommandOf(CString(Terminated)), typed |-> typed]
               ELSE done
    /\ pos' = 0 /\ typed' = << >>

BackspaceAlways == TRUE                     \* for a mutant of SomethingToErase
SomethingToErase == pos > 0

Backspace ==
    /\ Press
    /\ pos' = IF SomethingToErase THEN pos - 1 ELSE pos
    /\ typed' = Append(typed, "BS")
    /\ UNCHANGED <<cmd_buf, done>>

RoomForKeyOnly == pos < CMD_BUF_SIZE        \* for a mutant of RoomForKey
RoomForKey == pos < CMD_BUF_SIZE - 1        \* and for the terminator

Character(key) ==
    /\ Press /\ RoomForKey
    /\ cmd_buf' = [cmd_buf EXCEPT ![pos] = key] /\ pos' = pos + 1
    /\ typed' = Append(typed, key)
    /\ UNCHANGED done

\* The line so far and this key are dropped; what follows is a line of its own.
TooLong(key) ==
    /\ Press /\ ~ RoomForKey
    /\ pos' = 0 /\ typed' = << >>
    /\ UNCHANGED <<cmd_buf, done>>

CommandLineInit ==
    /\ cmd_buf = [i \in 0 .. CMD_BUF_SIZE - 1 |-> Uninitialized] /\ pos = 0
    /\ done = [command |-> [name |-> "none", count |-> NoCount], typed |-> << >>]
    /\ typed = << >> /\ keystrokes = 0

CommandLineNext == Enter \/ Backspace \/ \E key \in Keys : Character(key) \/ TooLong(key)

CommandLineSpec == CommandLineInit /\ [][CommandLineNext]_command_vars

-----------------------------------------------------------------------------
(* Properties.                                                             *)

\* The buffer and what it holds; the terminator always has a place in it.
TypeOK ==
    /\ cmd_buf \in [0 .. CMD_BUF_SIZE - 1 -> Keys \cup {NUL, Uninitialized}]
    /\ pos \in 0 .. CMD_BUF_SIZE - 1
    /\ keystrokes \in 0 .. MaxKeys

\* What the user sees behind the prompt: each key, less those taken back.
ShownAfter(shown, key) ==
    IF key # "BS" THEN Append(shown, key)
    ELSE IF shown = << >> THEN shown ELSE Front(shown)
OnScreen(keys) ==
    LET shown[i \in 0 .. Len(keys)] ==
            IF i = 0 THEN << >> ELSE ShownAfter(shown[i - 1], keys[i])
    IN  shown[Len(keys)]

\* On the screen a NUL is invisible, and for the parser it ends the line.
LineOf(keys) == Leading(OnScreen(keys), LAMBDA c : c # NUL)

\* A command is made of the keys pressed since the last prompt and of nothing else:
\* no character of an earlier, longer line still in the buffer, none that was taken
\* back, none before the message "command too long", whose tail is a new line with a
\* prompt of its own.
RunsWhatWasTyped ==
    done.command.name # "none" =>
        done.command = CommandOf(LineOf(done.typed))

\* "lN : send latest N frames" (printHelp): a line that is l, then blanks or not,
\* then the numeral of N, asks for the last N frames, or for MaxLatest if N is more;
\* l0 is no command.
Numeral(digits) ==
    LET value[n \in 0 .. Len(digits)] ==
            IF n = 0 THEN 0 ELSE 10 * value[n - 1] + DigitValue(digits[n])
    IN  value[Len(digits)]

LatestMeansN ==
    LET line == OnScreen(done.typed)
    IN  \A blanks \in 0 .. Len(line) - 2 :
            LET digits == SubSeq(line, blanks + 2, Len(line))
            IN  /\ line[1] = "l"
                /\ \A i \in 2 .. blanks + 1 : line[i] \in Blanks
                /\ \A i \in DOMAIN digits : IsDigit(digits[i])
                => done.command =
                     IF Numeral(digits) = 0 THEN [name |-> "unknown", count |-> NoCount]
                     ELSE [name |-> "l",
                           count |-> IF Numeral(digits) <= MaxLatest THEN Numeral(digits)
                                     ELSE MaxLatest]
=============================================================================
