------------------------------ MODULE LogViewer ------------------------------
(***************************************************************************)
(* The receiving end of the stream: debug/logger_viewer.py finds the frames *)
(* in the bytes of the serial line (sync_to_magic, read_frame), checks their *)
(* CRC and keeps statistics of their sequence numbers (update_seq_stats).   *)
(*                                                                         *)
(* A frame is: magic 0, magic 1, seq, length, payload, crc, each a cell of  *)
(* the line.  A cell shows a byte to a reader that takes it for something   *)
(* else than what it is; the CRC fits only the frame it was computed for.  *)
(***************************************************************************)
EXTENDS Integers, Sequences, FiniteSets

CONSTANTS
    MAGIC0, MAGIC1, \* bytes
    MaxByte,        \* bound: bytes are 0 .. MaxByte
    Payloads,       \* the payloads of the firmware
    CrcBytes,       \* the bytes a CRC may show
    MaxSeq,         \* bound: numbers the firmware gives out are 0 .. MaxSeq
    MaxDamage,      \* bound: damaged bytes
    MaxSent         \* bound: frames sent

Byte == 0 .. MaxByte

ASSUME ViewerAssumption ==
    /\ MaxByte \in Nat /\ MAGIC0 \in Byte /\ MAGIC1 \in Byte /\ MAGIC0 # MAGIC1
    /\ CrcBytes \subseteq Byte /\ CrcBytes # {}
    /\ \A payload \in Payloads : payload \in Seq(Byte) /\ Len(payload) \in Byte
    /\ MaxSeq \in Byte /\ MaxDamage \in Nat /\ MaxSent \in Nat

VARIABLES
    seq,            \* the next number of the firmware
    pending,        \* numbers given out whose events were not sent: they wait in a
                    \* task or in the queue, or were dropped and stay here for good
    old,            \* such numbers from before the numbers were restarted
    stored,         \* frames that a dump may send again
    overtaken,      \* history: numbers sent live after a greater one
    restarted,      \* history: the command e has restarted the numbers
    frames,         \* history: the frames sent so far
    sent,           \* history: how many they were, live and in dumps
    line,           \* cells on their way
    mode,           \* what is read next: "magic", "header", "payload" or "crc"
    prev,           \* the byte before, while looking for the magic, or -1
    got,            \* the bytes of the frame read so far, from seq on
    stats,          \* class Stats; expected is -1 for None
    received,       \* numbers of the frames found intact
    damaged, dumped

numbers == <<seq, pending, old>>
device == <<numbers, stored, overtaken, restarted, frames, sent, dumped>>
viewer == <<mode, prev, got, stats, received>>
vars == <<device, line, viewer, damaged>>

-----------------------------------------------------------------------------
(* The line.                                                               *)

NoFrame == << >>
Cell(b) == [byte |-> b, fits |-> NoFrame]

\* What the CRC covers, magic apart: seq, length and payload.
Content(s, payload) == <<s, Len(payload)>> \o payload

Cells(content, crc) ==
    <<Cell(MAGIC0), Cell(MAGIC1)>>
    \o [i \in DOMAIN content |-> Cell(content[i])]
    \o <<[byte |-> crc, fits |-> content]>>

\* makeEvent gives an event its number.  Whether it comes to be sent, and when, is
\* not decided yet: its task may be overtaken on the way to the queue, and the queue
\* or the UART ring may be full.
TakeNumber ==
    /\ seq <= MaxSeq /\ seq' = seq + 1 /\ pending' = pending \cup {seq}
    /\ UNCHANGED <<old, stored, overtaken, restarted, frames, sent, dumped, line, viewer, damaged>>

OnLine(content, crc) ==
    /\ line = << >> /\ sent < MaxSent /\ line' = Cells(content, crc)
    /\ sent' = sent + 1 /\ frames' = frames \cup {content}

\* The logger task sends an event and stores it.
SendLive(n, payload, crc) ==
    /\ OnLine(Content(n, payload), crc)
    /\ \/ n \in pending /\ pending' = pending \ {n} /\ UNCHANGED old
       \/ n \in old /\ old' = old \ {n} /\ UNCHANGED pending
    /\ stored' = stored \cup {Content(n, payload)}
    /\ overtaken' = IF \E content \in stored : content[1] > n
                    THEN overtaken \cup {n} ELSE overtaken
    /\ UNCHANGED <<seq, restarted, dumped, viewer, damaged>>

\* The command e: the log is erased and the next number is 0 again.
RestartNumbers ==
    /\ ~ restarted /\ restarted' = TRUE
    /\ stored' = {} /\ overtaken' = {}
    /\ seq' = 0 /\ old' = pending /\ pending' = {}
    /\ UNCHANGED <<frames, sent, dumped, line, viewer, damaged>>

\* A dump sends a stored frame; its numbers come in again.
SendStored(content, crc) ==
    /\ OnLine(content, crc)
    /\ content \in stored /\ dumped' = dumped + 1
    /\ UNCHANGED <<numbers, stored, overtaken, restarted, viewer, damaged>>

\* A byte is lost or changed on the line.
Damage ==
    /\ line # << >> /\ damaged < MaxDamage /\ damaged' = damaged + 1
    /\ \/ line' = Tail(line)
       \/ \E b \in Byte : b # Head(line).byte /\ line' = <<Cell(b)>> \o Tail(line)
    /\ UNCHANGED <<device, viewer>>

-----------------------------------------------------------------------------
(* The viewer.                                                             *)

NoStats == [ok |-> 0, crc_ng |-> 0, gap |-> 0, late |-> 0, dup |-> 0, expected |-> -1]

LateMovesOn(s) ==                           \* for a mutant of UpdateSeqStats
    LET e == stats.expected
        counted == [stats EXCEPT !.ok = @ + 1, !.expected = s + 1]
    IN  IF e = -1 \/ s = e THEN counted
        ELSE IF s > e THEN [counted EXCEPT !.gap = @ + s - e]
        ELSE [counted EXCEPT !.late = @ + 1]

\* update_seq_stats and the count of good frames; a late frame or a duplicate
\* does not move what is expected.
UpdateSeqStats(s) ==
    LET e == stats.expected
        counted == [stats EXCEPT !.ok = @ + 1]
    IN  IF e = -1 \/ s = e THEN [counted EXCEPT !.expected = s + 1]
        ELSE IF s > e THEN [counted EXCEPT !.gap = @ + s - e, !.expected = s + 1]
        ELSE IF s = e - 1 THEN [counted EXCEPT !.dup = @ + 1]
        ELSE [counted EXCEPT !.late = @ + 1]

Restart == mode' = "magic" /\ prev' = -1 /\ got' = << >>

\* sync_to_magic with one byte read
SyncInPairs(b) ==                           \* for a mutant of Sync
    IF prev = MAGIC0 /\ b = MAGIC1
    THEN mode' = "header" /\ prev' = -1
    ELSE mode' = mode /\ prev' = IF prev = -1 THEN b ELSE -1
Sync(b) ==
    IF prev = MAGIC0 /\ b = MAGIC1
    THEN mode' = "header" /\ prev' = -1 ELSE mode' = mode /\ prev' = b

\* The header is complete with its second cell, the payload after as many bytes
\* as the length says.
Body(b) ==
    /\ got' = Append(got, b)
    /\ mode' = IF Len(got') < 2 THEN "header"
               ELSE IF Len(got') < 2 + got'[2] THEN "payload" ELSE "crc"

Frame(crc) ==
    IF crc.fits = got
    THEN /\ stats' = UpdateSeqStats(got[1])
         /\ received' = received \cup {got[1]}
    ELSE /\ stats' = [stats EXCEPT !.crc_ng = @ + 1, !.expected = -1]
         /\ UNCHANGED received

\* One byte read from the line.
Read ==
    /\ line # << >> /\ line' = Tail(line)
    /\ \/ /\ mode = "magic" /\ Sync(Head(line).byte)
          /\ UNCHANGED <<got, stats, received>>
       \/ /\ mode \in {"header", "payload"} /\ Body(Head(line).byte)
          /\ UNCHANGED <<prev, stats, received>>
       \/ mode = "crc" /\ Frame(Head(line)) /\ Restart
    /\ UNCHANGED <<device, damaged>>

\* The line is silent for longer than the read timeout: what was read of a frame
\* is given up.
ReadTimeout ==
    /\ line = << >> /\ (mode # "magic" \/ prev # -1)
    /\ Restart /\ UNCHANGED <<device, line, stats, received, damaged>>

Init ==
    /\ seq = 0 /\ pending = {} /\ old = {} /\ stored = {} /\ overtaken = {}
    /\ restarted = FALSE /\ frames = {} /\ sent = 0 /\ dumped = 0 /\ line = << >> /\ damaged = 0
    /\ mode = "magic" /\ prev = -1 /\ got = << >> /\ stats = NoStats
    /\ received = {}

Next ==
    \/ \E n \in pending \cup old, payload \in Payloads, crc \in CrcBytes :
          SendLive(n, payload, crc)
    \/ \E content \in stored, crc \in CrcBytes : SendStored(content, crc)
    \/ TakeNumber \/ RestartNumbers \/ Damage \/ Read \/ ReadTimeout

Spec == Init /\ [][Next]_vars

-----------------------------------------------------------------------------
(* Properties.                                                             *)

Quiet == line = << >> /\ mode = "magic"

\* On a line that damages nothing every frame is found, whatever bytes its payload and
\* its CRC hold and however the numbers come, and what the statistics say of the
\* numbers is, until they are restarted: a gap is an event that had not come when a
\* newer one did, because it was dropped or overtaken on its way to the queue, and
\* what is late or twice came from a dump or was overtaken.  An overtaken event is
\* thus counted both as a gap and as late although nothing was lost.
StatsMatchFirmware ==
    damaged = 0 /\ Quiet =>
        /\ stats.ok = sent /\ stats.crc_ng = 0
        /\ ~ restarted =>
            /\ stats.gap = Cardinality({n \in pending \cup overtaken :
                    n < stats.expected /\ \E r \in received \ overtaken : r < n})
            /\ stats.late + stats.dup = dumped + Cardinality(overtaken)

\* "automatic resync on magic" (logger_viewer.py): a damaged byte costs its frame
\* and those that a wrong length swallows, with a CRC behind it, no more, when the magic
\* occurs in no frame but at its start.  (The shortest frame has five cells here.)
FramesPerDamage == 1 + ((MaxByte + 5) \div 5)
NoMagicInside ==
    \A content \in frames : \A i \in 2 .. Len(content) : content[i] \notin {MAGIC0, MAGIC1}
DamageCostsFew ==
    Quiet /\ NoMagicInside => sent - stats.ok <= damaged * FramesPerDamage
=============================================================================
