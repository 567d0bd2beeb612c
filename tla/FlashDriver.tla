---------------------------- MODULE FlashDriver ----------------------------
(***************************************************************************)
(* The external NOR flash as FlashDriver.cpp drives it: the log area is an *)
(* array of cells, erased by sectors and programmed inside one page.       *)
(*                                                                         *)
(* A cell is Erased (byte 0xFF), one byte of one log frame, or Junk: any   *)
(* other byte, whose one property is that no frame contains it.  Programming*)
(* clears bits only, so a cell that is not erased turns into Junk.  The CRC *)
(* of a frame is abstracted by identity: a frame is intact exactly when    *)
(* all its cells carry the same sequence number and length and their       *)
(* offsets are 0, 1, 2, ...                                                *)
(***************************************************************************)
EXTENDS Integers, FiniteSets

CONSTANTS
    StartAddr, EndAddr,   \* the log area is StartAddr .. EndAddr - 1
    SectorSize,           \* the unit of erasing (4096 in the code)
    PageSize,             \* the unit of programming (256 in the code)
    FrameSizes,           \* the sizes a log frame can have (18 .. 82)
    SeqModulus,           \* sequence numbers are modulo this (2^32)
    Erased, Junk          \* model values, see above

ASSUME ConfigAssumption ==     \* FlashLogStorage::isConfigValid
    /\ StartAddr \in Nat /\ EndAddr \in Nat /\ StartAddr < EndAddr
    /\ SectorSize \in Nat \ {0} /\ PageSize \in Nat \ {0}
    /\ StartAddr % SectorSize = 0 /\ EndAddr % SectorSize = 0
    /\ SectorSize % PageSize = 0

ASSUME FrameAssumption ==      \* LogProtocol.h: LOG_FRAME_MAX_SIZE < SECTOR_SIZE
    FrameSizes # {} /\ FrameSizes \subseteq 1 .. SectorSize

ASSUME SeqAssumption ==
    SeqModulus \in Nat \ {0} /\ SeqModulus % 2 = 0

Addrs == StartAddr .. EndAddr - 1
Seqs  == 0 .. SeqModulus - 1
Cells == [seq : Seqs, len : FrameSizes, off : 0 .. SectorSize - 1]

ASSUME CellAssumption ==
    Erased \notin Cells /\ Junk \notin Cells /\ Erased # Junk

Images == [Addrs -> Cells \cup {Erased, Junk}]

Span(a, n) == a .. a + n - 1

-----------------------------------------------------------------------------
\* The bytes of one page that a program command starting at a can still reach
\* (FlashDriver::isPageProgramValid rejects a longer one).
PageRemain(a) == PageSize - (a % PageSize)

\* Program n bytes at address pos of the frame that begins at address start.
ProgramCells(f, frame, start, pos, n) ==
    [x \in Addrs |->
        IF x \notin Span(pos, n) THEN f[x]
        ELSE IF f[x] = Erased
             THEN [seq |-> frame.seq, len |-> frame.len, off |-> x - start]
             ELSE Junk]

\* Erase the sector that starts at s.
EraseCells(f, s) == [x \in Addrs |-> IF x \in Span(s, SectorSize) THEN Erased ELSE f[x]]

\* The cells T end up with value v, whatever they held.  What is left of a frame
\* that lost a cell is Junk: a later frame with the same number (the counter
\* restarts after a reset) has another time stamp and CRC and cannot use it.
Smash(f, T, v) ==
    [x \in Addrs |->
        IF x \in T THEN v
        ELSE IF f[x] \in Cells /\ Span(x - f[x].off, f[x].len) \cap T # {}
             THEN Junk ELSE f[x]]

\* What a program command that reports failure, or that a reset interrupts,
\* can leave behind: nothing (write enable refused), everything (only the busy
\* poll timed out), or some of its cells programmed wrongly.
TornPrograms(f, frame, start, pos, n) ==
    {ProgramCells(f, frame, start, pos, n)} \cup
    {Smash(f, T, Junk) : T \in SUBSET Span(pos, n)}

\* The same for an erase command: some cells erased, or some left undefined.
TornErases(f, s) ==
    {Smash(f, T, v) : T \in SUBSET Span(s, SectorSize), v \in {Erased, Junk}}
=============================================================================
