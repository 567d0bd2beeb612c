-------------------------- MODULE FlashLogStorage --------------------------
(***************************************************************************)
(* The ring of log frames that FlashLogStorage.cpp keeps in flash, its      *)
(* index in RAM, and the sequence counter of EventLogger that feeds it.    *)
(*                                                                         *)
(* append() and eraseLogArea() hold the recursive mutex of the storage from *)
(* their first line to their last, so one operation runs at a time; pc says *)
(* which flash command it will issue next.  A reset may come between any    *)
(* two flash commands, or in the middle of one.                            *)
(***************************************************************************)
EXTENDS FlashDriver

CONSTANTS
    MaxGap,        \* bound: numbers passed over between two that reach the storage
    MaxLate,       \* bound: numbers overtaken at a time that may still arrive, and
                   \* frames stored after an erase and before the numbers restart
    MaxFaults      \* bound: failed commands and resets in one behaviour

ASSUME BoundAssumption == MaxGap \in Nat /\ MaxLate \in Nat /\ MaxFaults \in Nat

VARIABLES
    flash,      \* the cells of the log area
    idx,        \* write_addr_, oldest_addr_, newest_addr_, newest_seq_, valid_frame_count_
    pc,         \* the flash command the running operation issues next
    job,        \* the frame being appended; pos is the address reached
    busy,       \* g_flash_maintenance_busy
    next_seq,   \* EventLogger::next_seq_
    late,       \* numbers taken that are still on their way, overtaken by others
    restart,    \* eraseLogArea has returned, setNextSeq(0) is still to come
    disordered, \* a frame was handed over behind one that is not older, and the
                \* log has not been erased since
    faults      \* failed commands and resets so far

feed == <<next_seq, late, restart, disordered>>
vars == <<flash, idx, pc, job, busy, feed, faults>>

-----------------------------------------------------------------------------
(* Addresses and sequence numbers.                                         *)

AreaSize == EndAddr - StartAddr

\* currentSectorEnd and nextSectorAddress compute the same address.
SectorEnd(a) == (a - (a % SectorSize)) + SectorSize

IsSectorStart(a) == a % SectorSize = 0

WrapAddress(a) == IF a >= EndAddr THEN StartAddr ELSE a

\* How far x lies after a on the ring.
RingDist(a, x) == IF x >= a THEN x - a ELSE x - a + AreaSize

\* static_cast<int32_t>(a - b) > 0
IsSeqNewer(a, b) ==
    LET d == IF a >= b THEN a - b ELSE a - b + SeqModulus
    IN  0 < d /\ 2 * d < SeqModulus

SeqAfter(s, n) == (s + n) % SeqModulus

-----------------------------------------------------------------------------
(* Frames in a flash image.                                                *)

ValidFrameAt(f, a) ==
    /\ f[a] \in Cells /\ f[a].off = 0
    /\ a + f[a].len <= EndAddr
    /\ \A x \in Span(a, f[a].len) : f[x] = [seq |-> f[a].seq, len |-> f[a].len, off |-> x - a]

ValidAddrs(f) == {a \in Addrs : ValidFrameAt(f, a)}

IsErasedAt(f, a) == f[a] = Erased

\* The scan of rebuildIndexFromFlash, from the lowest address up: a later frame
\* replaces the newest (oldest) found so far only when strictly newer (older).
Oldest(f) ==
    LET valid == ValidAddrs(f) IN
    CHOOSE a \in valid : \A b \in valid :
        ~ IsSeqNewer(f[a].seq, f[b].seq) /\ (f[b].seq = f[a].seq => a <= b)
Newest(f) ==
    LET valid == ValidAddrs(f) IN
    CHOOSE a \in valid : \A b \in valid :
        ~ IsSeqNewer(f[b].seq, f[a].seq) /\ (f[b].seq = f[a].seq => a <= b)

EmptyIndex(w) ==
    [write |-> w, oldest |-> StartAddr, newest |-> StartAddr,
     newest_seq |-> 0, count |-> 0]

SafeWriteUnchecked(f, a) == a           \* for a mutant of SafeWrite
\* A write position on a dirty byte moves on to the next sector.
SafeWrite(f, a) == IF IsErasedAt(f, a) THEN a ELSE WrapAddress(SectorEnd(a))

Rebuild(f) ==
    IF ValidAddrs(f) = {} THEN EmptyIndex(SafeWrite(f, StartAddr))
    ELSE LET n == Newest(f) IN
         [write      |-> SafeWrite(f, WrapAddress(n + f[n].len)),
          oldest     |-> Oldest(f),
          newest     |-> n,
          newest_seq |-> f[n].seq,
          count      |-> Cardinality(ValidAddrs(f))]

\* The first frame met when scanning the ring from a.
FirstFrom(f, a) ==
    LET valid == ValidAddrs(f) IN
    CHOOSE x \in valid : \A y \in valid : RingDist(a, x) <= RingDist(a, y)

InvalidateNothing(f, i, s) == i         \* for a mutant of Invalidate
\* invalidateFramesInErasedSector: take the frames of sector s out of index i.
\* The sector is not erased yet, so the search for the new oldest frame can
\* come all the way round to it.
Invalidate(f, i, s) ==
    LET removed == Cardinality(ValidAddrs(f) \cap Span(s, SectorSize))
        left    == [i EXCEPT !.count = i.count - removed]
    IN  IF i.count = 0 THEN i
        ELSE IF removed >= i.count THEN EmptyIndex(s)
        ELSE IF i.oldest \notin Span(s, SectorSize) THEN left
        ELSE IF ValidAddrs(f) = {} THEN [EmptyIndex(s) EXCEPT !.write = i.write]
        ELSE [left EXCEPT !.oldest = FirstFrom(f, WrapAddress(s + SectorSize))]

\* updateIndexAfterAppend, and the new write position.
IndexAfterAppend(i, a, seq, w) ==
    [write      |-> w,
     oldest     |-> IF i.count = 0 THEN a ELSE i.oldest,
     newest     |-> a,
     newest_seq |-> seq,
     count      |-> i.count + 1]

FrameStartUnchecked(w, len) == w        \* for a mutant of FrameStart
\* A frame that would cross the end of its sector goes to the next sector.
FrameStart(w, len) ==
    IF w + len > SectorEnd(w) THEN WrapAddress(SectorEnd(w)) ELSE w

-----------------------------------------------------------------------------
(* The operations.                                                         *)

NoJob == [seq |-> 0, len |-> 0, start |-> StartAddr, pos |-> StartAddr]

\* A frame with this number is newer than every frame stored.
InSeqWindow(f, seq) == \A a \in ValidAddrs(f) : IsSeqNewer(seq, f[a].seq)

\* How far s lies after b in sequence space.
Rank(b, s) == IF s >= b THEN s - b ELSE s - b + SeqModulus

\* The numbers of S lie in one half of the sequence space, where IsSeqNewer orders
\* them.  The code relies on it for the frames it stores: fewer than 2^31 events
\* are logged while a frame is stored or under way.
InOneHalf(S) == \E b \in Seqs : \A s \in S : 2 * Rank(b, s) < SeqModulus

SeqsIn(f) == {f[a].seq : a \in ValidAddrs(f)}

\* Power-on: storage.init() scans the flash, then main() restores the counter.
Boot ==
    /\ pc = "off"
    /\ pc' = "idle" /\ idx' = Rebuild(flash) /\ job' = NoJob /\ busy' = FALSE
    /\ next_seq' = IF idx'.count > 0 THEN SeqAfter(idx'.newest_seq, 1) ELSE 0
    /\ UNCHANGED <<flash, late, restart, disordered, faults>>

\* append() up to its first flash command.  It takes the frame whatever its number.
AppendStart(len, seq) ==
    LET start == FrameStart(idx.write, len)
    IN  /\ pc = "idle" /\ InOneHalf(SeqsIn(flash) \cup {seq})
        /\ job' = [seq |-> seq, len |-> len, start |-> start, pos |-> start]
        /\ disordered' = (disordered \/ ~ InSeqWindow(flash, seq))
        /\ IF IsSectorStart(start)
           THEN pc' = "erase" /\ idx' = Invalidate(flash, idx, start)
           ELSE pc' = "program" /\ UNCHANGED idx
        /\ UNCHANGED <<flash, busy, restart, faults>>

\* The logger hands over a number higher than those before it.  The numbers passed
\* over were lost (full queue or full UART), or their tasks were overtaken between
\* nextSeq and the queue and they are still on their way.
AppendFresh(len, gap) ==
    LET seq    == SeqAfter(next_seq, gap)
        passed == {SeqAfter(next_seq, g) : g \in 0 .. gap - 1}
    IN  /\ restart => Cardinality(ValidAddrs(flash)) < MaxLate
        /\ AppendStart(len, seq)
        /\ next_seq' = SeqAfter(seq, 1)
        /\ late' \in {late \cup S : S \in SUBSET passed} /\ Cardinality(late') <= MaxLate

\* The logger hands over a number that was overtaken.
AppendLate(len, seq) ==
    /\ seq \in late /\ AppendStart(len, seq)
    /\ late' = late \ {seq} /\ UNCHANGED next_seq

EraseSector ==
    /\ pc = "erase"
    /\ flash' = EraseCells(flash, job.start) /\ pc' = "program"
    /\ UNCHANGED <<idx, job, busy, feed, faults>>

\* What append() programs next: the rest of the frame or of the page.
Chunk ==
    LET rest == (job.start + job.len) - job.pos
    IN  IF rest < PageRemain(job.pos) THEN rest ELSE PageRemain(job.pos)

ProgramChunk ==
    /\ pc = "program"
    /\ flash' = ProgramCells(flash, job, job.start, job.pos, Chunk)
    /\ job' = [job EXCEPT !.pos = job.pos + Chunk]
    /\ pc' = IF job'.pos = job.start + job.len THEN "commit" ELSE "program"
    /\ UNCHANGED <<idx, busy, feed, faults>>

\* append() reads the frame back, and gives up on it unless it is intact.
Commit ==
    /\ pc = "commit"
    /\ idx' = IF ValidFrameAt(flash, job.start)
              THEN IndexAfterAppend(idx, job.start, flash[job.start].seq,
                                    WrapAddress(job.pos))
              ELSE Rebuild(flash)
    /\ pc' = "idle" /\ job' = NoJob
    /\ UNCHANGED <<flash, busy, feed, faults>>

\* A flash command of append() fails, or the shared I/O lock for it times out
\* (then the flash is unchanged): the index is rebuilt and the frame dropped.
AppendFails ==
    /\ faults < MaxFaults /\ faults' = faults + 1
    /\ \/ pc = "erase"   /\ flash' \in TornErases(flash, job.start)
       \/ pc = "program" /\ flash' \in TornPrograms(flash, job, job.start, job.pos, Chunk)
    /\ idx' = Rebuild(flash')
    /\ pc' = "idle" /\ job' = NoJob
    /\ UNCHANGED <<busy, feed>>

\* eraseLogArea(): sector by sector, job.pos is the next one.
EraseAllStart ==
    /\ pc = "idle" /\ ~ restart
    /\ pc' = "wipe" /\ busy' = TRUE
    /\ UNCHANGED <<flash, idx, job, feed, faults>>

WipeAndRestart ==                       \* for a mutant of WipeSector
    /\ pc = "wipe"
    /\ flash' = EraseCells(flash, job.pos)
    /\ IF job.pos + SectorSize < EndAddr
       THEN /\ job' = [job EXCEPT !.pos = job.pos + SectorSize]
            /\ UNCHANGED <<idx, pc, busy, restart, disordered>>
       ELSE /\ job' = NoJob /\ pc' = "idle" /\ busy' = FALSE /\ UNCHANGED idx
            /\ restart' = TRUE /\ disordered' = FALSE
    /\ UNCHANGED <<next_seq, late, faults>>
\* After the last sector the index is reset.
WipeSector ==
    /\ pc = "wipe"
    /\ flash' = EraseCells(flash, job.pos)
    /\ IF job.pos + SectorSize < EndAddr
       THEN /\ job' = [job EXCEPT !.pos = job.pos + SectorSize]
            /\ UNCHANGED <<idx, pc, busy, restart, disordered>>
       ELSE /\ idx' = EmptyIndex(StartAddr) /\ job' = NoJob
            /\ pc' = "idle" /\ busy' = FALSE
            /\ restart' = TRUE /\ disordered' = FALSE
    /\ UNCHANGED <<next_seq, late, faults>>

\* The command task restarts the numbers after eraseLogArea has returned and given
\* back the storage mutex: an append may have begun, and numbers taken before are
\* still on their way.
SetNextSeq ==
    /\ restart /\ restart' = FALSE /\ next_seq' = 0
    /\ \E S \in SUBSET {SeqAfter(next_seq, g) : g \in 0 .. MaxGap - 1} :
         late' = late \cup S
    /\ Cardinality(late') <= MaxLate
    /\ UNCHANGED <<flash, idx, pc, job, busy, disordered, faults>>

\* A failed erase (or lock timeout) returns at once: the index keeps describing
\* the old contents and the maintenance flag stays up.
WipeFails ==
    /\ pc = "wipe" /\ faults < MaxFaults /\ faults' = faults + 1
    /\ flash' \in TornErases(flash, job.pos)
    /\ pc' = "idle" /\ job' = NoJob
    /\ UNCHANGED <<idx, busy, feed>>

\* Power fails or the watchdog bites, maybe in the middle of a flash command.
Crash ==
    /\ pc # "off" /\ faults < MaxFaults /\ faults' = faults + 1
    /\ CASE pc = "erase"   -> flash' \in TornErases(flash, job.start)
         [] pc = "program" -> flash' \in TornPrograms(flash, job, job.start, job.pos, Chunk)
         [] pc = "wipe"    -> flash' \in TornErases(flash, job.pos)
         [] OTHER          -> flash' = flash
    /\ pc' = "off" /\ job' = NoJob /\ busy' = FALSE
    /\ idx' = EmptyIndex(StartAddr)
    /\ next_seq' = 0 /\ late' = {} /\ restart' = FALSE /\ UNCHANGED disordered

\* The first power-on finds erased flash or bytes that are no log frames.
Init ==
    /\ flash \in {[a \in Addrs |-> v] : v \in {Erased, Junk}}
    /\ idx = EmptyIndex(StartAddr) /\ pc = "off" /\ job = NoJob
    /\ busy = FALSE /\ next_seq = 0 /\ late = {} /\ restart = FALSE
    /\ disordered = FALSE /\ faults = 0

AppendFrame ==
    \E len \in FrameSizes :
        \/ \E gap \in 0 .. MaxGap : AppendFresh(len, gap)
        \/ \E seq \in late : AppendLate(len, seq)

Next ==
    \/ Boot \/ AppendFrame \/ EraseSector \/ ProgramChunk \/ Commit \/ AppendFails
    \/ EraseAllStart \/ WipeSector \/ WipeFails \/ SetNextSeq \/ Crash

Spec == Init /\ [][Next]_vars

-----------------------------------------------------------------------------
(* Properties.                                                             *)

Indexes ==
    [write : Addrs, oldest : Addrs, newest : Addrs, newest_seq : Seqs,
     count : Int]

\* Every variable keeps its type; an operation that programs is at an address
\* of its own frame, and that frame lies in one sector, so that the "append
\* crosses log end unexpectedly" branch of append() is dead.
TypeOK ==
    /\ flash \in Images
    /\ idx \in Indexes
    /\ pc \in {"off", "idle", "erase", "program", "commit", "wipe"}
    /\ job \in [seq : Seqs, len : FrameSizes \cup {0}, start : Addrs, pos : Nat]
    /\ busy \in BOOLEAN /\ faults \in 0 .. MaxFaults
    /\ next_seq \in Seqs /\ late \subseteq Seqs /\ restart \in BOOLEAN
    /\ disordered \in BOOLEAN
    /\ pc \in {"erase", "program", "commit"} =>
         /\ job.len \in FrameSizes /\ job.pos \in job.start .. job.start + job.len
         /\ job.start + job.len <= SectorEnd(job.start)
         /\ pc = "erase" => IsSectorStart(job.start) /\ job.pos = job.start
         /\ pc = "program" => job.pos < job.start + job.len
         /\ pc = "commit" => job.pos = job.start + job.len
    /\ pc \in {"off", "idle"} => job = NoJob
    /\ pc = "wipe" => job.pos \in Addrs /\ IsSectorStart(job.pos)

\* Between operations the index in RAM, which append() and the sector
\* invalidation keep up to date step by step, counts the intact frames of the
\* flash, and both its ends are intact frames, in whatever order their numbers
\* came.  (Not after a failed eraseLogArea, which leaves the index alone.)
IndexDescribesFlash ==
    pc = "idle" /\ ~ busy =>
        LET valid == ValidAddrs(flash) IN
        /\ idx.count = Cardinality(valid)
        /\ valid # {} =>
            /\ idx.oldest \in valid /\ idx.newest \in valid
            /\ idx.newest_seq = flash[idx.newest].seq

\* And it agrees with a full scan of the flash: its ends are the oldest and the
\* newest frame, unless one was handed over behind another that is not older.
IndexMatchesFlash ==
    /\ IndexDescribesFlash
    /\ pc = "idle" /\ ~ busy /\ ~ disordered =>
        LET valid == ValidAddrs(flash) IN
        valid # {} =>
            /\ \A a \in valid \ {idx.newest} : IsSeqNewer(idx.newest_seq, flash[a].seq)
            /\ \A a \in valid \ {idx.oldest} :
                 IsSeqNewer(flash[a].seq, flash[idx.oldest].seq)

\* A frame once intact in flash is lost only to an erase command of its own
\* sector; no append, however it fails or is interrupted, and no reset damages
\* a frame stored earlier, while the frames are in the order of their numbers.
\* (Out of order the newest frame may lie before others in its sector, so that an
\* interrupted erase can leave a gap behind it and the next append is written there.)
FramesLostOnlyToErase ==
    [][ ~ disordered => \A a \in ValidAddrs(flash) :
          \/ ValidFrameAt(flash', a) /\ flash'[a] = flash[a]
          \/ pc = "erase" /\ a \in Span(job.start, SectorSize)
          \/ pc = "wipe"  /\ a \in Span(job.pos, SectorSize) ]_vars

\* A frame that fails its read-back (it was programmed over bytes an interrupted
\* operation left dirty) is not tried again in the same place: the next append
\* lands on erased cells or erases its sector first, so that one scar costs at
\* most one event, while the frames are in the order of their numbers.  (A failed
\* eraseLogArea, which leaves the index as it was, and another fault before it
\* can make one scar cost two.)
OneScarCostsOneEvent ==
    [][ pc = "commit" /\ pc' = "idle" /\ ~ ValidFrameAt(flash, job.start) /\ ~ disordered =>
          \A len \in FrameSizes :
              LET start == FrameStart(idx'.write, len) IN
              IsSectorStart(start) \/ \A x \in Span(start, len) : IsErasedAt(flash, x) ]_vars

\* TemperatureTask.cpp and EnvironmentTask.cpp take the flag for "flash
\* maintenance is going on" and stop measuring while it is up.
BusyImpliesMaintenance == busy => pc = "wipe"
=============================================================================
