---------------------------- MODULE FlashLogDump ----------------------------
(***************************************************************************)
(* What the storage sends when it is asked for its log: the commands a and  *)
(* lN of the command task, sendFramesOldestFirst and sendLatestFrames.      *)
(* Both hold the storage mutex throughout, so a dump is one value computed  *)
(* from the state between two operations.  The walk of the code is defined *)
(* step by step and checked against the order of the events.               *)
(***************************************************************************)
EXTENDS FlashLogStorage, Sequences

\* The place d cells on from a.
RingAddr(a, d) == IF a + d >= EndAddr THEN a + d - AreaSize ELSE a + d

\* The walk both dumps (and dumpFramesOldestFirst) make round the ring, as the
\* sequence of the frame addresses visited: from first, frame by frame or byte by
\* byte, until the newest frame is met or one round has been scanned.  (No frame
\* crosses the end of the log area, so that addr is always scanned cells from first.)
Walk(f, newest_seq, first) ==
    LET walk[scanned \in Nat] ==
          LET addr == RingAddr(first, scanned)
          IN  IF scanned >= AreaSize THEN << >>
              ELSE IF ~ ValidFrameAt(f, addr) THEN walk[scanned + 1]
              ELSE IF f[addr].seq = newest_seq THEN <<addr>>
              ELSE <<addr>> \o walk[scanned + f[addr].len]
    IN  walk[0]

SendFramesOldestFirst ==
    IF idx.count = 0 THEN << >> ELSE Walk(flash, idx.newest_seq, idx.oldest)

SendLatestOffByOne(n) ==                \* for a mutant of SendLatestFrames
    IF n = 0 \/ idx.count = 0 THEN << >>
    ELSE LET skip == IF n > idx.count THEN 0 ELSE (idx.count - n) + 1
         IN  SubSeq(SendFramesOldestFirst, skip + 1, Len(SendFramesOldestFirst))
SendLatestFrames(n) ==
    IF n = 0 \/ idx.count = 0 THEN << >>
    ELSE LET skip == IF n > idx.count THEN 0 ELSE idx.count - n
         IN  SubSeq(SendFramesOldestFirst, skip + 1, Len(SendFramesOldestFirst))

-----------------------------------------------------------------------------
(* The reference: every intact frame in flash, in the order of age.        *)

\* The frame of V that is newer than all others.
LastOf(f, V) == CHOOSE a \in V : \A b \in V \ {a} : IsSeqNewer(f[a].seq, f[b].seq)

ByAge(f) ==
    LET valid == ValidAddrs(f)
        order[V \in SUBSET valid] ==
          IF V = {} THEN << >>
          ELSE LET last == LastOf(f, V) IN Append(order[V \ {last}], last)
    IN  order[valid]

StoredSeqs(f) == LET order == ByAge(f) IN [i \in DOMAIN order |-> f[order[i]].seq]

\* "send all frames oldest-first" (README.md, printHelp): whatever appends,
\* failures and resets came before, the dump of an undisturbed storage is all
\* stored frames in the order of their sequence numbers, none missing or twice,
\* as long as the logger handed them over in that order.
DumpSendsAllOldestFirst ==
    pc = "idle" /\ ~ busy /\ ~ disordered => SendFramesOldestFirst = ByAge(flash)

\* "send latest N frames": the newest n frames, or all when there are fewer, on
\* the same condition.
DumpSendsLatest ==
    pc = "idle" /\ ~ busy /\ ~ disordered =>
        \A n \in 0 .. idx.count + 1 :
            LET all  == ByAge(flash)
                skip == IF n > Len(all) THEN 0 ELSE Len(all) - n
            IN  SendLatestFrames(n) = SubSeq(all, skip + 1, Len(all))

\* The storage implements the abstract log: the log is the sequence numbers of
\* the intact frames by age; an append adds one at the end, recycling a sector
\* takes frames of that sector from the old end only, and frames are lost in
\* another place only while eraseLogArea runs.  Once a frame was handed over
\* behind a newer one nothing is promised, until the log has been erased.
AbstractLog == INSTANCE EventLog WITH
    Events <- Seqs, Newer <- IsSeqNewer,
    MaxEvict <- SectorSize \div (CHOOSE n \in FrameSizes : \A m \in FrameSizes : n <= m),
    log <- IF disordered THEN << >> ELSE StoredSeqs(flash),
    clearing <- pc = "wipe",
    in_order <- ~ disordered

ImplementsEventLog == AbstractLog!Spec
=============================================================================
