----------------------- MODULE FlashLogStorageProofs -----------------------
(***************************************************************************)
(* Proofs about FlashLogStorage for every configuration of the log area:   *)
(* the type invariant, that an intact frame is lost only to an erase       *)
(* command of its own sector, that the index in RAM agrees with what a     *)
(* scan of the flash finds, and that a dirty place spoils one frame only.  *)
(***************************************************************************)
EXTENDS FlashLogStorage, FiniteSetTheorems, WellFoundedInduction, TLAPS

-----------------------------------------------------------------------------
(* Sector arithmetic.                                                      *)

LEMMA DivMod ==
    ASSUME NEW a \in Nat, NEW s \in Nat \ {0}
    PROVE  /\ a = s * (a \div s) + (a % s) /\ a % s \in 0 .. s - 1
           /\ a \div s \in Nat
  BY Z3

LEMMA ModUnique ==
    ASSUME NEW s \in Nat \ {0}, NEW q \in Nat, NEW r \in 0 .. s - 1
    PROVE  (s * q + r) % s = r
  BY Z3

LEMMA MulGap ==
    ASSUME NEW s \in Nat \ {0}, NEW p \in Nat, NEW q \in Nat, p < q
    PROVE  s * p + s <= s * q
  BY Z3



LEMMA SectorEndType ==
    ASSUME NEW a \in Addrs
    PROVE  /\ SectorEnd(a) \in Nat /\ IsSectorStart(SectorEnd(a))
           /\ a < SectorEnd(a) /\ SectorEnd(a) - SectorSize <= a
           /\ StartAddr <= SectorEnd(a) - SectorSize
           /\ SectorEnd(a) <= EndAddr
<1> DEFINE q == a \div SectorSize
           lo == StartAddr \div SectorSize
           hi == EndAddr \div SectorSize
<1> USE ConfigAssumption
<1>1. a \in Nat /\ StartAddr <= a /\ a < EndAddr
  BY DEF Addrs
<1>2. a = SectorSize * q + (a % SectorSize) /\ a % SectorSize \in 0 .. SectorSize - 1
      /\ q \in Nat
  BY <1>1, DivMod
<1>3. StartAddr = SectorSize * lo /\ lo \in Nat /\ EndAddr = SectorSize * hi /\ hi \in Nat
  BY DivMod
<1>. HIDE DEF q, lo, hi
<1>4. SectorEnd(a) = SectorSize * q + SectorSize
  BY <1>2 DEF SectorEnd
<1>5. lo <= q
  <2>1. ~ (q < lo)
    BY <1>1, <1>2, <1>3, MulGap
  <2> QED BY <2>1, <1>2, <1>3
<1>6. q < hi
  <2>1. ~ (hi < q) /\ q # hi
    BY <1>1, <1>2, <1>3, MulGap
  <2> QED BY <2>1, <1>2, <1>3
<1>7. SectorSize * lo <= SectorSize * q
  BY <1>5, <1>2, <1>3, MulGap
<1>8. SectorSize * q + SectorSize <= SectorSize * hi
  BY <1>6, <1>2, <1>3, MulGap
<1>9. SectorSize * (q + 1) = SectorSize * q + SectorSize
  BY <1>2
<1>10. (SectorSize * (q + 1) + 0) % SectorSize = 0
  BY <1>2, ModUnique
<1> QED
  BY <1>1, <1>2, <1>3, <1>4, <1>7, <1>8, <1>9, <1>10 DEF IsSectorStart

\* Addresses of the same sector have the same end.
LEMMA SectorIndex ==
    ASSUME NEW a \in Nat
    PROVE  \E q \in Nat : /\ SectorEnd(a) = SectorSize * q + SectorSize
                          /\ SectorSize * q <= a /\ a < SectorSize * q + SectorSize
<1> DEFINE q == a \div SectorSize
<1>1. a = SectorSize * q + (a % SectorSize) /\ a % SectorSize \in 0 .. SectorSize - 1
      /\ q \in Nat
  BY DivMod, ConfigAssumption
<1> HIDE DEF q
<1>2. SectorEnd(a) = SectorSize * q + SectorSize
  BY <1>1, ConfigAssumption DEF SectorEnd
<1>3. SectorSize * q <= a /\ a < SectorSize * q + SectorSize
  BY <1>1, ConfigAssumption
<1>4. q \in Nat
  BY <1>1
<1> QED BY <1>2, <1>3, <1>4, Zenon

LEMMA SameSector ==
    ASSUME NEW a \in Addrs, NEW b \in Int, SectorEnd(a) - SectorSize <= b, b < SectorEnd(a)
    PROVE  b \in Addrs /\ SectorEnd(b) = SectorEnd(a)
<1> USE ConfigAssumption
<1>0. b \in Addrs /\ b \in Nat /\ a \in Nat
  BY SectorEndType DEF Addrs
<1>1. PICK p \in Nat : /\ SectorEnd(a) = SectorSize * p + SectorSize
                       /\ SectorSize * p <= a /\ a < SectorSize * p + SectorSize
  BY <1>0, SectorIndex
<1>2. PICK q \in Nat : /\ SectorEnd(b) = SectorSize * q + SectorSize
                       /\ SectorSize * q <= b /\ b < SectorSize * q + SectorSize
  BY <1>0, SectorIndex
<1>3. ~ (p < q) /\ ~ (q < p)
  BY <1>0, <1>1, <1>2, MulGap
<1>4. p = q
  BY <1>3
<1> QED BY <1>0, <1>1, <1>2, <1>4

LEMMA SectorStartEnd ==
    ASSUME NEW a \in Addrs, IsSectorStart(a)
    PROVE  SectorEnd(a) = a + SectorSize
  BY ConfigAssumption DEF SectorEnd, IsSectorStart, Addrs

LEMMA WrapType ==
    ASSUME NEW a \in Nat, StartAddr <= a, a <= EndAddr
    PROVE  /\ WrapAddress(a) \in Addrs
           /\ WrapAddress(a) = IF a = EndAddr THEN StartAddr ELSE a
           /\ IsSectorStart(a) => IsSectorStart(WrapAddress(a))
  BY ConfigAssumption DEF WrapAddress, Addrs, IsSectorStart

\* The next sector, wrapped.
LEMMA NextSectorType ==
    ASSUME NEW a \in Addrs
    PROVE  /\ WrapAddress(SectorEnd(a)) \in Addrs
           /\ IsSectorStart(WrapAddress(SectorEnd(a)))
  BY SectorEndType, WrapType, ConfigAssumption DEF Addrs

-----------------------------------------------------------------------------
(* Sequence numbers.                                                       *)

\* Every non-empty set of natural numbers has a least element.
LtNat == {p \in Nat \X Nat : p[1] < p[2]}

LEMMA LtNatWellFounded == IsWellFoundedOn(LtNat, Nat)
  BY NatLessThanWellFounded DEF OpToRel, LtNat

LEMMA LeastNat ==
    ASSUME NEW S \in SUBSET Nat, S # {}
    PROVE  \E x \in S : \A y \in S : x <= y
<1>1. \E x \in S : \A y \in S : ~ (<<y, x>> \in LtNat)
  BY WFMin, LtNatWellFounded, Zenon
<1>2. PICK x \in S : \A y \in S : ~ (<<y, x>> \in LtNat)
  BY <1>1
<1>3. \A y \in S : ~ (y < x)
  BY <1>2 DEF LtNat
<1> QED BY <1>3

LEMMA SeqFacts ==
    /\ SeqModulus \in Nat \ {0}
    /\ \A s \in Seqs, n \in Nat : SeqAfter(s, n) \in Seqs
    /\ 0 \in Seqs
  BY SeqAssumption DEF Seqs, SeqAfter

-----------------------------------------------------------------------------
(* Frames in a flash image.                                                *)

\* Every byte of a frame lies in one sector, and the place where that frame
\* begins is not erased: the code never programs a byte of a frame before the
\* frame's first.
CellsWellPlaced(f) ==
    \A x \in Addrs : f[x] \in Cells =>
        LET start == x - f[x].off IN
        start \in Addrs /\ f[start] # Erased /\ SectorEnd(start) = SectorEnd(x)

\* In one sector, frames further on are newer.
SectorSorted(f) ==
    \A a, b \in ValidAddrs(f) :
        a < b /\ SectorEnd(a) = SectorEnd(b) => IsSeqNewer(f[b].seq, f[a].seq)

\* All frames lie in one half of the sequence space.
OneWindow(f) ==
    \E b \in Seqs : \A a \in ValidAddrs(f) : 2 * Rank(b, f[a].seq) < SeqModulus

\* No intact frame reaches beyond w in the sector of w.
ClearFrom(f, w) ==
    \A a \in ValidAddrs(f) : SectorEnd(a) = SectorEnd(w) => a + f[a].len <= w

\* Every frame of g is a frame of f.
Fewer(f, g) ==
    \A a \in Addrs : ValidFrameAt(g, a) => ValidFrameAt(f, a) /\ g[a] = f[a]

LEMMA ImageFacts ==
    ASSUME NEW f \in Images, NEW a \in Addrs
    PROVE  /\ f[a] \in Cells \cup {Erased, Junk}
           /\ f[a] \in Cells => /\ f[a].seq \in Seqs /\ f[a].len \in Nat \ {0}
                                /\ f[a].off \in Nat
           /\ a \in Nat /\ StartAddr <= a /\ a < EndAddr
<1>1. f[a] \in Cells \cup {Erased, Junk}
  BY DEF Images
<1>2. f[a] \in Cells => /\ f[a].seq \in Seqs /\ f[a].len \in FrameSizes
                        /\ f[a].off \in 0 .. SectorSize - 1
  BY DEF Cells
<1>3. a \in Nat /\ StartAddr <= a /\ a < EndAddr
  BY ConfigAssumption DEF Addrs
<1>4. FrameSizes \subseteq Nat \ {0} /\ 0 .. SectorSize - 1 \subseteq Nat
  BY ConfigAssumption, FrameAssumption
<1> QED BY <1>1, <1>2, <1>3, <1>4

LEMMA ValidFacts ==
    ASSUME NEW f \in Images, NEW a \in ValidAddrs(f)
    PROVE  /\ a \in Addrs /\ f[a] \in Cells /\ f[a].off = 0 /\ ValidFrameAt(f, a)
           /\ f[a].seq \in Seqs /\ f[a].len \in Nat \ {0}
           /\ a + f[a].len <= EndAddr
           /\ Span(a, f[a].len) \subseteq Addrs
           /\ \A x \in Span(a, f[a].len) :
                f[x] \in Cells /\ f[x].off = x - a /\ f[x].len = f[a].len /\ f[x].seq = f[a].seq
<1>1. a \in Addrs /\ ValidFrameAt(f, a)
  BY DEF ValidAddrs
<1>2. f[a] \in Cells /\ f[a].off = 0 /\ a + f[a].len <= EndAddr
  BY <1>1 DEF ValidFrameAt
<1>3. /\ f[a].seq \in Seqs /\ f[a].len \in Nat \ {0} /\ f[a].len \in FrameSizes
      /\ f[a].len <= SectorSize
      /\ a \in Nat /\ StartAddr <= a /\ a < EndAddr
  <2>1. f[a].seq \in Seqs /\ f[a].len \in FrameSizes
    BY <1>2 DEF Cells
  <2>2. f[a].len \in 1 .. SectorSize
    BY <2>1, FrameAssumption
  <2>3. a \in Nat /\ StartAddr <= a /\ a < EndAddr
    BY <1>1, ConfigAssumption DEF Addrs
  <2> QED BY <2>1, <2>2, <2>3, ConfigAssumption
<1>4. Span(a, f[a].len) \subseteq Addrs
  BY <1>2, <1>3, ConfigAssumption DEF Span, Addrs
<1>5. ASSUME NEW x \in Span(a, f[a].len)
      PROVE  f[x] \in Cells /\ f[x].off = x - a /\ f[x].len = f[a].len /\ f[x].seq = f[a].seq
  <2>1. f[x] = [seq |-> f[a].seq, len |-> f[a].len, off |-> x - a]
    BY <1>1 DEF ValidFrameAt
  <2>2. x - a \in 0 .. SectorSize - 1
    BY <1>3, ConfigAssumption DEF Span
  <2> QED BY <1>2, <2>1, <2>2 DEF Cells
<1> QED BY <1>1, <1>2, <1>3, <1>4, <1>5

LEMMA SpanIff ==
    ASSUME NEW a \in Nat, NEW n \in Nat, NEW x \in Nat
    PROVE  x \in Span(a, n) <=> a <= x /\ x < a + n
  BY DEF Span

\* A frame whose cells are left alone stays intact.
LEMMA ValidStays ==
    ASSUME NEW f \in Images, NEW g, NEW a \in ValidAddrs(f),
           \A x \in Span(a, f[a].len) : g[x] = f[x]
    PROVE  ValidFrameAt(g, a) /\ g[a] = f[a]
<1>1. a \in Span(a, f[a].len)
  BY ValidFacts, ConfigAssumption DEF Span, Addrs
<1> QED BY <1>1, ValidFacts DEF ValidFrameAt

\* The frame of a well-placed image lies in one sector.
LEMMA FrameInSector ==
    ASSUME NEW f \in Images, CellsWellPlaced(f), NEW a \in ValidAddrs(f)
    PROVE  a + f[a].len <= SectorEnd(a)
<1> DEFINE x == (a + f[a].len) - 1
<1>1. x \in Span(a, f[a].len) /\ x \in Addrs /\ a \in Addrs /\ a \in Nat
  BY ValidFacts, ConfigAssumption DEF Span, Addrs
<1>2. f[x] \in Cells /\ x - f[x].off = a
  BY <1>1, ValidFacts, ConfigAssumption DEF Addrs
<1>3. SectorEnd(x) = SectorEnd(a)
  BY <1>1, <1>2 DEF CellsWellPlaced
<1> QED BY <1>1, <1>3, SectorEndType, ValidFacts

LEMMA FewerFacts ==
    ASSUME NEW f, NEW g, Fewer(f, g)
    PROVE  /\ ValidAddrs(g) \subseteq ValidAddrs(f)
           /\ \A a \in ValidAddrs(g) : g[a] = f[a]
           /\ SectorSorted(f) => SectorSorted(g)
           /\ OneWindow(f) => OneWindow(g)
           /\ \A w : ClearFrom(f, w) => ClearFrom(g, w)
<1>1. ValidAddrs(g) \subseteq ValidAddrs(f) /\ \A a \in ValidAddrs(g) : g[a] = f[a]
  BY DEF Fewer, ValidAddrs
<1>2. SectorSorted(f) => SectorSorted(g)
  BY <1>1 DEF SectorSorted
<1>3. OneWindow(f) => OneWindow(g)
  BY <1>1 DEF OneWindow
<1>4. \A w : ClearFrom(f, w) => ClearFrom(g, w)
  BY <1>1 DEF ClearFrom
<1> QED BY <1>1, <1>2, <1>3, <1>4

-----------------------------------------------------------------------------
(* What the flash commands do to frames.                                   *)

\* A damaged area makes no frame, keeps the placement of cells, and spares the
\* frames that do not touch it.
LEMMA SmashFacts ==
    ASSUME NEW f \in Images, NEW T, NEW v \in {Erased, Junk}
    PROVE  /\ Smash(f, T, v) \in Images
           /\ Fewer(f, Smash(f, T, v))
           /\ CellsWellPlaced(f) => CellsWellPlaced(Smash(f, T, v))
           /\ \A a \in ValidAddrs(f) : Span(a, f[a].len) \cap T = {} =>
                ValidFrameAt(Smash(f, T, v), a) /\ Smash(f, T, v)[a] = f[a]
<1> DEFINE g == Smash(f, T, v)
<1>1. g \in Images
  BY DEF Images, Smash
<1>2. \A x \in Addrs : g[x] \in Cells =>
        x \notin T /\ g[x] = f[x] /\ Span(x - f[x].off, f[x].len) \cap T = {}
  BY CellAssumption DEF Smash
<1>3. \A x \in Addrs : x \notin T =>
        \/ g[x] = f[x]
        \/ g[x] = Junk /\ f[x] \in Cells /\ Span(x - f[x].off, f[x].len) \cap T # {}
  BY DEF Smash
<1> HIDE DEF g
<1>4. ASSUME NEW a \in Addrs, ValidFrameAt(g, a)
      PROVE  ValidFrameAt(f, a) /\ g[a] = f[a]
  <2>1. a \in ValidAddrs(g)
    BY <1>4 DEF ValidAddrs
  <2>2. \A x \in Span(a, g[a].len) : x \in Addrs /\ g[x] \in Cells
    BY <2>1, <1>1, ValidFacts
  <2>3. \A x \in Span(a, g[a].len) : f[x] = g[x]
    BY <2>2, <1>2
  <2> QED BY <2>1, <2>3, <1>1, ValidStays
<1>5. ASSUME CellsWellPlaced(f)
      PROVE  CellsWellPlaced(g)
  <2> SUFFICES ASSUME NEW x \in Addrs, g[x] \in Cells
               PROVE  /\ x - g[x].off \in Addrs /\ g[x - g[x].off] # Erased
                      /\ SectorEnd(x - g[x].off) = SectorEnd(x)
    BY DEF CellsWellPlaced
  <2> DEFINE s == x - f[x].off
  <2>1. f[x] \in Cells /\ g[x] = f[x] /\ Span(s, f[x].len) \cap T = {}
    BY <1>2
  <2>2. s \in Addrs /\ f[s] # Erased /\ SectorEnd(s) = SectorEnd(x)
    BY <2>1, <1>5 DEF CellsWellPlaced
  <2>3. s \in Span(s, f[x].len)
    BY <2>1, <2>2, ImageFacts DEF Span
  <2>4. g[s] # Erased
    BY <2>1, <2>2, <2>3, <1>3, CellAssumption
  <2> QED BY <2>1, <2>2, <2>4
<1>6. ASSUME NEW a \in ValidAddrs(f), Span(a, f[a].len) \cap T = {}
      PROVE  ValidFrameAt(g, a) /\ g[a] = f[a]
  <2>1. ASSUME NEW x \in Span(a, f[a].len)
        PROVE  g[x] = f[x]
    <3>1. x \in Addrs /\ f[x] \in Cells /\ f[x].off = x - a /\ f[x].len = f[a].len /\ x \notin T
      BY <1>6, <2>1, ValidFacts
    <3>2. x - f[x].off = a
      BY <3>1, <1>6, ValidFacts, ImageFacts
    <3> QED BY <3>1, <3>2, <1>3, <1>6
  <2> QED BY <2>1, <1>6, ValidStays
<1> QED BY <1>1, <1>4, <1>5, <1>6 DEF Fewer, g

LEMMA EraseFacts ==
    ASSUME NEW f \in Images, CellsWellPlaced(f), NEW s \in Addrs, IsSectorStart(s)
    PROVE  /\ EraseCells(f, s) \in Images
           /\ Fewer(f, EraseCells(f, s))
           /\ CellsWellPlaced(EraseCells(f, s))
           /\ ClearFrom(EraseCells(f, s), s)
           /\ \A a \in ValidAddrs(f) : a \notin Span(s, SectorSize) =>
                ValidFrameAt(EraseCells(f, s), a) /\ EraseCells(f, s)[a] = f[a]
<1> DEFINE g == EraseCells(f, s)
<1>1. g \in Images
  BY DEF Images, EraseCells
<1>2. \A x \in Addrs : /\ x \in Span(s, SectorSize) => g[x] = Erased
                       /\ x \notin Span(s, SectorSize) => g[x] = f[x]
  BY DEF EraseCells
<1>3. \A x \in Addrs : g[x] \in Cells => x \notin Span(s, SectorSize) /\ g[x] = f[x]
  BY <1>2, CellAssumption
<1> HIDE DEF g
<1>4. \A x \in Addrs : x \in Span(s, SectorSize) <=> SectorEnd(x) = SectorEnd(s)
  <2>1. SectorEnd(s) = s + SectorSize /\ s \in Nat
    BY SectorStartEnd, ImageFacts, <1>1
  <2>2. ASSUME NEW x \in Addrs, x \in Span(s, SectorSize)
        PROVE  SectorEnd(x) = SectorEnd(s)
    BY <2>1, <2>2, SameSector, ConfigAssumption, ImageFacts, <1>1 DEF Span
  <2>3. ASSUME NEW x \in Addrs, SectorEnd(x) = SectorEnd(s)
        PROVE  x \in Span(s, SectorSize)
    <3>1. x < s + SectorSize /\ s <= x /\ x \in Nat
      BY <2>1, <2>3, SectorEndType, ConfigAssumption, ImageFacts, <1>1
    <3> QED BY <3>1, <2>1, ConfigAssumption DEF Span
  <2> QED BY <2>2, <2>3
<1>5. ASSUME NEW a \in Addrs, ValidFrameAt(g, a)
      PROVE  ValidFrameAt(f, a) /\ g[a] = f[a] /\ a \notin Span(s, SectorSize)
  <2>1. a \in ValidAddrs(g)
    BY <1>5 DEF ValidAddrs
  <2>2. \A x \in Span(a, g[a].len) : x \in Addrs /\ g[x] \in Cells
    BY <2>1, <1>1, ValidFacts
  <2>3. \A x \in Span(a, g[a].len) : f[x] = g[x]
    BY <2>2, <1>3
  <2>4. g[a] \in Cells
    BY <2>1, <1>1, ValidFacts
  <2> QED BY <2>1, <2>3, <2>4, <1>1, <1>3, ValidStays
<1>6. CellsWellPlaced(g)
  <2> SUFFICES ASSUME NEW x \in Addrs, g[x] \in Cells
               PROVE  /\ x - g[x].off \in Addrs /\ g[x - g[x].off] # Erased
                      /\ SectorEnd(x - g[x].off) = SectorEnd(x)
    BY DEF CellsWellPlaced
  <2> DEFINE t == x - f[x].off
  <2>1. f[x] \in Cells /\ g[x] = f[x] /\ x \notin Span(s, SectorSize)
    BY <1>3
  <2>2. t \in Addrs /\ f[t] # Erased /\ SectorEnd(t) = SectorEnd(x)
    BY <2>1 DEF CellsWellPlaced
  <2> QED BY <2>1, <2>2, <1>2, <1>4
<1>7. ClearFrom(g, s)
  BY <1>4, <1>5 DEF ClearFrom, ValidAddrs
<1>8. ASSUME NEW a \in ValidAddrs(f), a \notin Span(s, SectorSize)
      PROVE  ValidFrameAt(g, a) /\ g[a] = f[a]
  <2>0. a \in Addrs /\ a \in Nat /\ SectorEnd(a) \in Nat /\ SectorEnd(a) - SectorSize <= a
    BY <1>8, ValidFacts, ImageFacts, SectorEndType
  <2>1. ASSUME NEW x \in Span(a, f[a].len)
        PROVE  g[x] = f[x]
    <3>1. x \in Addrs /\ x \in Int /\ a <= x /\ x < SectorEnd(a)
      BY <1>8, <2>0, <2>1, ValidFacts, FrameInSector DEF Span
    <3>2. SectorEnd(x) = SectorEnd(a)
      BY <2>0, <3>1, SameSector, ConfigAssumption
    <3> QED BY <2>0, <3>1, <3>2, <1>2, <1>4, <1>8
  <2> QED BY <2>1, <1>8, ValidStays
<1> QED BY <1>1, <1>5, <1>6, <1>7, <1>8 DEF Fewer, g

\* The append of frame j has programmed its cells below p: its first cell says
\* so, or was dirty before, and no cell from p on can be taken for part of it.
Started(f, j, p) ==
    p > j.start =>
        /\ f[j.start] \in {Junk, [seq |-> j.seq, len |-> j.len, off |-> 0]}
        /\ f[j.start] # Junk =>
             \A x \in Addrs : x >= p /\ f[x] \in Cells => x - f[x].off # j.start

\* The frame that job j appends, and the cells it programs next.
ProgramBase(f, j, n) ==
    /\ f \in Images /\ CellsWellPlaced(f)
    /\ j.seq \in Seqs /\ j.len \in FrameSizes /\ j.start \in Addrs
    /\ j.pos \in Nat /\ n \in Nat \ {0}
    /\ j.start <= j.pos /\ j.pos + n <= j.start + j.len
    /\ j.start + j.len <= SectorEnd(j.start)
    /\ Started(f, j, j.pos)

\* The same where nothing intact lies ahead in the sector.
ProgramStep(f, j, n) == ProgramBase(f, j, n) /\ ClearFrom(f, j.start)

LEMMA ProgramSector ==
    ASSUME NEW f, NEW j, NEW n, ProgramBase(f, j, n), NEW x \in Addrs, x \in Span(j.pos, n)
    PROVE  SectorEnd(x) = SectorEnd(j.start)
<1>1. j.start \in Nat /\ x \in Nat /\ j.start \in Addrs
  BY ImageFacts DEF ProgramBase
<1>2. j.len \in Nat
  <2>1. j.len \in 1 .. SectorSize
    BY FrameAssumption DEF ProgramBase
  <2> QED BY <2>1, ConfigAssumption
<1>3. j.start <= x /\ x < j.start + j.len
  BY <1>1, <1>2 DEF ProgramBase, Span
<1>4. /\ SectorEnd(j.start) \in Nat /\ SectorEnd(j.start) - SectorSize <= j.start
      /\ j.start + j.len <= SectorEnd(j.start)
  BY <1>1, SectorEndType DEF ProgramBase
<1> QED BY <1>1, <1>2, <1>3, <1>4, SameSector, ConfigAssumption

LEMMA ProgramCell ==
    ASSUME NEW f, NEW j, NEW n, ProgramBase(f, j, n), NEW x \in Addrs
    PROVE  LET g == ProgramCells(f, j, j.start, j.pos, n) IN
           /\ j.start \in Nat /\ j.len \in Nat /\ x \in Nat
           /\ x \notin Span(j.pos, n) => g[x] = f[x]
           /\ x \in Span(j.pos, n) =>
                /\ f[x] # Erased => g[x] = Junk
                /\ f[x] = Erased =>
                     /\ g[x] = [seq |-> j.seq, len |-> j.len, off |-> x - j.start]
                     /\ g[x] \in Cells /\ g[x].off = x - j.start
                /\ SectorEnd(x) = SectorEnd(j.start)
<1> DEFINE g == ProgramCells(f, j, j.start, j.pos, n)
<1>1. j.start \in Nat /\ x \in Nat /\ f \in Images
  BY ImageFacts DEF ProgramBase
<1>2. j.len \in Nat /\ j.len <= SectorSize
  <2>1. j.len \in 1 .. SectorSize
    BY FrameAssumption DEF ProgramBase
  <2> QED BY <2>1, ConfigAssumption
<1>3. x \notin Span(j.pos, n) => g[x] = f[x]
  BY DEF ProgramCells
<1>4. ASSUME x \in Span(j.pos, n)
      PROVE  /\ f[x] # Erased => g[x] = Junk
             /\ f[x] = Erased =>
                  g[x] = [seq |-> j.seq, len |-> j.len, off |-> x - j.start]
             /\ x - j.start \in 0 .. SectorSize - 1
             /\ SectorEnd(x) = SectorEnd(j.start)
  <2>1. j.start <= x /\ x < j.start + j.len
    BY <1>1, <1>2, <1>4 DEF ProgramBase, Span
  <2>2. SectorEnd(x) = SectorEnd(j.start)
    BY <1>4, ProgramSector
  <2> QED BY <1>1, <1>2, <1>4, <2>1, <2>2, ConfigAssumption DEF ProgramCells
<1>5. ASSUME x \in Span(j.pos, n), f[x] = Erased
      PROVE  g[x] \in Cells /\ g[x].off = x - j.start
  BY <1>4, <1>5 DEF ProgramBase, Cells
<1> QED BY <1>1, <1>2, <1>3, <1>4, <1>5

\* Programming makes at most the frame that is being appended, which is not intact
\* before its last byte.
LEMMA ProgramBaseFacts ==
    ASSUME NEW f, NEW j, NEW n, ProgramBase(f, j, n)
    PROVE  LET g == ProgramCells(f, j, j.start, j.pos, n) IN
           /\ g \in Images /\ CellsWellPlaced(g) /\ Started(g, j, j.pos + n)
           /\ \A a \in Addrs : a # j.start /\ ValidFrameAt(g, a) =>
                ValidFrameAt(f, a) /\ g[a] = f[a]
           /\ j.pos + n < j.start + j.len => ~ ValidFrameAt(g, j.start)
           /\ ValidFrameAt(g, j.start) => g[j.start].seq = j.seq /\ g[j.start].len = j.len
<1> DEFINE g == ProgramCells(f, j, j.start, j.pos, n)
<1>0. f \in Images /\ j.start \in Addrs /\ j.start \in Nat /\ j.len \in Nat
      /\ j.pos \in Nat /\ n \in Nat \ {0} /\ j.start <= j.pos
  BY ProgramCell DEF ProgramBase
<1>1. ASSUME NEW x \in Addrs
      PROVE  /\ x \in Nat
             /\ x \notin Span(j.pos, n) => g[x] = f[x]
             /\ x \in Span(j.pos, n) =>
                  /\ f[x] # Erased => g[x] = Junk
                  /\ f[x] = Erased =>
                       /\ g[x] = [seq |-> j.seq, len |-> j.len, off |-> x - j.start]
                       /\ g[x] \in Cells /\ g[x].off = x - j.start
                  /\ SectorEnd(x) = SectorEnd(j.start)
  BY <1>1, ProgramCell
<1>2. g \in Images
  <2>1. g = [x \in Addrs |-> g[x]]
    BY DEF ProgramCells
  <2>2. \A x \in Addrs : g[x] \in Cells \cup {Erased, Junk}
    BY <1>0, <1>1, ImageFacts
  <2> HIDE DEF g
  <2> QED BY <2>1, <2>2 DEF Images
<1> HIDE DEF g
<1>3. CellsWellPlaced(g)
  <2> SUFFICES ASSUME NEW x \in Addrs, g[x] \in Cells
               PROVE  /\ x - g[x].off \in Addrs /\ g[x - g[x].off] # Erased
                      /\ SectorEnd(x - g[x].off) = SectorEnd(x)
    BY DEF CellsWellPlaced
  <2>1. CASE x \in Span(j.pos, n)
    <3>1. g[x].off = x - j.start /\ SectorEnd(x) = SectorEnd(j.start)
      BY <1>1, <2>1, CellAssumption
    <3>2. x - g[x].off = j.start
      <4>1. x \in Nat
        BY <1>1
      <4> QED BY <1>0, <3>1, <4>1
    <3>3. g[j.start] # Erased
      <4>1. CASE j.start \in Span(j.pos, n)
        BY <1>0, <1>1, <4>1, CellAssumption
      <4>2. CASE j.start \notin Span(j.pos, n)
        <5>1. j.pos > j.start
          BY <1>0, <4>2 DEF Span
        <5>2. f[j.start] # Erased
          <6>1. f[j.start] \in {Junk, [seq |-> j.seq, len |-> j.len, off |-> 0]}
            BY <5>1 DEF ProgramBase, Started
          <6>2. [seq |-> j.seq, len |-> j.len, off |-> 0] \in Cells
            BY ConfigAssumption DEF ProgramBase, Cells
          <6> QED BY <6>1, <6>2, CellAssumption
        <5> QED BY <1>0, <1>1, <4>2, <5>2
      <4> QED BY <4>1, <4>2
    <3> QED BY <1>0, <3>1, <3>2, <3>3
  <2>2. CASE x \notin Span(j.pos, n)
    <3>1. g[x] = f[x]
      BY <1>1, <2>2
    <3>2. x - f[x].off \in Addrs /\ f[x - f[x].off] # Erased
          /\ SectorEnd(x - f[x].off) = SectorEnd(x)
      BY <3>1 DEF ProgramBase, CellsWellPlaced
    <3> QED BY <3>1, <3>2, <1>1, CellAssumption
  <2> QED BY <2>1, <2>2
<1>4. ASSUME NEW a \in Addrs, a # j.start, ValidFrameAt(g, a)
      PROVE  ValidFrameAt(f, a) /\ g[a] = f[a]
  <2>1. a \in ValidAddrs(g)
    BY <1>4 DEF ValidAddrs
  <2>2. \A x \in Span(a, g[a].len) : x \in Addrs /\ g[x] \in Cells /\ g[x].off = x - a
    BY <2>1, <1>2, ValidFacts
  <2>3. ASSUME NEW x \in Span(a, g[a].len)
        PROVE  f[x] = g[x]
    <3>1. x \in Addrs /\ x \in Nat /\ a \in Nat /\ g[x] \in Cells /\ g[x].off = x - a
      BY <2>2, <2>3, <1>1
    <3>2. x \notin Span(j.pos, n)
      <4>1. ASSUME x \in Span(j.pos, n)
            PROVE  g[x].off = x - j.start
        BY <3>1, <4>1, <1>1, CellAssumption
      <4> QED BY <3>1, <4>1, <1>0, <1>4
    <3> QED BY <3>1, <3>2, <1>1
  <2> QED BY <2>1, <2>3, <1>2, ValidStays
<1>6. Started(g, j, j.pos + n)
  <2>1. CASE j.pos = j.start
    <3>1. j.start \in Span(j.pos, n)
      BY <1>0, <2>1 DEF Span
    <3>2. CASE f[j.start] # Erased
      BY <1>0, <1>1, <3>1, <3>2 DEF Started
    <3>3. CASE f[j.start] = Erased
      <4>1. g[j.start] = [seq |-> j.seq, len |-> j.len, off |-> 0]
        <5>1. j.start - j.start = 0
          BY <1>0
        <5>2. g[j.start] = [seq |-> j.seq, len |-> j.len, off |-> j.start - j.start]
          <6>1. j.start \in Addrs
            BY <1>0
          <6> QED BY <6>1, <1>1, <3>1, <3>3, Zenon
        <5> QED BY <5>1, <5>2
      <4>2. ASSUME NEW x \in Addrs, x >= j.pos + n, g[x] \in Cells
            PROVE  x - g[x].off # j.start
        <5>0. x \in Nat /\ x \notin Span(j.pos, n)
          <6>1. x \in Nat
            BY <1>1
          <6> QED BY <6>1, <4>2, <1>0, SpanIff
        <5>1. g[x] = f[x]
          BY <5>0, <1>1
        <5> QED BY <3>3, <4>2, <5>1 DEF ProgramBase, CellsWellPlaced
      <4> QED BY <4>1, <4>2 DEF Started
    <3> QED BY <3>2, <3>3
  <2>2. CASE j.pos > j.start
    <3>1. j.start \notin Span(j.pos, n)
      BY <1>0, <2>2 DEF Span
    <3>2. g[j.start] = f[j.start]
      BY <1>0, <1>1, <3>1
    <3>3. \A x \in Addrs : x >= j.pos + n => x >= j.pos /\ g[x] = f[x]
      <4> SUFFICES ASSUME NEW x \in Addrs, x >= j.pos + n
                   PROVE  x >= j.pos /\ g[x] = f[x]
        OBVIOUS
      <4>1. x \in Nat
        BY <1>1
      <4>2. x >= j.pos /\ x \notin Span(j.pos, n)
        BY <4>1, <1>0, SpanIff
      <4> QED BY <4>2, <1>1
    <3>4. Started(f, j, j.pos)
      BY DEF ProgramBase
    <3> QED BY <2>2, <3>2, <3>3, <3>4 DEF Started
  <2> QED BY <1>0, <2>1, <2>2
<1>7. ASSUME ValidFrameAt(g, j.start)
      PROVE  /\ g[j.start].seq = j.seq /\ g[j.start].len = j.len
             /\ ~ (j.pos + n < j.start + j.len)
  <2>1. j.start \in ValidAddrs(g) /\ g[j.start] # Junk
    <3>1. j.start \in ValidAddrs(g)
      BY <1>0, <1>7 DEF ValidAddrs
    <3> QED BY <3>1, <1>2, ValidFacts, CellAssumption
  <2>2. j.pos + n > j.start
    BY <1>0
  <2>3. g[j.start] = [seq |-> j.seq, len |-> j.len, off |-> 0]
    BY <1>6, <2>1, <2>2 DEF Started
  <2>4. ASSUME j.pos + n < j.start + j.len
        PROVE  FALSE
    <3> DEFINE x == j.pos + n
    <3>1. x \in Span(j.start, g[j.start].len)
      BY <1>0, <2>3, <2>4 DEF Span
    <3>2. x \in Addrs /\ g[x] \in Cells /\ g[x].off = x - j.start
      BY <1>2, <2>1, <3>1, ValidFacts
    <3>3. x - g[x].off # j.start
      BY <1>6, <2>1, <2>2, <3>2, <1>0 DEF Started
    <3> QED BY <3>2, <3>3, <1>0
  <2> QED BY <2>3, <2>4
<1> QED BY <1>2, <1>3, <1>4, <1>6, <1>7 DEF g

\* Where nothing intact lies ahead it spares every frame stored before.
LEMMA ProgramFacts ==
    ASSUME NEW f, NEW j, NEW n, ProgramStep(f, j, n)
    PROVE  LET g == ProgramCells(f, j, j.start, j.pos, n) IN
           /\ g \in Images /\ CellsWellPlaced(g) /\ Started(g, j, j.pos + n)
           /\ \A a \in Addrs : a # j.start /\ ValidFrameAt(g, a) =>
                ValidFrameAt(f, a) /\ g[a] = f[a]
           /\ \A a \in ValidAddrs(f) : ValidFrameAt(g, a) /\ g[a] = f[a]
           /\ j.pos + n < j.start + j.len => ~ ValidFrameAt(g, j.start)
           /\ ValidFrameAt(g, j.start) => g[j.start].seq = j.seq /\ g[j.start].len = j.len
<1> DEFINE g == ProgramCells(f, j, j.start, j.pos, n)
<1>b. ProgramBase(f, j, n)
  BY DEF ProgramStep
<1>0. f \in Images /\ j.start \in Addrs /\ j.start \in Nat /\ j.len \in Nat
      /\ j.pos \in Nat /\ n \in Nat \ {0} /\ j.start <= j.pos
  BY <1>b, ProgramCell DEF ProgramBase
<1>1. ASSUME NEW x \in Addrs
      PROVE  /\ x \in Nat
             /\ x \notin Span(j.pos, n) => g[x] = f[x]
             /\ x \in Span(j.pos, n) => SectorEnd(x) = SectorEnd(j.start)
  <2>1. x \in Nat /\ (x \notin Span(j.pos, n) => g[x] = f[x])
    BY <1>0, <1>1, ImageFacts DEF ProgramCells
  <2>2. x \in Span(j.pos, n) => SectorEnd(x) = SectorEnd(j.start)
    BY <1>b, <1>1, ProgramSector
  <2> QED BY <2>1, <2>2
<1> HIDE DEF g
<1>5. ASSUME NEW a \in ValidAddrs(f)
      PROVE  ValidFrameAt(g, a) /\ g[a] = f[a]
  <2>0. a \in Addrs /\ a \in Nat /\ SectorEnd(a) \in Nat /\ f[a].len \in Nat
        /\ SectorEnd(a) - SectorSize <= a /\ a + f[a].len <= SectorEnd(a)
    BY <1>0, <1>5, ValidFacts, ImageFacts, SectorEndType, FrameInSector DEF ProgramStep, ProgramBase
  <2>1. ASSUME NEW x \in Span(a, f[a].len)
        PROVE  g[x] = f[x]
    <3>1. x \in Addrs /\ x \in Int /\ a <= x /\ x < a + f[a].len
      BY <1>0, <1>5, <2>0, <2>1, ValidFacts DEF Span
    <3>2. SectorEnd(x) = SectorEnd(a)
      BY <2>0, <3>1, SameSector, ConfigAssumption
    <3>3. SectorEnd(a) = SectorEnd(j.start) => x < j.pos
      BY <1>0, <1>5, <2>0, <3>1 DEF ProgramStep, ClearFrom
    <3>4. SectorEnd(x) # SectorEnd(j.start) \/ x < j.pos
      BY <3>2, <3>3
    <3>5. x \notin Span(j.pos, n)
      <4>1. x \in Nat /\ (x \in Span(j.pos, n) => SectorEnd(x) = SectorEnd(j.start))
        BY <3>1, <1>1
      <4> QED BY <3>4, <4>1, <1>0, SpanIff
    <3> QED BY <3>1, <3>5, <1>1
  <2> QED BY <2>1, <1>0, <1>5, ValidStays
<1> QED BY <1>b, <1>5, ProgramBaseFacts DEF g

-----------------------------------------------------------------------------
(* The index rebuilt from flash.                                           *)

\* In one window of the sequence space the ranks decide who is newer.
LEMMA RankNewer ==
    ASSUME NEW b \in Seqs, NEW s \in Seqs, NEW t \in Seqs,
           2 * Rank(b, s) < SeqModulus, 2 * Rank(b, t) < SeqModulus
    PROVE  /\ Rank(b, s) \in Nat /\ Rank(b, t) \in Nat
           /\ Rank(b, s) <= Rank(b, t) => ~ IsSeqNewer(s, t)
           /\ Rank(b, s) = Rank(b, t) => s = t
  BY SeqFacts DEF Seqs, Rank, IsSeqNewer

LEMMA ValidFinite ==
    ASSUME NEW f
    PROVE  IsFiniteSet(ValidAddrs(f)) /\ Cardinality(ValidAddrs(f)) \in Nat
<1>1. IsFiniteSet(Addrs)
  BY FS_Interval, ConfigAssumption DEF Addrs
<1>2. ValidAddrs(f) \subseteq Addrs
  BY DEF ValidAddrs
<1> QED BY <1>1, <1>2, FS_Subset, FS_CardinalityType

LEMMA NewestFacts ==
    ASSUME NEW f \in Images, OneWindow(f), ValidAddrs(f) # {}
    PROVE  /\ Newest(f) \in ValidAddrs(f)
           /\ \A a \in ValidAddrs(f) : ~ IsSeqNewer(f[a].seq, f[Newest(f)].seq)
                                      /\ (f[a].seq = f[Newest(f)].seq => Newest(f) <= a)
<1>1. PICK b \in Seqs : \A a \in ValidAddrs(f) : 2 * Rank(b, f[a].seq) < SeqModulus
  BY DEF OneWindow
<1>2. \A a \in ValidAddrs(f) : f[a].seq \in Seqs /\ Rank(b, f[a].seq) \in Nat /\ a \in Nat
  BY <1>1, ValidFacts, RankNewer, ImageFacts
<1> DEFINE R == {SeqModulus - Rank(b, f[a].seq) : a \in ValidAddrs(f)}
<1>3. R \subseteq Nat /\ R # {}
  BY <1>1, <1>2, SeqFacts
<1>4. PICK m \in ValidAddrs(f) :
        \A a \in ValidAddrs(f) : Rank(b, f[a].seq) <= Rank(b, f[m].seq)
  <2>1. PICK r \in R : \A q \in R : r <= q
    BY <1>3, LeastNat
  <2>2. PICK m \in ValidAddrs(f) : r = SeqModulus - Rank(b, f[m].seq)
    BY <2>1
  <2>3. \A a \in ValidAddrs(f) :
          SeqModulus - Rank(b, f[m].seq) <= SeqModulus - Rank(b, f[a].seq)
    BY <2>1, <2>2
  <2> QED BY <2>2, <2>3, <1>2, SeqFacts
<1> DEFINE S == {a \in ValidAddrs(f) : f[a].seq = f[m].seq}
<1>5. PICK n \in S : \A a \in S : n <= a
  <2>1. S \subseteq Nat /\ S # {}
    BY <1>2, <1>4
  <2> HIDE DEF S
  <2> QED BY <2>1, LeastNat
<1>6. n \in ValidAddrs(f) /\ \A a \in ValidAddrs(f) :
        ~ IsSeqNewer(f[a].seq, f[n].seq) /\ (f[a].seq = f[n].seq => n <= a)
  BY <1>1, <1>2, <1>4, <1>5, RankNewer
<1> QED BY <1>6, Zenon DEF Newest

LEMMA OldestFacts ==
    ASSUME NEW f \in Images, OneWindow(f), ValidAddrs(f) # {}
    PROVE  Oldest(f) \in ValidAddrs(f)
<1>1. PICK b \in Seqs : \A a \in ValidAddrs(f) : 2 * Rank(b, f[a].seq) < SeqModulus
  BY DEF OneWindow
<1>2. \A a \in ValidAddrs(f) : f[a].seq \in Seqs /\ Rank(b, f[a].seq) \in Nat /\ a \in Nat
  BY <1>1, ValidFacts, RankNewer, ImageFacts
<1> DEFINE R == {Rank(b, f[a].seq) : a \in ValidAddrs(f)}
<1>4. PICK m \in ValidAddrs(f) :
        \A a \in ValidAddrs(f) : Rank(b, f[m].seq) <= Rank(b, f[a].seq)
  <2>1. R \subseteq Nat /\ R # {}
    BY <1>2
  <2>2. PICK r \in R : \A q \in R : r <= q
    <3> HIDE DEF R
    <3> QED BY <2>1, LeastNat
  <2> QED BY <2>2
<1> DEFINE S == {a \in ValidAddrs(f) : f[a].seq = f[m].seq}
<1>5. PICK n \in S : \A a \in S : n <= a
  <2>1. S \subseteq Nat /\ S # {}
    BY <1>2, <1>4
  <2> HIDE DEF S
  <2> QED BY <2>1, LeastNat
<1>6. n \in ValidAddrs(f) /\ \A a \in ValidAddrs(f) :
        ~ IsSeqNewer(f[n].seq, f[a].seq) /\ (f[a].seq = f[n].seq => n <= a)
  BY <1>1, <1>2, <1>4, <1>5, RankNewer
<1> QED BY <1>6, Zenon DEF Oldest

\* A scan finds an index, which counts the frames and points at two of them.
LEMMA RebuildType ==
    ASSUME NEW f \in Images, OneWindow(f)
    PROVE  /\ Rebuild(f) \in Indexes
           /\ Rebuild(f).count = Cardinality(ValidAddrs(f))
           /\ ValidAddrs(f) # {} =>
                /\ Rebuild(f).oldest \in ValidAddrs(f) /\ Rebuild(f).newest \in ValidAddrs(f)
                /\ Rebuild(f).newest_seq = f[Rebuild(f).newest].seq
<1>0. StartAddr \in Addrs /\ IsSectorStart(StartAddr) /\ 0 \in Seqs
  BY ConfigAssumption, SeqFacts DEF Addrs, IsSectorStart
<1>1. \A a \in Addrs : SafeWrite(f, a) \in Addrs
  BY NextSectorType DEF SafeWrite, IsErasedAt
<1>2. CASE ValidAddrs(f) = {}
  <2>1. Cardinality(ValidAddrs(f)) = 0
    BY <1>2, FS_EmptySet
  <2> QED BY <1>0, <1>1, <1>2, <2>1 DEF Rebuild, EmptyIndex, Indexes
<1>3. CASE ValidAddrs(f) # {}
  <2> DEFINE n == Newest(f)
             w == WrapAddress(n + f[n].len)
  <2>1. n \in ValidAddrs(f) /\ Oldest(f) \in ValidAddrs(f)
    BY <1>3, NewestFacts, OldestFacts
  <2>4. Rebuild(f) = [write |-> SafeWrite(f, w), oldest |-> Oldest(f), newest |-> n,
                      newest_seq |-> f[n].seq, count |-> Cardinality(ValidAddrs(f))]
    BY <1>3 DEF Rebuild
  <2> HIDE DEF n
  <2>2. /\ n \in Addrs /\ n \in Nat /\ f[n].len \in Nat \ {0} /\ f[n].seq \in Seqs
        /\ n + f[n].len <= EndAddr /\ StartAddr <= n /\ Oldest(f) \in Addrs
    BY <2>1, ValidFacts, ImageFacts
  <2>3. w \in Addrs
    <3>1. n + f[n].len \in Nat /\ StartAddr <= n + f[n].len /\ n + f[n].len <= EndAddr
      BY <2>2, ConfigAssumption
    <3> QED BY <3>1, WrapType
  <2> HIDE DEF w
  <2> QED BY <2>1, <2>2, <2>3, <2>4, <1>1, ValidFinite DEF Indexes
<1> QED BY <1>2, <1>3

\* After a scan the write position is at the start of a sector, or behind the
\* last frame of its sector.
LEMMA RebuildFacts ==
    ASSUME NEW f \in Images, CellsWellPlaced(f), SectorSorted(f), OneWindow(f)
    PROVE  /\ Rebuild(f) \in Indexes
           /\ IsSectorStart(Rebuild(f).write) \/ ClearFrom(f, Rebuild(f).write)
<1>0. StartAddr \in Addrs /\ IsSectorStart(StartAddr) /\ 0 \in Seqs
  BY ConfigAssumption, SeqFacts DEF Addrs, IsSectorStart
<1>1. \A a \in Addrs : SafeWrite(f, a) \in Addrs
        /\ (IsSectorStart(SafeWrite(f, a)) \/ (SafeWrite(f, a) = a /\ f[a] = Erased))
  BY NextSectorType DEF SafeWrite, IsErasedAt
<1>2. CASE ValidAddrs(f) = {}
  BY <1>0, <1>1, <1>2 DEF Rebuild, EmptyIndex, Indexes, ClearFrom
<1>3. CASE ValidAddrs(f) # {}
  <2> DEFINE n == Newest(f)
             w == WrapAddress(n + f[n].len)
  <2>1. n \in ValidAddrs(f) /\ Oldest(f) \in ValidAddrs(f)
        /\ \A a \in ValidAddrs(f) : ~ IsSeqNewer(f[a].seq, f[n].seq)
    BY <1>3, NewestFacts, OldestFacts
  <2> HIDE DEF n
  <2>2. /\ n \in Addrs /\ n \in Nat /\ f[n].len \in Nat \ {0} /\ f[n].seq \in Seqs
        /\ n + f[n].len <= EndAddr /\ StartAddr <= n /\ n + f[n].len <= SectorEnd(n)
        /\ Oldest(f) \in Addrs
    BY <2>1, ValidFacts, ImageFacts, FrameInSector
  <2>3. w \in Addrs /\ (w = n + f[n].len \/ w = StartAddr)
    <3>1. n + f[n].len \in Nat /\ StartAddr <= n + f[n].len /\ n + f[n].len <= EndAddr
      BY <2>2, ConfigAssumption
    <3> QED BY <3>1, WrapType
  <2>4. Rebuild(f) = [write |-> SafeWrite(f, w), oldest |-> Oldest(f), newest |-> n,
                      newest_seq |-> f[n].seq, count |-> Cardinality(ValidAddrs(f))]
    BY <1>3 DEF Rebuild, n
  <2>5. Rebuild(f) \in Indexes
    <3>1. Cardinality(ValidAddrs(f)) \in Int
      BY ValidFinite
    <3>2. SafeWrite(f, w) \in Addrs
      BY <2>3, <1>1
    <3> HIDE DEF w
    <3> QED BY <2>2, <2>4, <3>1, <3>2 DEF Indexes
  <2>6. ASSUME w = n + f[n].len, ~ IsSectorStart(w)
        PROVE  ClearFrom(f, w)
    <3>1. SectorEnd(w) = SectorEnd(n)
      <4>1. SectorEnd(n) \in Nat /\ SectorEnd(n) - SectorSize <= n /\ IsSectorStart(SectorEnd(n))
        BY <2>2, SectorEndType
      <4>2. w < SectorEnd(n) /\ w \in Nat
        BY <2>2, <2>6, <4>1
      <4> QED BY <2>2, <2>6, <4>1, <4>2, SameSector, ConfigAssumption
    <3>2. ASSUME NEW a \in ValidAddrs(f), SectorEnd(a) = SectorEnd(w), a + f[a].len > w
          PROVE  FALSE
      <4>1. a \in Nat /\ f[a].len \in Nat /\ a \in Addrs
        BY <3>2, ValidFacts, ImageFacts
      <4>2. CASE n < a
        BY <2>1, <3>1, <3>2, <4>2 DEF SectorSorted
      <4>3. CASE a < n
        <5>1. n \in Span(a, f[a].len)
          BY <2>2, <2>6, <3>2, <4>1, <4>3, SpanIff
        <5>2. f[n].off = n - a
          BY <3>2, <5>1, ValidFacts
        <5> QED BY <2>1, <2>2, <4>1, <4>3, <5>2, ValidFacts
      <4>4. CASE a = n
        BY <2>2, <2>6, <3>2, <4>4
      <4> QED BY <2>2, <4>1, <4>2, <4>3, <4>4
    <3>3. \A a \in ValidAddrs(f) : a \in Nat /\ f[a].len \in Nat
      BY ValidFacts, ImageFacts
    <3>4. w \in Nat
      BY <2>2, <2>6
    <3> QED BY <3>2, <3>3, <3>4 DEF ClearFrom
  <2>7. IsSectorStart(SafeWrite(f, w)) \/ ClearFrom(f, SafeWrite(f, w))
    BY <1>0, <1>1, <2>3, <2>6
  <2> QED BY <2>4, <2>5, <2>7
<1> QED BY <1>2, <1>3

-----------------------------------------------------------------------------
(* The inductive invariant.                                                *)

\* What the append in progress knows of the flash it writes to.
AppendInv ==
    /\ pc \in {"erase", "program"} => InSeqWindow(flash, job.seq)
    /\ pc = "program" => ClearFrom(flash, job.start) /\ Started(flash, job, job.pos)
    /\ pc = "commit" =>
         \A a \in ValidAddrs(flash) :
            SectorEnd(a) = SectorEnd(job.start) => a + flash[a].len <= job.pos

\* Between operations, and while the log is being erased (which can fail and
\* leave the index as it is), nothing intact lies where the next frame will go.
WriteInv ==
    pc \in {"idle", "wipe"} => IsSectorStart(idx.write) \/ ClearFrom(flash, idx.write)

FlashInv == CellsWellPlaced(flash) /\ SectorSorted(flash) /\ OneWindow(flash)

IInv == TypeOK /\ FlashInv /\ AppendInv /\ WriteInv

\* A sequence number newer than all frames shows a window they all lie in.
LEMMA WindowBelow ==
    ASSUME NEW f, NEW s \in Seqs,
           \A a \in ValidAddrs(f) :
              f[a].seq \in Seqs /\ (f[a].seq = s \/ IsSeqNewer(s, f[a].seq))
    PROVE  OneWindow(f)
<1>1. PICK h \in Nat \ {0} : SeqModulus = 2 * h
  <2>1. SeqModulus = 2 * (SeqModulus \div 2) /\ SeqModulus \div 2 \in Nat
    BY SeqAssumption, DivMod
  <2> QED BY <2>1, SeqAssumption
<1> DEFINE b == IF s >= h - 1 THEN s - (h - 1) ELSE (s - (h - 1)) + SeqModulus
<1>2. b \in Seqs
  BY <1>1 DEF Seqs
<1>3. \A t \in Seqs : t = s \/ IsSeqNewer(s, t) => 2 * Rank(b, t) < SeqModulus
  BY <1>1 DEF Seqs, IsSeqNewer, Rank
<1> QED BY <1>2, <1>3 DEF OneWindow

LEMMA ProgramPlacement ==
    ASSUME NEW f, NEW j, NEW n, ProgramStep(f, j, n),
           SectorSorted(f), OneWindow(f), InSeqWindow(f, j.seq)
    PROVE  LET g == ProgramCells(f, j, j.start, j.pos, n) IN
           /\ SectorSorted(g) /\ OneWindow(g)
           /\ j.pos + n < j.start + j.len =>
                ClearFrom(g, j.start) /\ InSeqWindow(g, j.seq)
           /\ \A a \in ValidAddrs(g) :
                SectorEnd(a) = SectorEnd(j.start) => a + g[a].len <= j.start + j.len
<1> DEFINE g == ProgramCells(f, j, j.start, j.pos, n)
           st == j.start
<1>0. g \in Images /\ f \in Images /\ st \in Addrs /\ st \in Nat /\ j.len \in Nat /\ j.seq \in Seqs
  BY ProgramFacts, ProgramCell DEF ProgramStep, ProgramBase
<1>1. \A a \in ValidAddrs(g) : a # st => a \in ValidAddrs(f) /\ g[a] = f[a]
  BY ProgramFacts DEF ValidAddrs
<1>2. st \in ValidAddrs(g) => /\ g[st].seq = j.seq /\ g[st].len = j.len
                              /\ ~ (j.pos + n < st + j.len)
  BY ProgramFacts DEF ValidAddrs
<1>3. \A a \in ValidAddrs(f) : SectorEnd(a) = SectorEnd(st) => a + f[a].len <= st
  BY DEF ProgramStep, ProgramBase, ClearFrom
<1> HIDE DEF g, st
<1>4. \A a \in ValidAddrs(g) : a \in Nat /\ g[a].len \in Nat \ {0} /\ g[a].seq \in Seqs
  BY <1>0, ValidFacts, ImageFacts
<1>5. SectorSorted(g)
  <2> SUFFICES ASSUME NEW a \in ValidAddrs(g), NEW b \in ValidAddrs(g),
                      a < b, SectorEnd(a) = SectorEnd(b)
               PROVE  IsSeqNewer(g[b].seq, g[a].seq)
    BY DEF SectorSorted
  <2>1. CASE a = st
    <3>1. b # st /\ b \in ValidAddrs(f) /\ g[b] = f[b]
      BY <1>0, <1>1, <2>1
    <3>2. b + f[b].len <= st
      BY <1>3, <2>1, <3>1
    <3> QED BY <1>0, <1>4, <2>1, <3>1, <3>2
  <2>2. CASE a # st /\ b = st
    BY <1>1, <1>2, <2>2 DEF InSeqWindow
  <2>3. CASE a # st /\ b # st
    BY <1>1, <2>3 DEF SectorSorted
  <2> QED BY <2>1, <2>2, <2>3
<1>6. OneWindow(g)
  <2>1. \A a \in ValidAddrs(g) : g[a].seq = j.seq \/ IsSeqNewer(j.seq, g[a].seq)
    BY <1>1, <1>2 DEF InSeqWindow
  <2> QED BY <2>1, <1>0, <1>4, WindowBelow
<1>7. ASSUME j.pos + n < st + j.len
      PROVE  ClearFrom(g, st) /\ InSeqWindow(g, j.seq)
  BY <1>1, <1>2, <1>3, <1>7 DEF ClearFrom, InSeqWindow
<1>8. ASSUME NEW a \in ValidAddrs(g), SectorEnd(a) = SectorEnd(st)
      PROVE  a + g[a].len <= st + j.len
  <2>1. CASE a = st
    BY <1>0, <1>2, <2>1, <1>8
  <2>2. CASE a # st
    <3>1. a + g[a].len <= st
      BY <1>1, <1>3, <1>8, <2>2
    <3> QED BY <1>0, <1>4, <1>8, <3>1
  <2> QED BY <2>1, <2>2
<1> QED BY <1>5, <1>6, <1>7, <1>8 DEF g, st

\* The three conjuncts of FlashInv survive a step that makes no new frame.
LEMMA FewerInv ==
    ASSUME NEW f, NEW g, Fewer(f, g), SectorSorted(f), OneWindow(f)
    PROVE  SectorSorted(g) /\ OneWindow(g)
  BY FewerFacts

LEMMA TornEraseBase ==
    ASSUME NEW f \in Images, NEW s \in Addrs, IsSectorStart(s), NEW g \in TornErases(f, s),
           CellsWellPlaced(f)
    PROVE  /\ g \in Images /\ CellsWellPlaced(g) /\ Fewer(f, g)
           /\ \A a \in ValidAddrs(f) : a \notin Span(s, SectorSize) =>
                ValidFrameAt(g, a) /\ g[a] = f[a]
<1>1. PICK T \in SUBSET Span(s, SectorSize), v \in {Erased, Junk} : g = Smash(f, T, v)
  BY DEF TornErases
<1>2. g \in Images /\ CellsWellPlaced(g) /\ Fewer(f, g)
  BY <1>1, SmashFacts
<1>3. ASSUME NEW a \in ValidAddrs(f), a \notin Span(s, SectorSize)
      PROVE  Span(a, f[a].len) \cap Span(s, SectorSize) = {}
  <2>1. /\ a \in Addrs /\ a \in Nat /\ f[a].len \in Nat /\ a + f[a].len <= SectorEnd(a)
        /\ SectorEnd(a) \in Nat /\ SectorEnd(a) - SectorSize <= a /\ a < SectorEnd(a)
        /\ s \in Nat /\ SectorEnd(s) = s + SectorSize
    BY <1>3, ValidFacts, ImageFacts, FrameInSector, SectorEndType, SectorStartEnd
  <2>2. ASSUME NEW x \in Span(a, f[a].len), x \in Span(s, SectorSize)
        PROVE  FALSE
    <3>1. x \in Nat /\ a <= x /\ x < a + f[a].len /\ s <= x /\ x < s + SectorSize
      BY <2>1, <2>2, ConfigAssumption DEF Span
    <3>2. SectorEnd(x) = SectorEnd(a) /\ SectorEnd(x) = SectorEnd(s)
      BY <2>1, <3>1, SameSector, ConfigAssumption
    <3>3. s <= a /\ a < s + SectorSize
      BY <2>1, <3>2, ConfigAssumption
    <3> QED BY <1>3, <2>1, <3>3, SpanIff, ConfigAssumption
  <2> QED BY <2>2
<1>4. ASSUME NEW a \in ValidAddrs(f), a \notin Span(s, SectorSize)
      PROVE  ValidFrameAt(g, a) /\ g[a] = f[a]
  BY <1>1, <1>3, <1>4, SmashFacts
<1> QED BY <1>2, <1>4

LEMMA TornEraseFacts ==
    ASSUME NEW f \in Images, NEW s \in Addrs, IsSectorStart(s), NEW g \in TornErases(f, s),
           CellsWellPlaced(f), SectorSorted(f), OneWindow(f)
    PROVE  /\ g \in Images /\ CellsWellPlaced(g) /\ SectorSorted(g) /\ OneWindow(g)
           /\ Fewer(f, g)
           /\ \A a \in ValidAddrs(f) : a \notin Span(s, SectorSize) =>
                ValidFrameAt(g, a) /\ g[a] = f[a]
  BY TornEraseBase, FewerInv

LEMMA TornProgramFacts ==
    ASSUME NEW f, NEW j, NEW n, ProgramStep(f, j, n),
           SectorSorted(f), OneWindow(f), InSeqWindow(f, j.seq),
           NEW g \in TornPrograms(f, j, j.start, j.pos, n)
    PROVE  /\ g \in Images /\ CellsWellPlaced(g) /\ SectorSorted(g) /\ OneWindow(g)
           /\ \A a \in ValidAddrs(f) : ValidFrameAt(g, a) /\ g[a] = f[a]
<1>1. CASE g = ProgramCells(f, j, j.start, j.pos, n)
  BY <1>1, ProgramFacts, ProgramPlacement
<1>2. CASE \E T \in SUBSET Span(j.pos, n) : g = Smash(f, T, Junk)
  <2>0. f \in Images /\ CellsWellPlaced(f)
    BY DEF ProgramStep, ProgramBase
  <2>1. PICK T \in SUBSET Span(j.pos, n) : g = Smash(f, T, Junk)
    BY <1>2
  <2>2. ASSUME NEW a \in ValidAddrs(f)
        PROVE  Span(a, f[a].len) \cap Span(j.pos, n) = {}
    <3>1. /\ a \in Addrs /\ a \in Nat /\ f[a].len \in Nat /\ a + f[a].len <= SectorEnd(a)
          /\ SectorEnd(a) \in Nat /\ SectorEnd(a) - SectorSize <= a
      BY <2>0, <2>2, ValidFacts, ImageFacts, FrameInSector, SectorEndType
    <3>2. ASSUME NEW x \in Span(a, f[a].len), x \in Span(j.pos, n)
          PROVE  FALSE
      <4>1. x \in Nat /\ a <= x /\ x < a + f[a].len /\ j.pos <= x /\ x \in Addrs
        BY <2>0, <2>2, <3>1, <3>2, ValidFacts DEF Span, ProgramStep, ProgramBase
      <4>2. SectorEnd(x) = SectorEnd(a) /\ SectorEnd(x) = SectorEnd(j.start)
        <5>1. SectorEnd(x) = SectorEnd(a)
          BY <3>1, <4>1, SameSector, ConfigAssumption
        <5>2. SectorEnd(x) = SectorEnd(j.start)
          <6>1. ProgramBase(f, j, n)
            BY DEF ProgramStep
          <6> QED BY <3>2, <4>1, <6>1, ProgramSector, Zenon
        <5> QED BY <5>1, <5>2
      <4>3. a + f[a].len <= j.start
        BY <2>2, <4>2 DEF ProgramStep, ProgramBase, ClearFrom
      <4>4. j.start \in Nat /\ j.pos \in Nat /\ j.start <= j.pos
        BY <4>1, ProgramCell DEF ProgramStep, ProgramBase
      <4> QED BY <3>1, <4>1, <4>3, <4>4
    <3> QED BY <3>2
  <2>3. ASSUME NEW a \in ValidAddrs(f)
        PROVE  ValidFrameAt(g, a) /\ g[a] = f[a]
    BY <2>0, <2>1, <2>2, <2>3, SmashFacts
  <2>4. g \in Images /\ CellsWellPlaced(g) /\ Fewer(f, g)
    BY <2>0, <2>1, SmashFacts
  <2> QED BY <2>3, <2>4, FewerInv
<1> QED BY <1>1, <1>2 DEF TornPrograms

\* Taking a sector out of the index leaves an index.
LEMMA InvalidateType ==
    ASSUME NEW f \in Images, NEW i \in Indexes, NEW s \in Addrs
    PROVE  Invalidate(f, i, s) \in Indexes
<1> DEFINE removed == Cardinality(ValidAddrs(f) \cap Span(s, SectorSize))
           first   == FirstFrom(f, WrapAddress(s + SectorSize))
<1>1. removed \in Nat
  <2>1. ValidAddrs(f) \cap Span(s, SectorSize) \subseteq ValidAddrs(f)
    OBVIOUS
  <2> QED BY <2>1, ValidFinite, FS_Subset, FS_CardinalityType
<1>2. StartAddr \in Addrs /\ 0 \in Seqs
  BY ConfigAssumption, SeqFacts DEF Addrs
<1>3. EmptyIndex(s) \in Indexes
  BY <1>2 DEF EmptyIndex, Indexes
<1>4. ASSUME ValidAddrs(f) # {}
      PROVE  first \in Addrs
  <2> DEFINE w == WrapAddress(s + SectorSize)
             D == {RingDist(w, x) : x \in ValidAddrs(f)}
  <2>1. w \in Nat /\ StartAddr <= w /\ w <= EndAddr
    BY ImageFacts, ConfigAssumption DEF WrapAddress
  <2> HIDE DEF w
  <2>2. \A x \in ValidAddrs(f) : x \in Addrs /\ RingDist(w, x) \in Nat
    <3>1. \A x \in ValidAddrs(f) : x \in Addrs /\ x \in Nat /\ StartAddr <= x /\ x < EndAddr
      BY ValidFacts, ImageFacts
    <3> QED BY <2>1, <3>1, ConfigAssumption DEF RingDist, AreaSize
  <2>3. PICK d \in D : \A e \in D : d <= e
    <3>1. D \subseteq Nat /\ D # {}
      BY <1>4, <2>2
    <3> HIDE DEF D
    <3> QED BY <3>1, LeastNat
  <2>4. \E x \in ValidAddrs(f) : \A y \in ValidAddrs(f) : RingDist(w, x) <= RingDist(w, y)
    BY <2>3
  <2>5. FirstFrom(f, w) \in ValidAddrs(f)
    BY <2>4, Zenon DEF FirstFrom
  <2> QED BY <2>2, <2>5 DEF w
<1> HIDE DEF removed, first
<1>5. \A c \in Int : [i EXCEPT !.count = c] \in Indexes
  BY DEF Indexes
<1>6. \A c \in Int : \A o \in Addrs : [[i EXCEPT !.count = c] EXCEPT !.oldest = o] \in Indexes
  BY DEF Indexes
<1>7. [EmptyIndex(s) EXCEPT !.write = i.write] \in Indexes
  BY <1>3 DEF Indexes
<1>8. i.count - removed \in Int
  BY <1>1 DEF Indexes
<1> QED BY <1>3, <1>4, <1>5, <1>6, <1>7, <1>8 DEF Invalidate, removed, first

\* A frame starts at the write position or at the start of a sector, and fits there.
LEMMA FrameStartFits ==
    ASSUME NEW w \in Addrs, NEW len \in FrameSizes
    PROVE  LET start == FrameStart(w, len) IN
           /\ start \in Addrs /\ start \in Nat /\ start + len <= SectorEnd(start)
           /\ IsSectorStart(start) \/ start = w
<1> DEFINE start == FrameStart(w, len)
<1>0. len \in Nat /\ len <= SectorSize /\ w \in Nat
  <2>1. len \in 1 .. SectorSize
    BY FrameAssumption
  <2> QED BY <2>1, ConfigAssumption DEF Addrs
<1>1. CASE w + len > SectorEnd(w)
  <2>1. start = WrapAddress(SectorEnd(w))
    BY <1>1 DEF FrameStart
  <2>2. start \in Addrs /\ IsSectorStart(start)
    BY <2>1, NextSectorType
  <2>3. SectorEnd(start) = start + SectorSize
    BY <2>2, SectorStartEnd
  <2>4. start \in Nat
    BY <2>2, ConfigAssumption DEF Addrs
  <2> QED BY <1>0, <2>2, <2>3, <2>4, ConfigAssumption
<1>2. CASE ~ (w + len > SectorEnd(w))
  <2>1. start = w
    BY <1>2 DEF FrameStart
  <2> QED BY <1>0, <1>2, <2>1, SectorEndType
<1> QED BY <1>1, <1>2

-----------------------------------------------------------------------------
(* What holds in whatever order the frames are handed over.                *)

\* Jobs of the state machine.
Jobs == [seq : Seqs, len : FrameSizes \cup {0}, start : Addrs, pos : Nat]

LEMMA NoJobType == NoJob \in Jobs /\ StartAddr \in Addrs /\ IsSectorStart(StartAddr) /\ 0 \in Seqs
  BY ConfigAssumption, SeqFacts DEF NoJob, Jobs, Addrs, IsSectorStart

LEMMA EmptyIndexType ==
    ASSUME NEW s \in Addrs
    PROVE  EmptyIndex(s) \in Indexes /\ EmptyIndex(s).write = s
  BY NoJobType DEF EmptyIndex, Indexes

\* The numbers stored and that of the frame being appended, the cells it has
\* programmed, and the sectors that eraseLogArea has erased.
NumbersInv ==
    InOneHalf(SeqsIn(flash) \cup (IF pc \in {"erase", "program"} THEN {job.seq} ELSE {}))
StartedInv == pc = "program" => Started(flash, job, job.pos)
WipedInv == pc = "wipe" => busy /\ \A a \in ValidAddrs(flash) : job.pos <= a

TInv == TypeOK /\ CellsWellPlaced(flash) /\ NumbersInv /\ StartedInv /\ WipedInv

LEMMA HalfOfLess ==
    ASSUME NEW S, NEW T, S \subseteq T, InOneHalf(T)
    PROVE  InOneHalf(S)
  BY DEF InOneHalf

LEMMA WindowIsHalf == ASSUME NEW f PROVE OneWindow(f) <=> InOneHalf(SeqsIn(f))
  BY DEF OneWindow, InOneHalf, SeqsIn

LEMMA TInvWindow == ASSUME TInv PROVE OneWindow(flash)
  BY HalfOfLess, WindowIsHalf DEF TInv, NumbersInv

LEMMA FewerSeqs ==
    ASSUME NEW f, NEW g, Fewer(f, g)
    PROVE  SeqsIn(g) \subseteq SeqsIn(f)
  BY FewerFacts DEF SeqsIn

\* An interrupted program command makes no frame but the one being appended.
LEMMA TornProgramBase ==
    ASSUME NEW f, NEW j, NEW n, ProgramBase(f, j, n),
           NEW g \in TornPrograms(f, j, j.start, j.pos, n)
    PROVE  /\ g \in Images /\ CellsWellPlaced(g)
           /\ SeqsIn(g) \subseteq SeqsIn(f) \cup {j.seq}
<1>1. CASE g = ProgramCells(f, j, j.start, j.pos, n)
  <2>1. /\ g \in Images /\ CellsWellPlaced(g)
        /\ \A a \in Addrs : a # j.start /\ ValidFrameAt(g, a) => ValidFrameAt(f, a) /\ g[a] = f[a]
        /\ ValidFrameAt(g, j.start) => g[j.start].seq = j.seq
    BY <1>1, ProgramBaseFacts
  <2>2. \A a \in ValidAddrs(g) : g[a].seq \in SeqsIn(f) \cup {j.seq}
    BY <2>1 DEF ValidAddrs, SeqsIn
  <2> QED BY <2>1, <2>2 DEF SeqsIn
<1>2. CASE \E T \in SUBSET Span(j.pos, n) : g = Smash(f, T, Junk)
  BY <1>2, SmashFacts, FewerSeqs DEF ProgramBase
<1> QED BY <1>1, <1>2 DEF TornPrograms

\* The job that is programming is as ProgramBase has it.
LEMMA ChunkBase ==
    ASSUME TInv, pc = "program"
    PROVE  /\ ProgramBase(flash, job, Chunk)
           /\ InOneHalf(SeqsIn(flash) \cup {job.seq})
<1>1. /\ job.seq \in Seqs /\ job.start \in Addrs /\ job.pos \in Nat /\ job.len \in FrameSizes
      /\ flash \in Images /\ job.start <= job.pos /\ job.pos < job.start + job.len
      /\ job.start + job.len <= SectorEnd(job.start)
  BY DEF TInv, TypeOK
<1>2. job.start \in Nat /\ job.len \in Nat
  <2>1. FrameSizes \subseteq Nat
    BY FrameAssumption, ConfigAssumption
  <2> QED BY <1>1, <2>1, ImageFacts
<1>3. PageRemain(job.pos) \in Nat \ {0}
  <2>1. job.pos % PageSize \in 0 .. PageSize - 1
    BY <1>1, DivMod, ConfigAssumption
  <2> QED BY <2>1, ConfigAssumption DEF PageRemain
<1>4. Chunk \in Nat \ {0} /\ job.pos + Chunk <= job.start + job.len
  BY <1>1, <1>2, <1>3 DEF Chunk
<1> QED
  BY <1>1, <1>4 DEF ProgramBase, TInv, NumbersInv, StartedInv

\* What every step that ends in a rebuilt index has to show.
LEMMA RebuildTyped ==
    ASSUME CellsWellPlaced(flash'), OneWindow(flash'), flash' \in Images,
           idx' = Rebuild(flash'), pc' = "idle", job' = NoJob, busy' \in BOOLEAN,
           next_seq' \in Seqs, late' \subseteq Seqs, restart' \in BOOLEAN,
           disordered' \in BOOLEAN, faults' \in 0 .. MaxFaults
    PROVE  TInv'
<1>1. idx' \in Indexes
  BY RebuildType
<1>2. TypeOK'
  BY <1>1, NoJobType DEF TypeOK, Jobs
<1>3. NumbersInv'
  BY WindowIsHalf, HalfOfLess DEF NumbersInv
<1> QED BY <1>2, <1>3 DEF TInv, StartedInv, WipedInv

LEMMA MoreFaults ==
    ASSUME TInv, faults < MaxFaults
    PROVE  faults + 1 \in 0 .. MaxFaults
  BY BoundAssumption DEF TInv, TypeOK

LEMMA InitTyped == Init => TInv
<1> SUFFICES ASSUME Init PROVE TInv
  OBVIOUS
<1>1. PICK v \in {Erased, Junk} : flash = [a \in Addrs |-> v]
  BY DEF Init
<1>2. flash \in Images /\ \A x \in Addrs : flash[x] \notin Cells
  BY <1>1, CellAssumption DEF Images
<1>3. ValidAddrs(flash) = {}
  BY <1>2 DEF ValidAddrs, ValidFrameAt
<1>4. CellsWellPlaced(flash) /\ NumbersInv
  BY <1>2, <1>3, NoJobType DEF CellsWellPlaced, Init, NumbersInv, InOneHalf, SeqsIn
<1>5. TypeOK
  <2>1. idx \in Indexes /\ job \in Jobs /\ faults \in 0 .. MaxFaults /\ next_seq \in Seqs
    BY NoJobType, EmptyIndexType, BoundAssumption DEF Init
  <2>2. busy \in BOOLEAN /\ restart \in BOOLEAN /\ disordered \in BOOLEAN /\ late \subseteq Seqs
    BY DEF Init
  <2> QED BY <1>2, <2>1, <2>2 DEF Init, TypeOK, Jobs
<1> QED BY <1>4, <1>5 DEF TInv, StartedInv, WipedInv, Init

LEMMA BootTyped == ASSUME TInv, Boot PROVE TInv'
<1>1. flash' = flash /\ flash \in Images /\ CellsWellPlaced(flash) /\ faults' \in 0 .. MaxFaults
  BY DEF Boot, TInv, TypeOK
<1>2. late' \subseteq Seqs /\ restart' \in BOOLEAN /\ disordered' \in BOOLEAN
  BY DEF Boot, TInv, TypeOK
<1>3. CellsWellPlaced(flash') /\ OneWindow(flash') /\ flash' \in Images
  BY <1>1, TInvWindow
<1>4. idx' = Rebuild(flash')
  BY <1>1 DEF Boot
<1>5. idx'.newest_seq \in Seqs
  BY <1>3, <1>4, RebuildType DEF Indexes
<1>6. next_seq' \in Seqs
  BY <1>5, SeqFacts DEF Boot
<1>7. pc' = "idle" /\ job' = NoJob /\ busy' \in BOOLEAN
  BY DEF Boot
<1> QED BY <1>1, <1>2, <1>3, <1>4, <1>6, <1>7, RebuildTyped

LEMMA AppendFailsTyped == ASSUME TInv, AppendFails PROVE TInv'
<1>0. flash \in Images /\ CellsWellPlaced(flash) /\ OneWindow(flash)
  BY TInvWindow DEF TInv, TypeOK
<1>1. CellsWellPlaced(flash') /\ OneWindow(flash') /\ flash' \in Images
  <2>1. CASE pc = "erase" /\ flash' \in TornErases(flash, job.start)
    <3>1. job.start \in Addrs /\ IsSectorStart(job.start)
      BY <2>1 DEF TInv, TypeOK
    <3> QED BY <1>0, <2>1, <3>1, TornEraseBase, FewerFacts
  <2>2. CASE pc = "program" /\ flash' \in TornPrograms(flash, job, job.start, job.pos, Chunk)
    <3>1. ProgramBase(flash, job, Chunk) /\ InOneHalf(SeqsIn(flash) \cup {job.seq})
      BY <2>2, ChunkBase
    <3>2. /\ flash' \in Images /\ CellsWellPlaced(flash')
          /\ SeqsIn(flash') \subseteq SeqsIn(flash) \cup {job.seq}
      BY <2>2, <3>1, TornProgramBase
    <3> QED BY <3>1, <3>2, HalfOfLess, WindowIsHalf
  <2> QED BY <2>1, <2>2 DEF AppendFails
<1>2. faults' \in 0 .. MaxFaults
  BY MoreFaults DEF AppendFails
<1>3. /\ busy' \in BOOLEAN /\ next_seq' \in Seqs /\ late' \subseteq Seqs
      /\ restart' \in BOOLEAN /\ disordered' \in BOOLEAN
  BY DEF AppendFails, TInv, TypeOK, feed
<1> QED BY <1>1, <1>2, <1>3, RebuildTyped DEF AppendFails

\* Whatever number is handed over is a sequence number.
LEMMA NumberType ==
    ASSUME TypeOK, NEW n \in Nat
    PROVE  SeqAfter(next_seq, n) \in Seqs /\ SeqAfter(SeqAfter(next_seq, n), 1) \in Seqs
  BY SeqFacts DEF TypeOK

LEMMA AppendStartTyped ==
    ASSUME TInv, NEW len \in FrameSizes, NEW seq \in Seqs, AppendStart(len, seq),
           next_seq' \in Seqs, late' \subseteq Seqs
    PROVE  TInv'
<1> DEFINE start == FrameStart(idx.write, len)
<1>0. /\ pc = "idle" /\ InOneHalf(SeqsIn(flash) \cup {seq}) /\ flash' = flash /\ busy' = busy
      /\ faults' = faults /\ restart' = restart
      /\ job' = [seq |-> seq, len |-> len, start |-> start, pos |-> start]
      /\ IF IsSectorStart(start)
         THEN pc' = "erase" /\ idx' = Invalidate(flash, idx, start)
         ELSE pc' = "program" /\ idx' = idx
  BY DEF AppendStart
<1>1. disordered' \in BOOLEAN
  BY DEF AppendStart, TInv, TypeOK, InSeqWindow
<1>2. idx \in Indexes /\ idx.write \in Addrs /\ idx.write \in Nat /\ flash \in Images
  <2>1. idx \in Indexes /\ idx.write \in Addrs /\ flash \in Images
    BY DEF TInv, TypeOK, Indexes
  <2> QED BY <2>1, ImageFacts
<1>3. len \in Nat /\ len <= SectorSize /\ len \in 1 .. SectorSize
  <2>1. len \in 1 .. SectorSize
    BY FrameAssumption
  <2> QED BY <2>1, ConfigAssumption
<1>4. start \in Addrs /\ start \in Nat /\ start + len <= SectorEnd(start)
  BY <1>2, <1>3, FrameStartFits
<1> HIDE DEF start
<1>5. job' \in Jobs /\ job'.seq = seq /\ job'.len = len /\ job'.start = start /\ job'.pos = start
  BY <1>0, <1>4 DEF Jobs
<1>6. idx' \in Indexes
  BY <1>0, <1>2, <1>4, InvalidateType
<1>7. TypeOK'
  <2>1. flash' \in Images /\ faults' \in 0 .. MaxFaults /\ restart' \in BOOLEAN
    BY <1>0 DEF TInv, TypeOK
  <2>2. busy' \in BOOLEAN
    BY <1>0 DEF TInv, TypeOK
  <2>3. /\ job'.len \in FrameSizes /\ job'.pos \in job'.start .. job'.start + job'.len
        /\ job'.start + job'.len <= SectorEnd(job'.start)
        /\ job'.pos < job'.start + job'.len /\ job'.pos = job'.start
    BY <1>3, <1>4, <1>5
  <2>4. pc' \in {"erase", "program"} /\ (pc' = "erase" => IsSectorStart(job'.start))
    BY <1>0, <1>5
  <2> QED BY <1>1, <1>5, <1>6, <2>1, <2>2, <2>3, <2>4 DEF TypeOK, Jobs
<1>8. CellsWellPlaced(flash')
  BY <1>0 DEF TInv
<1>9. NumbersInv'
  <2>1. pc' \in {"erase", "program"} /\ SeqsIn(flash') = SeqsIn(flash)
    BY <1>0
  <2> QED BY <1>0, <1>5, <2>1 DEF NumbersInv
<1>10. StartedInv' /\ WipedInv'
  <2>1. pc' # "wipe"
    BY <1>0
  <2> QED BY <1>4, <1>5, <2>1 DEF StartedInv, WipedInv, Started
<1> QED BY <1>7, <1>8, <1>9, <1>10 DEF TInv

\* The two ways in which the logger hands over a frame.
LEMMA AppendIsStart ==
    ASSUME TypeOK, AppendFrame
    PROVE  \E len \in FrameSizes, seq \in Seqs :
              AppendStart(len, seq) /\ next_seq' \in Seqs /\ late' \subseteq Seqs
<1>1. PICK len \in FrameSizes :
        \/ \E gap \in 0 .. MaxGap : AppendFresh(len, gap)
        \/ \E seq \in late : AppendLate(len, seq)
  BY DEF AppendFrame
<1>2. ASSUME NEW gap \in 0 .. MaxGap, AppendFresh(len, gap)
      PROVE  \E seq \in Seqs :
                AppendStart(len, seq) /\ next_seq' \in Seqs /\ late' \subseteq Seqs
  <2> DEFINE seq == SeqAfter(next_seq, gap)
  <2>1. gap \in Nat /\ \A g \in 0 .. gap - 1 : g \in Nat
    BY BoundAssumption
  <2>2. seq \in Seqs /\ SeqAfter(seq, 1) \in Seqs
        /\ \A g \in 0 .. gap - 1 : SeqAfter(next_seq, g) \in Seqs
    BY <2>1, NumberType
  <2>3. AppendStart(len, seq) /\ next_seq' = SeqAfter(seq, 1)
    BY <1>2 DEF AppendFresh
  <2>4. PICK S \in SUBSET {SeqAfter(next_seq, g) : g \in 0 .. gap - 1} : late' = late \cup S
    BY <1>2 DEF AppendFresh
  <2>5. late \subseteq Seqs
    BY DEF TypeOK
  <2>6. late' \subseteq Seqs
    BY <2>2, <2>4, <2>5
  <2> HIDE DEF seq
  <2> QED BY <2>2, <2>3, <2>6
<1>3. ASSUME NEW seq \in late, AppendLate(len, seq)
      PROVE  seq \in Seqs /\ AppendStart(len, seq) /\ next_seq' \in Seqs /\ late' \subseteq Seqs
  BY <1>3 DEF AppendLate, TypeOK
<1> QED BY <1>1, <1>2, <1>3

LEMMA EraseSectorTyped == ASSUME TInv, EraseSector PROVE TInv'
<1>0. /\ pc = "erase" /\ pc' = "program" /\ flash' = EraseCells(flash, job.start)
      /\ idx' = idx /\ job' = job /\ busy' = busy /\ faults' = faults
      /\ next_seq' = next_seq /\ late' = late /\ restart' = restart /\ disordered' = disordered
  BY DEF EraseSector, feed
<1>1. /\ flash \in Images /\ CellsWellPlaced(flash) /\ job \in Jobs /\ job.start \in Addrs
      /\ IsSectorStart(job.start) /\ job.pos = job.start /\ job.len \in FrameSizes
  BY <1>0 DEF TInv, TypeOK, Jobs
<1>2. flash' \in Images /\ CellsWellPlaced(flash') /\ Fewer(flash, flash')
  BY <1>0, <1>1, EraseFacts
<1>3. job.len \in Nat \ {0} /\ job.start \in Nat
  <2>1. FrameSizes \subseteq Nat \ {0}
    BY FrameAssumption, ConfigAssumption
  <2> QED BY <1>1, <2>1, ImageFacts
<1>4. TypeOK'
  <2>1. busy' \in BOOLEAN
    BY <1>0 DEF TInv, TypeOK
  <2> QED BY <1>0, <1>1, <1>2, <1>3, <2>1 DEF TInv, TypeOK
<1>5. NumbersInv'
  BY <1>0, <1>2, FewerSeqs, HalfOfLess DEF TInv, NumbersInv
<1>6. StartedInv' /\ WipedInv'
  BY <1>0, <1>1, <1>3 DEF StartedInv, WipedInv, Started
<1> QED BY <1>2, <1>4, <1>5, <1>6 DEF TInv

LEMMA ProgramChunkTyped == ASSUME TInv, ProgramChunk PROVE TInv'
<1>0. /\ pc = "program" /\ flash' = ProgramCells(flash, job, job.start, job.pos, Chunk)
      /\ job' = [job EXCEPT !.pos = job.pos + Chunk]
      /\ pc' = IF job'.pos = job.start + job.len THEN "commit" ELSE "program"
      /\ idx' = idx /\ busy' = busy /\ faults' = faults
      /\ next_seq' = next_seq /\ late' = late /\ restart' = restart /\ disordered' = disordered
  BY DEF ProgramChunk, feed
<1>1. ProgramBase(flash, job, Chunk) /\ InOneHalf(SeqsIn(flash) \cup {job.seq})
  BY <1>0, ChunkBase
<1>2. /\ job \in Jobs /\ job.len \in FrameSizes /\ job.len \in Nat /\ job.start \in Addrs
      /\ job.start \in Nat /\ job.pos \in Nat /\ Chunk \in Nat \ {0}
      /\ job.start <= job.pos /\ job.pos + Chunk <= job.start + job.len
      /\ job.start + job.len <= SectorEnd(job.start)
  <2>1. FrameSizes \subseteq Nat
    BY FrameAssumption, ConfigAssumption
  <2>2. job \in Jobs
    BY DEF TInv, TypeOK, Jobs
  <2> QED BY <1>1, <2>1, <2>2, ImageFacts DEF ProgramBase
<1>3. /\ job' \in Jobs /\ job'.seq = job.seq /\ job'.len = job.len /\ job'.start = job.start
      /\ job'.pos = job.pos + Chunk
  BY <1>0, <1>2 DEF Jobs
<1>4. /\ flash' \in Images /\ CellsWellPlaced(flash') /\ Started(flash', job, job.pos + Chunk)
  BY <1>0, <1>1, ProgramBaseFacts
<1>5. SeqsIn(flash') \subseteq SeqsIn(flash) \cup {job.seq}
  <2>1. flash' \in TornPrograms(flash, job, job.start, job.pos, Chunk)
    BY <1>0 DEF TornPrograms
  <2> QED BY <1>1, <2>1, TornProgramBase
<1>6. TypeOK'
  <2>1. busy' \in BOOLEAN
    BY <1>0 DEF TInv, TypeOK
  <2>2. /\ idx' \in Indexes /\ faults' \in 0 .. MaxFaults
        /\ next_seq' \in Seqs /\ late' \subseteq Seqs
    BY <1>0 DEF TInv, TypeOK
  <2>3. job'.pos \in job'.start .. job'.start + job'.len
    BY <1>2, <1>3
  <2>4. pc' = "program" => job'.pos < job'.start + job'.len
    BY <1>0, <1>2, <1>3
  <2>5. pc' = "commit" => job'.pos = job'.start + job'.len
    BY <1>0, <1>3
  <2>6. pc' \in {"program", "commit"}
    BY <1>0
  <2>7. restart' \in BOOLEAN /\ disordered' \in BOOLEAN
    BY <1>0 DEF TInv, TypeOK
  <2> QED
    BY <1>2, <1>3, <1>4, <2>1, <2>2, <2>3, <2>4, <2>5, <2>6, <2>7 DEF TypeOK, Jobs
<1>7. NumbersInv'
  <2>1. SeqsIn(flash') \cup {job'.seq} \subseteq SeqsIn(flash) \cup {job.seq}
    BY <1>3, <1>5
  <2> QED BY <1>1, <1>5, <2>1, HalfOfLess DEF NumbersInv
<1>8. StartedInv' /\ WipedInv'
  BY <1>0, <1>3, <1>4 DEF StartedInv, WipedInv, Started
<1> QED BY <1>4, <1>6, <1>7, <1>8 DEF TInv

LEMMA CommitTyped == ASSUME TInv, Commit PROVE TInv'
<1>0. /\ pc = "commit" /\ pc' = "idle" /\ job' = NoJob /\ flash' = flash /\ busy' = busy
      /\ faults' = faults
      /\ next_seq' = next_seq /\ late' = late /\ restart' = restart /\ disordered' = disordered
  BY DEF Commit, feed
<1>1. /\ flash \in Images /\ idx \in Indexes /\ job.start \in Addrs /\ job.len \in FrameSizes
      /\ job.pos = job.start + job.len /\ job.start + job.len <= SectorEnd(job.start)
      /\ CellsWellPlaced(flash) /\ OneWindow(flash)
      /\ next_seq \in Seqs /\ late \subseteq Seqs /\ faults \in 0 .. MaxFaults
  BY <1>0, TInvWindow DEF TInv, TypeOK
<1>2. busy \in BOOLEAN /\ restart \in BOOLEAN /\ disordered \in BOOLEAN
  BY DEF TInv, TypeOK
<1>3. CASE ~ ValidFrameAt(flash, job.start)
  <2>1. idx' = Rebuild(flash')
    BY <1>0, <1>3 DEF Commit
  <2> QED BY <1>0, <1>1, <1>2, <2>1, RebuildTyped
<1>4. CASE ValidFrameAt(flash, job.start)
  <2> DEFINE w == WrapAddress(job.pos)
  <2>1. idx' = IndexAfterAppend(idx, job.start, flash[job.start].seq, w)
    BY <1>4 DEF Commit
  <2>2. flash[job.start].seq \in Seqs
    <3>1. job.start \in ValidAddrs(flash)
      BY <1>1, <1>4 DEF ValidAddrs
    <3> QED BY <1>1, <3>1, ValidFacts
  <2>3. w \in Addrs
    <3>1. SectorEnd(job.start) \in Nat /\ SectorEnd(job.start) <= EndAddr
          /\ job.start \in Nat /\ StartAddr <= job.start
      BY <1>1, SectorEndType, ImageFacts
    <3>2. job.len \in Nat
      <4>1. FrameSizes \subseteq Nat
        BY FrameAssumption, ConfigAssumption
      <4> QED BY <1>1, <4>1
    <3>3. job.pos \in Nat /\ StartAddr <= job.pos /\ job.pos <= EndAddr
      BY <1>1, <3>1, <3>2, ConfigAssumption
    <3> QED BY <3>3, WrapType
  <2> HIDE DEF w
  <2>4. idx' \in Indexes
    BY <1>1, <2>1, <2>2, <2>3 DEF IndexAfterAppend, Indexes
  <2>5. TypeOK'
    BY <1>0, <1>1, <1>2, <2>4, NoJobType DEF TypeOK, Jobs
  <2>6. NumbersInv'
    BY <1>0, <1>1, WindowIsHalf, HalfOfLess DEF NumbersInv
  <2> QED BY <1>0, <1>1, <2>5, <2>6 DEF TInv, StartedInv, WipedInv
<1> QED BY <1>3, <1>4

LEMMA EraseAllStartTyped == ASSUME TInv, EraseAllStart PROVE TInv'
<1>0. /\ pc = "idle" /\ pc' = "wipe" /\ flash' = flash /\ idx' = idx /\ job' = job
      /\ busy' = TRUE /\ faults' = faults
      /\ next_seq' = next_seq /\ late' = late /\ restart' = restart /\ disordered' = disordered
  BY DEF EraseAllStart, feed
<1>1. job' = NoJob /\ job'.pos = StartAddr /\ job'.pos \in Addrs /\ IsSectorStart(job'.pos)
  BY <1>0, NoJobType DEF TInv, TypeOK, NoJob
<1>2. TypeOK'
  BY <1>0, <1>1, NoJobType DEF TInv, TypeOK, Jobs
<1>3. CellsWellPlaced(flash') /\ NumbersInv' /\ StartedInv'
  BY <1>0 DEF TInv, NumbersInv, StartedInv
<1>4. WipedInv'
  BY <1>0, <1>1, ConfigAssumption DEF WipedInv, ValidAddrs, Addrs
<1> QED BY <1>2, <1>3, <1>4 DEF TInv

\* The sectors erased so far hold no frame; after the last one none is left.
LEMMA WipeLeaves ==
    ASSUME TInv, WipeSector
    PROVE  /\ flash' \in Images /\ CellsWellPlaced(flash') /\ Fewer(flash, flash')
           /\ \A a \in ValidAddrs(flash') : job.pos + SectorSize <= a
           /\ ~ (job.pos + SectorSize < EndAddr) => ValidAddrs(flash') = {}
<1>0. pc = "wipe" /\ flash' = EraseCells(flash, job.pos)
  BY DEF WipeSector
<1>1. /\ flash \in Images /\ job.pos \in Addrs /\ IsSectorStart(job.pos) /\ job.pos \in Nat
      /\ CellsWellPlaced(flash) /\ \A a \in ValidAddrs(flash) : job.pos <= a
  BY <1>0 DEF TInv, TypeOK, WipedInv
<1>2. /\ flash' \in Images /\ CellsWellPlaced(flash') /\ Fewer(flash, flash')
      /\ ClearFrom(flash', job.pos)
  BY <1>0, <1>1, EraseFacts
<1>3. ASSUME NEW a \in ValidAddrs(flash')
      PROVE  job.pos + SectorSize <= a
  <2>1. /\ a \in Addrs /\ a \in Nat /\ job.pos <= a
        /\ flash'[a].len \in Nat \ {0} /\ SectorEnd(job.pos) = job.pos + SectorSize
    BY <1>1, <1>2, <1>3, FewerFacts, ValidFacts, ImageFacts, SectorStartEnd
  <2>2. SUFFICES ASSUME a < job.pos + SectorSize PROVE FALSE
    BY <1>1, <2>1, ConfigAssumption
  <2>3. SectorEnd(a) = SectorEnd(job.pos)
    BY <1>1, <2>1, <2>2, SameSector, ConfigAssumption
  <2>4. a + flash'[a].len <= job.pos
    BY <1>2, <1>3, <2>3 DEF ClearFrom
  <2> QED BY <1>1, <2>1, <2>4
<1>4. ASSUME ~ (job.pos + SectorSize < EndAddr), NEW a \in ValidAddrs(flash')
      PROVE  FALSE
  <2>1. job.pos + SectorSize <= a /\ a \in Nat /\ a < EndAddr
    BY <1>2, <1>3, <1>4, ValidFacts, ImageFacts
  <2> QED BY <1>1, <1>4, <2>1, ConfigAssumption
<1> QED BY <1>2, <1>3, <1>4

LEMMA WipeSectorTyped == ASSUME TInv, WipeSector PROVE TInv'
<1>0. pc = "wipe" /\ faults' = faults /\ next_seq' = next_seq /\ late' = late
  BY DEF WipeSector
<1>1. /\ idx \in Indexes /\ job \in Jobs /\ job.pos \in Addrs /\ IsSectorStart(job.pos)
      /\ next_seq \in Seqs /\ late \subseteq Seqs /\ faults \in 0 .. MaxFaults
      /\ OneWindow(flash) /\ busy
  BY <1>0, TInvWindow DEF TInv, TypeOK, Jobs, WipedInv
<1>2. busy \in BOOLEAN /\ restart \in BOOLEAN /\ disordered \in BOOLEAN
  BY DEF TInv, TypeOK
<1>3. /\ flash' \in Images /\ CellsWellPlaced(flash') /\ OneWindow(flash')
      /\ \A a \in ValidAddrs(flash') : job.pos + SectorSize <= a
  BY <1>1, WipeLeaves, FewerFacts
<1>4. CASE job.pos + SectorSize < EndAddr
  <2>1. /\ job' = [job EXCEPT !.pos = job.pos + SectorSize] /\ idx' = idx /\ pc' = pc
        /\ busy' = busy /\ restart' = restart /\ disordered' = disordered
    BY <1>4 DEF WipeSector
  <2>2. /\ job.pos + SectorSize \in Addrs /\ job.pos + SectorSize \in Nat
        /\ IsSectorStart(job.pos + SectorSize)
    <3>1. SectorEnd(job.pos) = job.pos + SectorSize /\ job.pos \in Nat /\ StartAddr <= job.pos
      BY <1>1, SectorStartEnd, ImageFacts, <1>3
    <3> QED BY <1>1, <1>4, <3>1, SectorEndType, ConfigAssumption DEF Addrs
  <2>3. job' \in Jobs /\ job'.pos = job.pos + SectorSize
    BY <1>1, <2>1, <2>2 DEF Jobs
  <2>4. TypeOK'
    BY <1>0, <1>1, <1>2, <1>3, <2>1, <2>2, <2>3 DEF TypeOK, Jobs
  <2>5. NumbersInv' /\ StartedInv' /\ WipedInv'
    BY <1>0, <1>1, <1>3, <2>1, <2>3, WindowIsHalf, HalfOfLess
       DEF NumbersInv, StartedInv, WipedInv
  <2> QED BY <1>3, <2>4, <2>5 DEF TInv
<1>5. CASE ~ (job.pos + SectorSize < EndAddr)
  <2>1. /\ idx' = EmptyIndex(StartAddr) /\ job' = NoJob
        /\ pc' = "idle" /\ busy' = FALSE /\ restart' = TRUE /\ disordered' = FALSE
    BY <1>5 DEF WipeSector
  <2>2. idx' \in Indexes /\ job' \in Jobs
    BY <2>1, NoJobType, EmptyIndexType
  <2>3. TypeOK'
    BY <1>0, <1>1, <1>3, <2>1, <2>2 DEF TypeOK, Jobs
  <2>4. NumbersInv' /\ StartedInv' /\ WipedInv'
    BY <1>3, <2>1, WindowIsHalf, HalfOfLess DEF NumbersInv, StartedInv, WipedInv
  <2> QED BY <1>3, <2>3, <2>4 DEF TInv
<1> QED BY <1>4, <1>5

LEMMA WipeFailsTyped == ASSUME TInv, WipeFails PROVE TInv'
<1>0. /\ pc = "wipe" /\ pc' = "idle" /\ flash' \in TornErases(flash, job.pos) /\ job' = NoJob
      /\ idx' = idx /\ busy' = busy
      /\ next_seq' = next_seq /\ late' = late /\ restart' = restart /\ disordered' = disordered
  BY DEF WipeFails, feed
<1>1. /\ flash \in Images /\ idx \in Indexes /\ job.pos \in Addrs /\ IsSectorStart(job.pos)
      /\ CellsWellPlaced(flash) /\ OneWindow(flash) /\ next_seq \in Seqs /\ late \subseteq Seqs
  BY <1>0, TInvWindow DEF TInv, TypeOK
<1>2. busy' \in BOOLEAN /\ restart' \in BOOLEAN /\ disordered' \in BOOLEAN
  BY <1>0 DEF TInv, TypeOK
<1>3. flash' \in Images /\ CellsWellPlaced(flash') /\ OneWindow(flash')
  BY <1>0, <1>1, TornEraseBase, FewerFacts
<1>4. faults' \in 0 .. MaxFaults
  BY MoreFaults DEF WipeFails
<1>5. TypeOK'
  BY <1>0, <1>1, <1>2, <1>3, <1>4, NoJobType DEF TypeOK, Jobs
<1>6. NumbersInv' /\ StartedInv' /\ WipedInv'
  BY <1>0, <1>3, WindowIsHalf, HalfOfLess DEF NumbersInv, StartedInv, WipedInv
<1> QED BY <1>3, <1>5, <1>6 DEF TInv

LEMMA SetNextSeqTyped == ASSUME TInv, SetNextSeq PROVE TInv'
<1>0. /\ next_seq' = 0 /\ restart' = FALSE /\ disordered' = disordered /\ faults' = faults
      /\ flash' = flash /\ idx' = idx /\ pc' = pc /\ job' = job /\ busy' = busy
  BY DEF SetNextSeq
<1>1. PICK S \in SUBSET {SeqAfter(next_seq, g) : g \in 0 .. MaxGap - 1} : late' = late \cup S
  BY DEF SetNextSeq
<1>2. \A g \in 0 .. MaxGap - 1 : SeqAfter(next_seq, g) \in Seqs
  BY BoundAssumption, SeqFacts DEF TInv, TypeOK
<1>3. late \subseteq Seqs
  BY DEF TInv, TypeOK
<1>4. late' \subseteq Seqs
  BY <1>1, <1>2, <1>3
<1>5. TypeOK'
  BY <1>0, <1>4, SeqFacts DEF TInv, TypeOK
<1>6. NumbersInv' /\ StartedInv' /\ WipedInv' /\ CellsWellPlaced(flash')
  BY <1>0, Zenon DEF TInv, NumbersInv, StartedInv, WipedInv
<1> QED BY <1>5, <1>6 DEF TInv

LEMMA CrashTyped == ASSUME TInv, Crash PROVE TInv'
<1>0. /\ pc' = "off" /\ job' = NoJob /\ busy' = FALSE /\ idx' = EmptyIndex(StartAddr)
      /\ next_seq' = 0 /\ late' = {} /\ restart' = FALSE /\ disordered' = disordered /\ pc # "off"
  BY DEF Crash
<1>1. flash \in Images /\ CellsWellPlaced(flash) /\ OneWindow(flash)
  BY TInvWindow DEF TInv, TypeOK
<1>2. flash' \in Images /\ CellsWellPlaced(flash') /\ OneWindow(flash')
  <2>1. CASE pc = "erase"
    <3>1. flash' \in TornErases(flash, job.start)
      BY <2>1 DEF Crash
    <3>2. job.start \in Addrs /\ IsSectorStart(job.start)
      BY <2>1 DEF TInv, TypeOK
    <3> QED BY <1>1, <3>1, <3>2, TornEraseBase, FewerFacts
  <2>2. CASE pc = "program"
    <3>1. flash' \in TornPrograms(flash, job, job.start, job.pos, Chunk)
      BY <2>2 DEF Crash
    <3>2. ProgramBase(flash, job, Chunk) /\ InOneHalf(SeqsIn(flash) \cup {job.seq})
      BY <2>2, ChunkBase
    <3>3. /\ flash' \in Images /\ CellsWellPlaced(flash')
          /\ SeqsIn(flash') \subseteq SeqsIn(flash) \cup {job.seq}
      BY <3>1, <3>2, TornProgramBase
    <3> QED BY <3>2, <3>3, HalfOfLess, WindowIsHalf
  <2>3. CASE pc = "wipe"
    <3>1. flash' \in TornErases(flash, job.pos)
      BY <2>3 DEF Crash
    <3>2. job.pos \in Addrs /\ IsSectorStart(job.pos)
      BY <2>3 DEF TInv, TypeOK
    <3> QED BY <1>1, <3>1, <3>2, TornEraseBase, FewerFacts
  <2>4. CASE pc \in {"idle", "commit"}
    <3>1. flash' = flash
      BY <2>4 DEF Crash
    <3> QED BY <1>1, <3>1
  <2>5. pc \in {"off", "idle", "erase", "program", "commit", "wipe"}
    BY DEF TInv, TypeOK
  <2> QED BY <1>0, <2>1, <2>2, <2>3, <2>4, <2>5
<1>3. faults' \in 0 .. MaxFaults
  BY MoreFaults DEF Crash
<1>4. disordered' \in BOOLEAN
  BY <1>0 DEF TInv, TypeOK
<1>5. TypeOK'
  BY <1>0, <1>2, <1>3, <1>4, NoJobType, EmptyIndexType DEF TypeOK, Jobs
<1>6. NumbersInv' /\ StartedInv' /\ WipedInv'
  BY <1>0, <1>2, WindowIsHalf, HalfOfLess DEF NumbersInv, StartedInv, WipedInv
<1> QED BY <1>2, <1>5, <1>6 DEF TInv

LEMMA TypedNext == TInv /\ [Next]_vars => TInv'
<1> SUFFICES ASSUME TInv, [Next]_vars PROVE TInv'
  OBVIOUS
<1>1. CASE Boot          BY <1>1, BootTyped
<1>2. CASE AppendFrame
  BY <1>2, AppendIsStart, AppendStartTyped DEF TInv
<1>3. CASE EraseSector   BY <1>3, EraseSectorTyped
<1>4. CASE ProgramChunk  BY <1>4, ProgramChunkTyped
<1>5. CASE Commit        BY <1>5, CommitTyped
<1>6. CASE AppendFails   BY <1>6, AppendFailsTyped
<1>7. CASE EraseAllStart BY <1>7, EraseAllStartTyped
<1>8. CASE WipeSector    BY <1>8, WipeSectorTyped
<1>9. CASE WipeFails     BY <1>9, WipeFailsTyped
<1>10. CASE SetNextSeq   BY <1>10, SetNextSeqTyped
<1>11. CASE Crash        BY <1>11, CrashTyped
<1>12. CASE UNCHANGED vars
  BY <1>12 DEF vars, feed, TInv, TypeOK, NumbersInv, StartedInv, WipedInv
<1> QED
  BY <1>1, <1>2, <1>3, <1>4, <1>5, <1>6, <1>7, <1>8, <1>9, <1>10, <1>11, <1>12 DEF Next

\* Every reachable state has the declared types, and the frame being appended
\* lies in one sector: the "append crosses log end unexpectedly" branch of
\* FlashLogStorage::append is dead for every size of log area and of frames, and
\* in whatever order the frames are handed over.
THEOREM TypeCorrect == Spec => []TypeOK
<1>1. TInv => TypeOK
  BY DEF TInv
<1> QED BY <1>1, InitTyped, TypedNext, PTL DEF Spec

LEMMA InitInv == Init => IInv
<1> SUFFICES ASSUME Init PROVE IInv
  OBVIOUS
<1>1. PICK v \in {Erased, Junk} : flash = [a \in Addrs |-> v]
  BY DEF Init
<1>2. flash \in Images /\ \A x \in Addrs : flash[x] \notin Cells
  BY <1>1, CellAssumption DEF Images
<1>3. ValidAddrs(flash) = {}
  BY <1>2 DEF ValidAddrs, ValidFrameAt
<1>4. FlashInv
  BY <1>2, <1>3, NoJobType DEF FlashInv, CellsWellPlaced, SectorSorted, OneWindow
<1>5. TypeOK
  BY InitTyped DEF TInv
<1> QED BY <1>4, <1>5 DEF IInv, AppendInv, WriteInv, Init

\* A job that is programming satisfies what ProgramFacts asks of it.
LEMMA ChunkFacts ==
    ASSUME IInv, pc = "program"
    PROVE  /\ ProgramStep(flash, job, Chunk)
           /\ SectorSorted(flash) /\ OneWindow(flash) /\ InSeqWindow(flash, job.seq)
<1>1. /\ job.seq \in Seqs /\ job.start \in Addrs /\ job.pos \in Nat /\ job.len \in FrameSizes
      /\ flash \in Images /\ job.start <= job.pos /\ job.pos < job.start + job.len
      /\ job.start + job.len <= SectorEnd(job.start)
  BY DEF IInv, TypeOK
<1>2. job.start \in Nat /\ job.len \in Nat
  <2>1. FrameSizes \subseteq Nat
    BY FrameAssumption, ConfigAssumption
  <2> QED BY <1>1, <2>1, ImageFacts
<1>3. PageRemain(job.pos) \in Nat \ {0}
  <2>1. job.pos % PageSize \in 0 .. PageSize - 1
    BY <1>1, DivMod, ConfigAssumption
  <2> QED BY <2>1, ConfigAssumption DEF PageRemain
<1>4. Chunk \in Nat \ {0} /\ job.pos + Chunk <= job.start + job.len
  BY <1>1, <1>2, <1>3 DEF Chunk
<1> QED
  BY <1>1, <1>4 DEF ProgramStep, ProgramBase, IInv, FlashInv, AppendInv

\* What every step that ends in a rebuilt index has to show.
LEMMA RebuildInv ==
    ASSUME TypeOK', CellsWellPlaced(flash'), SectorSorted(flash'), OneWindow(flash'),
           idx' = Rebuild(flash'), pc' = "idle"
    PROVE  IInv'
<1>1. flash' \in Images
  BY DEF TypeOK
<1>2. IsSectorStart(idx'.write) \/ ClearFrom(flash', idx'.write)
  BY <1>1, RebuildFacts
<1>3. FlashInv'
  BY DEF FlashInv
<1> QED BY <1>2, <1>3 DEF IInv, AppendInv, WriteInv

LEMMA BootInv == ASSUME IInv, TypeOK', Boot PROVE IInv'
<1>1. flash' = flash /\ FlashInv /\ pc' = "idle"
  BY DEF Boot, IInv
<1>2. idx' = Rebuild(flash')
  BY <1>1 DEF Boot
<1> QED BY <1>1, <1>2, RebuildInv DEF FlashInv

LEMMA AppendFailsInv == ASSUME IInv, TypeOK', AppendFails PROVE IInv'
<1>1. CellsWellPlaced(flash') /\ SectorSorted(flash') /\ OneWindow(flash')
  <2>1. CASE pc = "erase" /\ flash' \in TornErases(flash, job.start)
    <3>1. job.start \in Addrs /\ IsSectorStart(job.start) /\ flash \in Images
      BY <2>1 DEF IInv, TypeOK
    <3> QED BY <2>1, <3>1, TornEraseFacts DEF IInv, FlashInv
  <2>2. CASE pc = "program" /\ flash' \in TornPrograms(flash, job, job.start, job.pos, Chunk)
    BY <2>2, ChunkFacts, TornProgramFacts
  <2> QED BY <2>1, <2>2 DEF AppendFails
<1> QED BY <1>1, RebuildInv DEF AppendFails

LEMMA AppendStartInv ==
    ASSUME IInv, TypeOK', NEW len \in FrameSizes, NEW seq \in Seqs,
           AppendStart(len, seq), InSeqWindow(flash, seq)
    PROVE  IInv'
<1> DEFINE start == FrameStart(idx.write, len)
<1>0. /\ pc = "idle" /\ flash' = flash
      /\ job' = [seq |-> seq, len |-> len, start |-> start, pos |-> start]
      /\ IF IsSectorStart(start)
         THEN pc' = "erase" /\ idx' = Invalidate(flash, idx, start)
         ELSE pc' = "program" /\ idx' = idx
  BY DEF AppendStart
<1>1. idx.write \in Addrs /\ (IsSectorStart(idx.write) \/ ClearFrom(flash, idx.write))
  BY <1>0 DEF IInv, TypeOK, Indexes, WriteInv
<1>2. start \in Nat /\ (IsSectorStart(start) \/ start = idx.write)
  BY <1>1, FrameStartFits
<1> HIDE DEF start
<1>3. job'.seq = seq /\ job'.start = start /\ job'.pos = start
  BY <1>0
<1>4. FlashInv'
  BY <1>0 DEF IInv, FlashInv
<1>5. AppendInv'
  <2>1. InSeqWindow(flash', job'.seq)
    BY <1>0, <1>3
  <2>2. pc' = "program" => ClearFrom(flash', job'.start)
    BY <1>0, <1>1, <1>2, <1>3
  <2>3. Started(flash', job', job'.pos)
    BY <1>2, <1>3 DEF Started
  <2>4. pc' # "commit"
    BY <1>0
  <2> QED BY <2>1, <2>2, <2>3, <2>4 DEF AppendInv
<1>6. WriteInv'
  BY <1>0 DEF WriteInv
<1> QED BY <1>4, <1>5, <1>6 DEF IInv

LEMMA EraseSectorInv == ASSUME IInv, TypeOK', EraseSector PROVE IInv'
<1>0. /\ pc = "erase" /\ pc' = "program" /\ flash' = EraseCells(flash, job.start)
      /\ idx' = idx /\ job' = job
  BY DEF EraseSector
<1>1. /\ flash \in Images /\ job.start \in Addrs /\ IsSectorStart(job.start)
      /\ job.pos = job.start /\ CellsWellPlaced(flash)
      /\ SectorSorted(flash) /\ OneWindow(flash) /\ InSeqWindow(flash, job.seq)
  BY <1>0 DEF IInv, TypeOK, FlashInv, AppendInv
<1>2. Fewer(flash, flash') /\ CellsWellPlaced(flash') /\ ClearFrom(flash', job.start)
  BY <1>0, <1>1, EraseFacts
<1>3. SectorSorted(flash') /\ OneWindow(flash') /\ InSeqWindow(flash', job.seq)
  BY <1>1, <1>2, FewerFacts DEF InSeqWindow
<1>4. Started(flash', job, job.pos)
  BY <1>1, ImageFacts DEF Started
<1>5. AppendInv'
  BY <1>0, <1>2, <1>3, <1>4 DEF AppendInv
<1> QED BY <1>0, <1>2, <1>3, <1>5 DEF IInv, FlashInv, WriteInv

LEMMA ProgramChunkInv == ASSUME IInv, TypeOK', ProgramChunk PROVE IInv'
<1>0. /\ pc = "program" /\ flash' = ProgramCells(flash, job, job.start, job.pos, Chunk)
      /\ job' = [job EXCEPT !.pos = job.pos + Chunk]
      /\ pc' = IF job'.pos = job.start + job.len THEN "commit" ELSE "program"
  BY DEF ProgramChunk
<1>1. /\ ProgramStep(flash, job, Chunk) /\ SectorSorted(flash) /\ OneWindow(flash)
      /\ InSeqWindow(flash, job.seq)
  BY <1>0, ChunkFacts
<1>2. /\ job \in Jobs /\ job.len \in Nat /\ job.start \in Nat /\ job.pos \in Nat
      /\ Chunk \in Nat \ {0} /\ job.pos + Chunk <= job.start + job.len
  <2>1. FrameSizes \subseteq Nat
    BY FrameAssumption, ConfigAssumption
  <2>2. job \in Jobs
    BY DEF IInv, TypeOK, Jobs
  <2> QED BY <1>1, <2>1, <2>2, ImageFacts DEF ProgramStep, ProgramBase
<1>3. /\ job'.seq = job.seq /\ job'.len = job.len /\ job'.start = job.start
      /\ job'.pos = job.pos + Chunk
  BY <1>0, <1>2 DEF Jobs
<1>4. CellsWellPlaced(flash') /\ Started(flash', job, job.pos + Chunk)
  BY <1>0, <1>1, ProgramFacts
<1>5. /\ SectorSorted(flash') /\ OneWindow(flash')
      /\ job.pos + Chunk < job.start + job.len =>
           ClearFrom(flash', job.start) /\ InSeqWindow(flash', job.seq)
      /\ \A a \in ValidAddrs(flash') :
           SectorEnd(a) = SectorEnd(job.start) => a + flash'[a].len <= job.start + job.len
  BY <1>0, <1>1, ProgramPlacement
<1>6. Started(flash', job', job'.pos)
  BY <1>3, <1>4 DEF Started
<1>7. AppendInv'
  <2>1. CASE pc' = "program"
    <3>1. job.pos + Chunk < job.start + job.len
      BY <1>0, <1>2, <1>3, <2>1
    <3> QED BY <1>3, <1>5, <1>6, <2>1, <3>1 DEF AppendInv
  <2>2. CASE pc' = "commit"
    <3>1. job'.pos = job.start + job.len
      BY <1>0, <2>2
    <3> QED BY <1>3, <1>5, <2>2, <3>1 DEF AppendInv
  <2> QED BY <1>0, <2>1, <2>2
<1>8. WriteInv'
  BY <1>0 DEF WriteInv
<1> QED BY <1>4, <1>5, <1>7, <1>8 DEF IInv, FlashInv

LEMMA CommitInv == ASSUME IInv, TypeOK', Commit PROVE IInv'
<1>0. pc = "commit" /\ pc' = "idle" /\ flash' = flash
  BY DEF Commit
<1>1. /\ flash \in Images /\ idx \in Indexes /\ job.start \in Addrs /\ job.len \in FrameSizes
      /\ job.pos = job.start + job.len /\ job.start + job.len <= SectorEnd(job.start)
      /\ CellsWellPlaced(flash) /\ SectorSorted(flash) /\ OneWindow(flash)
      /\ \A a \in ValidAddrs(flash) :
            SectorEnd(a) = SectorEnd(job.start) => a + flash[a].len <= job.pos
  BY <1>0 DEF IInv, TypeOK, FlashInv, AppendInv
<1>2. CASE ~ ValidFrameAt(flash, job.start)
  <2>1. idx' = Rebuild(flash')
    BY <1>0, <1>2 DEF Commit
  <2> QED BY <1>0, <1>1, <2>1, RebuildInv
<1>3. CASE ValidFrameAt(flash, job.start)
  <2> DEFINE w == WrapAddress(job.pos)
  <2>1. idx' = IndexAfterAppend(idx, job.start, flash[job.start].seq, w)
    BY <1>3 DEF Commit
  <2>2. /\ SectorEnd(job.start) \in Nat /\ SectorEnd(job.start) <= EndAddr
        /\ SectorEnd(job.start) - SectorSize <= job.start /\ IsSectorStart(SectorEnd(job.start))
        /\ job.start \in Nat /\ StartAddr <= job.start /\ job.len \in Nat \ {0}
    <3>1. FrameSizes \subseteq Nat \ {0}
      BY FrameAssumption, ConfigAssumption
    <3> QED BY <1>1, <3>1, SectorEndType, ImageFacts
  <2>3. IsSectorStart(w) \/ ClearFrom(flash, w)
    <3>1. CASE job.pos = SectorEnd(job.start)
      BY <1>1, <2>2, <3>1, NextSectorType
    <3>2. CASE job.pos < SectorEnd(job.start)
      <4>1. job.pos \in Addrs /\ SectorEnd(job.pos) = SectorEnd(job.start)
        BY <1>1, <2>2, <3>2, SameSector, ConfigAssumption
      <4>2. w = job.pos
        BY <1>1, <2>2, <3>2, ConfigAssumption DEF WrapAddress
      <4> QED BY <1>1, <4>1, <4>2 DEF ClearFrom
    <3> QED BY <1>1, <2>2, <3>1, <3>2
  <2> HIDE DEF w
  <2>4. idx'.write = w
    BY <2>1 DEF IndexAfterAppend
  <2> QED BY <1>0, <1>1, <2>3, <2>4 DEF IInv, FlashInv, AppendInv, WriteInv
<1> QED BY <1>2, <1>3

LEMMA EraseAllStartInv == ASSUME IInv, TypeOK', EraseAllStart PROVE IInv'
  BY DEF EraseAllStart, IInv, FlashInv, AppendInv, WriteInv

LEMMA WipeFlash ==
    ASSUME IInv, pc = "wipe", \/ flash' = EraseCells(flash, job.pos)
                              \/ flash' \in TornErases(flash, job.pos)
    PROVE  FlashInv' /\ Fewer(flash, flash')
<1>1. /\ flash \in Images /\ job.pos \in Addrs /\ IsSectorStart(job.pos)
      /\ CellsWellPlaced(flash) /\ SectorSorted(flash) /\ OneWindow(flash)
  BY DEF IInv, TypeOK, FlashInv
<1>2. CellsWellPlaced(flash') /\ SectorSorted(flash') /\ OneWindow(flash') /\ Fewer(flash, flash')
  BY <1>1, EraseFacts, FewerInv, TornEraseFacts
<1> QED BY <1>2 DEF FlashInv

\* eraseLogArea has erased its last sector.
LastWipe == WipeSector /\ ~ (job.pos + SectorSize < EndAddr)

\* Then no frame is left, whatever was stored before.
LEMMA LastWipeInv == ASSUME TInv, TypeOK', LastWipe PROVE IInv' /\ ValidAddrs(flash') = {}
<1>1. CellsWellPlaced(flash') /\ ValidAddrs(flash') = {}
  BY WipeLeaves DEF LastWipe
<1>2. idx' = EmptyIndex(StartAddr) /\ pc' = "idle"
  BY DEF LastWipe, WipeSector
<1>3. FlashInv'
  BY <1>1, NoJobType DEF FlashInv, SectorSorted, OneWindow
<1>4. WriteInv'
  BY <1>2, NoJobType, EmptyIndexType DEF WriteInv
<1> QED BY <1>1, <1>2, <1>3, <1>4 DEF IInv, AppendInv

LEMMA WipeSectorInv == ASSUME TInv, IInv, TypeOK', WipeSector PROVE IInv'
<1>1. CASE job.pos + SectorSize < EndAddr
  <2>1. pc = "wipe" /\ pc' = "wipe" /\ idx' = idx
    BY <1>1 DEF WipeSector
  <2>2. FlashInv' /\ Fewer(flash, flash')
    BY <2>1, WipeFlash DEF WipeSector
  <2>3. WriteInv'
    BY <2>1, <2>2, FewerFacts DEF IInv, WriteInv
  <2> QED BY <2>1, <2>2, <2>3 DEF IInv, AppendInv
<1>2. CASE ~ (job.pos + SectorSize < EndAddr)
  BY <1>2, LastWipeInv DEF LastWipe
<1> QED BY <1>1, <1>2

LEMMA WipeFailsInv == ASSUME IInv, TypeOK', WipeFails PROVE IInv'
<1>0. pc = "wipe" /\ pc' = "idle" /\ idx' = idx
  BY DEF WipeFails
<1>1. FlashInv' /\ Fewer(flash, flash')
  BY <1>0, WipeFlash DEF WipeFails
<1>2. WriteInv'
  BY <1>0, <1>1, FewerFacts DEF IInv, WriteInv
<1> QED BY <1>0, <1>1, <1>2 DEF IInv, AppendInv

LEMMA SetNextSeqInv == ASSUME IInv, TypeOK', SetNextSeq PROVE IInv'
  BY DEF SetNextSeq, IInv, FlashInv, AppendInv, WriteInv

LEMMA CrashInv == ASSUME IInv, TypeOK', Crash PROVE IInv'
<1>0. pc' = "off" /\ pc # "off"
  BY DEF Crash
<1>1. flash \in Images /\ FlashInv
  BY DEF IInv, TypeOK
<1>2. CellsWellPlaced(flash') /\ SectorSorted(flash') /\ OneWindow(flash')
  <2>1. CASE pc = "erase"
    <3>1. flash' \in TornErases(flash, job.start)
      BY <2>1 DEF Crash
    <3>2. job.start \in Addrs /\ IsSectorStart(job.start)
      BY <2>1 DEF IInv, TypeOK
    <3> QED BY <1>1, <3>1, <3>2, TornEraseFacts DEF FlashInv
  <2>2. CASE pc = "program"
    <3>1. flash' \in TornPrograms(flash, job, job.start, job.pos, Chunk)
      BY <2>2 DEF Crash
    <3> QED BY <2>2, <3>1, ChunkFacts, TornProgramFacts
  <2>3. CASE pc = "wipe"
    <3>1. flash' \in TornErases(flash, job.pos)
      BY <2>3 DEF Crash
    <3> QED BY <2>3, <3>1, WipeFlash DEF FlashInv
  <2>4. CASE pc \in {"idle", "commit"}
    <3>1. flash' = flash
      BY <2>4 DEF Crash
    <3> QED BY <1>1, <3>1 DEF FlashInv
  <2>5. pc \in {"off", "idle", "erase", "program", "commit", "wipe"}
    BY DEF IInv, TypeOK
  <2> QED BY <1>0, <2>1, <2>2, <2>3, <2>4, <2>5
<1> QED BY <1>0, <1>2 DEF IInv, FlashInv, AppendInv, WriteInv

\* While the frames are in order, each is handed over newer than all stored.
LEMMA InOrderAppend ==
    ASSUME TypeOK, AppendFrame, ~ disordered'
    PROVE  \E len \in FrameSizes, seq \in Seqs :
              AppendStart(len, seq) /\ InSeqWindow(flash, seq)
  BY AppendIsStart DEF AppendStart

\* The order is restored only by erasing the whole log.
LEMMA OrderKept ==
    ASSUME [Next]_vars, ~ disordered', ~ LastWipe
    PROVE  ~ disordered
<1>1. CASE AppendFrame
  BY <1>1 DEF AppendFrame, AppendFresh, AppendLate, AppendStart
<1>2. CASE WipeSector
  BY <1>2 DEF WipeSector, LastWipe
<1> QED
  BY <1>1, <1>2 DEF Next, Boot, EraseSector, ProgramChunk, Commit, AppendFails,
     EraseAllStart, WipeFails, SetNextSeq, Crash, vars, feed

LEMMA OrderedNext ==
    ASSUME TInv, IInv, TypeOK', [Next]_vars, ~ disordered'
    PROVE  IInv'
<1>1. CASE Boot          BY <1>1, BootInv
<1>2. CASE AppendFrame   BY <1>2, InOrderAppend, AppendStartInv DEF TInv
<1>3. CASE EraseSector   BY <1>3, EraseSectorInv
<1>4. CASE ProgramChunk  BY <1>4, ProgramChunkInv
<1>5. CASE Commit        BY <1>5, CommitInv
<1>6. CASE AppendFails   BY <1>6, AppendFailsInv
<1>7. CASE EraseAllStart BY <1>7, EraseAllStartInv
<1>8. CASE WipeSector    BY <1>8, WipeSectorInv
<1>9. CASE WipeFails     BY <1>9, WipeFailsInv
<1>10. CASE SetNextSeq   BY <1>10, SetNextSeqInv
<1>11. CASE Crash        BY <1>11, CrashInv
<1>12. CASE UNCHANGED vars
  BY <1>12 DEF vars, IInv, FlashInv, AppendInv, WriteInv
<1> QED
  BY <1>1, <1>2, <1>3, <1>4, <1>5, <1>6, <1>7, <1>8, <1>9, <1>10, <1>11, <1>12 DEF Next

\* The invariant of every reachable state.
Inv == TInv /\ (~ disordered => IInv)

LEMMA NextInv == Inv /\ [Next]_vars => Inv'
<1> SUFFICES ASSUME Inv, [Next]_vars PROVE Inv'
  OBVIOUS
<1>1. TInv' /\ TypeOK'
  BY TypedNext DEF Inv, TInv
<1>2. ASSUME ~ disordered' PROVE IInv'
  <2>1. CASE LastWipe
    BY <1>1, <2>1, LastWipeInv DEF Inv
  <2>2. CASE ~ LastWipe
    BY <1>1, <1>2, <2>2, OrderKept, OrderedNext DEF Inv
  <2> QED BY <2>1, <2>2
<1> QED BY <1>1, <1>2 DEF Inv

-----------------------------------------------------------------------------
(* The theorems.                                                           *)

\* One step loses an intact frame only by an erase command of its own sector.
LEMMA StepKeepsFrames ==
    ASSUME IInv, [Next]_vars, NEW a \in ValidAddrs(flash)
    PROVE  \/ ValidFrameAt(flash', a) /\ flash'[a] = flash[a]
           \/ pc = "erase" /\ a \in Span(job.start, SectorSize)
           \/ pc = "wipe"  /\ a \in Span(job.pos, SectorSize)
<1>0. flash \in Images /\ CellsWellPlaced(flash) /\ SectorSorted(flash) /\ OneWindow(flash)
  BY DEF IInv, TypeOK, FlashInv
<1>1. CASE pc = "erase" /\ flash' # flash
  <2>1. flash' = EraseCells(flash, job.start) \/ flash' \in TornErases(flash, job.start)
    BY <1>1 DEF Next, Boot, AppendFrame, AppendFresh, AppendLate, AppendStart, EraseSector,
       ProgramChunk, Commit, AppendFails, EraseAllStart, WipeSector, WipeFails, SetNextSeq,
       Crash, vars
  <2>2. job.start \in Addrs /\ IsSectorStart(job.start)
    BY <1>1 DEF IInv, TypeOK
  <2> QED BY <1>0, <1>1, <2>1, <2>2, EraseFacts, TornEraseFacts
<1>2. CASE pc = "program" /\ flash' # flash
  <2>1. flash' \in TornPrograms(flash, job, job.start, job.pos, Chunk)
    BY <1>2 DEF Next, Boot, AppendFrame, AppendFresh, AppendLate, AppendStart, EraseSector,
       ProgramChunk, Commit, AppendFails, EraseAllStart, WipeSector, WipeFails, SetNextSeq,
       Crash, vars, TornPrograms
  <2> QED BY <1>2, <2>1, ChunkFacts, TornProgramFacts
<1>3. CASE pc = "wipe" /\ flash' # flash
  <2>1. flash' = EraseCells(flash, job.pos) \/ flash' \in TornErases(flash, job.pos)
    BY <1>3 DEF Next, Boot, AppendFrame, AppendFresh, AppendLate, AppendStart, EraseSector,
       ProgramChunk, Commit, AppendFails, EraseAllStart, WipeSector, WipeFails, SetNextSeq,
       Crash, vars
  <2>2. job.pos \in Addrs /\ IsSectorStart(job.pos)
    BY <1>3 DEF IInv, TypeOK
  <2> QED BY <1>0, <1>3, <2>1, <2>2, EraseFacts, TornEraseFacts
<1>4. CASE pc \notin {"erase", "program", "wipe"} /\ flash' # flash
  BY <1>4 DEF Next, Boot, AppendFrame, AppendFresh, AppendLate, AppendStart, EraseSector,
     ProgramChunk, Commit, AppendFails, EraseAllStart, WipeSector, WipeFails, SetNextSeq,
     Crash, vars
<1>5. CASE flash' = flash
  BY <1>5 DEF ValidAddrs
<1> QED BY <1>1, <1>2, <1>3, <1>4, <1>5

LEMMA StartInv == Init => Inv
  BY InitTyped, InitInv DEF Inv

\* For every layout of the log area, every set of frame sizes, any number of
\* failed flash commands, lock timeouts and resets: while the stored frames are in
\* the order of their numbers no append and no reset damages a frame stored
\* before; it goes only when its sector is erased.
THEOREM FramesAreKept == Spec => FramesLostOnlyToErase
<1> DEFINE Kept(a) == \/ ValidFrameAt(flash', a) /\ flash'[a] = flash[a]
                      \/ pc = "erase" /\ a \in Span(job.start, SectorSize)
                      \/ pc = "wipe"  /\ a \in Span(job.pos, SectorSize)
<1>1. Inv /\ [Next]_vars => [~ disordered => \A a \in ValidAddrs(flash) : Kept(a)]_vars
  BY StepKeepsFrames DEF Inv
<1> QED BY <1>1, StartInv, NextInv, PTL DEF Spec, FramesLostOnlyToErase

-----------------------------------------------------------------------------
(* The order of the frames round the ring.                                 *)

\* From e once round the ring, frames met later are newer.
RingSorted(f, e) ==
    \A a, b \in ValidAddrs(f) :
        RingDist(e, a) < RingDist(e, b) => IsSeqNewer(f[b].seq, f[a].seq)

LEMMA RingFacts ==
    ASSUME NEW e \in Addrs, NEW a \in Addrs, NEW b \in Addrs
    PROVE  /\ RingDist(e, a) \in Nat
           /\ a # b => RingDist(e, a) < RingDist(e, b) \/ RingDist(e, b) < RingDist(e, a)
  BY ConfigAssumption DEF RingDist, AreaSize, Addrs

LEMMA NewerFacts ==
    ASSUME NEW s \in Seqs, NEW t \in Seqs, IsSeqNewer(s, t)
    PROVE  ~ IsSeqNewer(t, s) /\ s # t
  BY SeqAssumption DEF IsSeqNewer, Seqs

\* A sector does not begin within another.
LEMMA SectorsApart ==
    ASSUME NEW e \in Addrs, IsSectorStart(e), NEW n \in Addrs
    PROVE  e <= SectorEnd(n) - SectorSize \/ SectorEnd(n) <= e
<1>1. e \in Int /\ SectorEnd(n) \in Nat
  BY ConfigAssumption, SectorEndType DEF Addrs
<1>2. SUFFICES ASSUME SectorEnd(n) - SectorSize <= e, e < SectorEnd(n)
               PROVE  e = SectorEnd(n) - SectorSize
  BY <1>1, ConfigAssumption
<1>3. SectorEnd(e) = SectorEnd(n) /\ SectorEnd(e) = e + SectorSize
  BY <1>1, <1>2, SameSector, SectorStartEnd
<1> QED
  BY <1>1, <1>3, ConfigAssumption

LEMMA FewerRing ==
    ASSUME NEW f, NEW g, Fewer(f, g), NEW e, RingSorted(f, e)
    PROVE  RingSorted(g, e)
  BY FewerFacts DEF RingSorted

\* The ring may be cut behind the sector of its newest frame.
LEMMA RingTurns ==
    ASSUME NEW f \in Images, NEW e \in Addrs, IsSectorStart(e), RingSorted(f, e),
           NEW n \in ValidAddrs(f),
           \A a \in ValidAddrs(f) : ~ IsSeqNewer(f[a].seq, f[n].seq)
    PROVE  RingSorted(f, WrapAddress(SectorEnd(n)))
<1> DEFINE c == WrapAddress(SectorEnd(n))
<1>1. n \in Addrs /\ \A a \in ValidAddrs(f) : a \in Addrs
  BY ValidFacts
<1>2. \A a \in ValidAddrs(f) : RingDist(e, a) <= RingDist(e, n)
  <2>1. SUFFICES ASSUME NEW a \in ValidAddrs(f) PROVE ~ (RingDist(e, n) < RingDist(e, a))
    BY <1>1, RingFacts
  <2> QED
    BY <2>1 DEF RingSorted
<1>3. /\ SectorEnd(n) \in Nat /\ n < SectorEnd(n) /\ SectorEnd(n) - SectorSize <= n
      /\ SectorEnd(n) <= EndAddr /\ StartAddr <= SectorEnd(n) - SectorSize
      /\ e <= SectorEnd(n) - SectorSize \/ SectorEnd(n) <= e
  BY <1>1, SectorEndType, SectorsApart
<1>4. c = IF SectorEnd(n) >= EndAddr THEN StartAddr ELSE SectorEnd(n)
  BY DEF WrapAddress
<1> SUFFICES ASSUME NEW a \in ValidAddrs(f), NEW b \in ValidAddrs(f),
                    RingDist(c, a) < RingDist(c, b)
             PROVE  RingDist(e, a) < RingDist(e, b)
  BY DEF RingSorted
<1> HIDE DEF c
<1> QED
  BY <1>1, <1>2, <1>3, <1>4, ConfigAssumption DEF RingDist, AreaSize, Addrs

\* It may be cut behind an empty sector as well as before it.
LEMMA RingSkips ==
    ASSUME NEW f \in Images, NEW s \in Addrs, IsSectorStart(s), RingSorted(f, s),
           ValidAddrs(f) \cap Span(s, SectorSize) = {}
    PROVE  RingSorted(f, WrapAddress(SectorEnd(s)))
<1> DEFINE c == WrapAddress(SectorEnd(s))
<1>1. SectorEnd(s) = s + SectorSize /\ SectorEnd(s) <= EndAddr
  BY SectorStartEnd, SectorEndType
<1>2. \A a \in ValidAddrs(f) : a \in Addrs /\ ~ (s <= a /\ a < s + SectorSize)
  <2> TAKE a \in ValidAddrs(f)
  <2>1. a \in Addrs /\ a \notin Span(s, SectorSize)
    BY ValidFacts
  <2> QED
    BY <2>1, ConfigAssumption DEF Span, Addrs
<1>3. c = IF s + SectorSize >= EndAddr THEN StartAddr ELSE s + SectorSize
  BY <1>1 DEF WrapAddress
<1> SUFFICES ASSUME NEW a \in ValidAddrs(f), NEW b \in ValidAddrs(f),
                    RingDist(c, a) < RingDist(c, b)
             PROVE  RingDist(s, a) < RingDist(s, b)
  BY DEF RingSorted
<1> HIDE DEF c
<1> QED
  BY <1>1, <1>2, <1>3, ConfigAssumption DEF RingDist, AreaSize, Addrs

\* A newer frame behind all others of the last sector keeps the order.
LEMMA RingGrows ==
    ASSUME NEW f \in Images, NEW g \in Images, NEW st \in Addrs, NEW sq \in Seqs,
           RingSorted(f, WrapAddress(SectorEnd(st))),
           ClearFrom(f, st), InSeqWindow(f, sq),
           \A a \in Addrs : a # st /\ ValidFrameAt(g, a) => ValidFrameAt(f, a) /\ g[a] = f[a],
           ValidFrameAt(g, st) => g[st].seq = sq
    PROVE  RingSorted(g, WrapAddress(SectorEnd(st)))
<1> DEFINE c == WrapAddress(SectorEnd(st))
<1> SUFFICES ASSUME NEW a \in ValidAddrs(g), NEW b \in ValidAddrs(g),
                    RingDist(c, a) < RingDist(c, b)
             PROVE  IsSeqNewer(g[b].seq, g[a].seq)
  BY DEF RingSorted
<1>1. /\ a \in Addrs /\ b \in Addrs /\ c \in Addrs
      /\ a # st => a \in ValidAddrs(f) /\ g[a] = f[a]
      /\ b # st => b \in ValidAddrs(f) /\ g[b] = f[b]
  BY NextSectorType DEF ValidAddrs
<1>2. a # b
  BY <1>1, RingFacts
<1>3. CASE a # st /\ b # st
  BY <1>1, <1>3 DEF RingSorted
<1>4. CASE b = st
  BY <1>1, <1>2, <1>4 DEF InSeqWindow, ValidAddrs
<1>5. CASE a = st
  <2>1. /\ SectorEnd(st) \in Nat /\ st < SectorEnd(st) /\ SectorEnd(st) - SectorSize <= st
        /\ SectorEnd(st) <= EndAddr /\ StartAddr <= SectorEnd(st) - SectorSize
    BY SectorEndType
  <2>2. c = IF SectorEnd(st) >= EndAddr THEN StartAddr ELSE SectorEnd(st)
    BY DEF WrapAddress
  <2> HIDE DEF c
  <2>3. st < b /\ b < SectorEnd(st)
    BY <1>1, <1>2, <1>5, <2>1, <2>2, ConfigAssumption DEF RingDist, AreaSize, Addrs
  <2>4. SectorEnd(b) = SectorEnd(st)
    <3>1. b \in Int /\ SectorEnd(st) - SectorSize <= b
      BY <1>1, <2>1, <2>3, ConfigAssumption DEF Addrs
    <3> QED
      BY <2>3, <3>1, SameSector
  <2>5. b + f[b].len <= st /\ f[b].len \in Nat
    BY <1>1, <1>2, <1>5, <2>4, ValidFacts DEF ClearFrom
  <2> QED
    BY <1>1, <2>3, <2>5, ConfigAssumption DEF Addrs
<1> QED
  BY <1>3, <1>4, <1>5
-----------------------------------------------------------------------------
(* The index.                                                              *)

\* Index i describes the frames V of flash f.
IndexOf(i, f, V) ==
    /\ i.count = Cardinality(V)
    /\ V # {} =>
        /\ i.oldest \in V /\ i.newest \in V
        /\ i.newest_seq = f[i.newest].seq
        /\ \A a \in V \ {i.newest} : IsSeqNewer(i.newest_seq, f[a].seq)
        /\ \A a \in V \ {i.oldest} : IsSeqNewer(f[a].seq, f[i.oldest].seq)

\* Where the ring of frames begins when the next one is written at w.
CutAt(w) == IF IsSectorStart(w) THEN w ELSE WrapAddress(SectorEnd(w))

\* A rebuild takes the sector behind the newest frame for dirty and skips it, though
\* that frame ends where the sector begins.
RebuildSkips(f) ==
    /\ ValidAddrs(f) # {}
    /\ LET end == WrapAddress(Newest(f) + f[Newest(f)].len)
       IN  IsSectorStart(end) /\ ~ IsErasedAt(f, end)

LEMMA FirstFromFacts ==
    ASSUME NEW f \in Images, NEW e \in Addrs, ValidAddrs(f) # {}
    PROVE  /\ FirstFrom(f, e) \in ValidAddrs(f)
           /\ \A y \in ValidAddrs(f) : RingDist(e, FirstFrom(f, e)) <= RingDist(e, y)
<1> DEFINE D == {RingDist(e, x) : x \in ValidAddrs(f)}
<1>1. D \in SUBSET Nat /\ D # {}
  BY RingFacts, ValidFacts
<1>2. PICK d \in D : \A y \in D : d <= y
  BY <1>1, LeastNat
<1>3. PICK x \in ValidAddrs(f) : d = RingDist(e, x)
  OBVIOUS
<1>4. \A y \in ValidAddrs(f) : RingDist(e, x) <= RingDist(e, y)
  BY <1>2, <1>3
<1> QED
  BY <1>4 DEF FirstFrom

\* The scan finds both ends of a ring that is in order.
LEMMA ScanFindsEnds ==
    ASSUME NEW f \in Images, OneWindow(f), NEW e \in Addrs, RingSorted(f, e), ValidAddrs(f) # {}
    PROVE  /\ Oldest(f) \in ValidAddrs(f) /\ Newest(f) \in ValidAddrs(f)
           /\ \A a \in ValidAddrs(f) \ {Newest(f)} : IsSeqNewer(f[Newest(f)].seq, f[a].seq)
           /\ \A a \in ValidAddrs(f) \ {Oldest(f)} : IsSeqNewer(f[a].seq, f[Oldest(f)].seq)
<1>1. \A a, b \in ValidAddrs(f) :
        a # b => \/ IsSeqNewer(f[a].seq, f[b].seq) /\ ~ IsSeqNewer(f[b].seq, f[a].seq)
                                                   /\ f[a].seq # f[b].seq
                 \/ IsSeqNewer(f[b].seq, f[a].seq) /\ ~ IsSeqNewer(f[a].seq, f[b].seq)
                                                   /\ f[a].seq # f[b].seq
  <2> TAKE a, b \in ValidAddrs(f)
  <2>1. a \in Addrs /\ b \in Addrs /\ f[a].seq \in Seqs /\ f[b].seq \in Seqs
    BY ValidFacts
  <2>2. CASE RingDist(e, a) < RingDist(e, b)
    <3>1. IsSeqNewer(f[b].seq, f[a].seq)
      BY <2>2 DEF RingSorted
    <3> QED
      BY <2>1, <3>1, NewerFacts
  <2>3. CASE RingDist(e, b) < RingDist(e, a)
    <3>1. IsSeqNewer(f[a].seq, f[b].seq)
      BY <2>3 DEF RingSorted
    <3> QED
      BY <2>1, <3>1, NewerFacts
  <2> QED
    BY <2>1, <2>2, <2>3, RingFacts
<1>2. Newest(f) \in ValidAddrs(f)
      /\ \A a \in ValidAddrs(f) : ~ IsSeqNewer(f[a].seq, f[Newest(f)].seq)
  BY NewestFacts
<1>3. Oldest(f) \in ValidAddrs(f)
      /\ \A b \in ValidAddrs(f) : ~ IsSeqNewer(f[Oldest(f)].seq, f[b].seq)
  <2> DEFINE o == FirstFrom(f, e)
             IsOldest(a) == \A b \in ValidAddrs(f) :
               ~ IsSeqNewer(f[a].seq, f[b].seq) /\ (f[b].seq = f[a].seq => a <= b)
  <2>1. o \in ValidAddrs(f) /\ \A y \in ValidAddrs(f) : RingDist(e, o) <= RingDist(e, y)
    BY FirstFromFacts
  <2> HIDE DEF o
  <2>2. ASSUME NEW b \in ValidAddrs(f)
        PROVE  ~ IsSeqNewer(f[o].seq, f[b].seq) /\ (f[b].seq = f[o].seq => o <= b)
    <3>1. o \in Addrs /\ b \in Addrs /\ f[o].seq \in Seqs
      BY <2>1, ValidFacts
    <3>2. CASE o = b
      <4>1. ~ IsSeqNewer(f[o].seq, f[o].seq)
        BY <3>1, NewerFacts
      <4> QED
        BY <3>1, <3>2, <4>1, ConfigAssumption DEF Addrs
    <3>3. CASE o # b
      <4>1. RingDist(e, o) < RingDist(e, b)
        BY <2>1, <3>1, <3>3, RingFacts
      <4>2. IsSeqNewer(f[b].seq, f[o].seq)
        BY <2>1, <4>1 DEF RingSorted
      <4> QED
        BY <1>1, <2>1, <3>3, <4>2
    <3> QED
      BY <3>2, <3>3
  <2>3. \E a \in ValidAddrs(f) : IsOldest(a)
    BY <2>1, <2>2
  <2>4. Oldest(f) = CHOOSE a \in ValidAddrs(f) : IsOldest(a)
    BY Zenon DEF Oldest
  <2>5. Oldest(f) \in ValidAddrs(f) /\ IsOldest(Oldest(f))
    BY <2>3, <2>4, Zenon
  <2> QED
    BY <2>5
<1> QED
  BY <1>1, <1>2, <1>3

\* After a scan the index describes the flash, and the ring begins behind the newest
\* frame, unless the scan skipped a sector.
LEMMA RebuildIsTrue ==
    ASSUME NEW f \in Images, CellsWellPlaced(f), OneWindow(f),
           NEW e \in Addrs, IsSectorStart(e), RingSorted(f, e), ~ RebuildSkips(f)
    PROVE  /\ IndexOf(Rebuild(f), f, ValidAddrs(f))
           /\ Rebuild(f).write \in Addrs
           /\ RingSorted(f, CutAt(Rebuild(f).write))
<1>0. StartAddr \in Addrs
  BY ConfigAssumption DEF Addrs
<1>1. CASE ValidAddrs(f) = {}
  <2>1. SafeWrite(f, StartAddr) \in Addrs
    BY <1>0, NextSectorType DEF SafeWrite
  <2>2. Rebuild(f) = EmptyIndex(SafeWrite(f, StartAddr))
    BY <1>1 DEF Rebuild
  <2>3. Cardinality(ValidAddrs(f)) = 0
    BY <1>1, FS_EmptySet
  <2> QED
    BY <1>1, <2>1, <2>2, <2>3 DEF EmptyIndex, IndexOf, RingSorted
<1>2. CASE ValidAddrs(f) # {}
  <2> DEFINE n == Newest(f)
             w == WrapAddress(n + f[n].len)
  <2>1. Rebuild(f) = [write |-> SafeWrite(f, w), oldest |-> Oldest(f), newest |-> n,
                      newest_seq |-> f[n].seq, count |-> Cardinality(ValidAddrs(f))]
    BY <1>2 DEF Rebuild
  <2>2. IndexOf(Rebuild(f), f, ValidAddrs(f))
    BY <1>2, <2>1, ScanFindsEnds DEF IndexOf
  <2>3. n \in ValidAddrs(f) /\ \A a \in ValidAddrs(f) : ~ IsSeqNewer(f[a].seq, f[n].seq)
    BY <1>2, NewestFacts
  <2>4. IsSectorStart(w) => f[w] = Erased
    BY <1>2 DEF RebuildSkips, IsErasedAt
  <2> HIDE DEF n
  <2>5. /\ n \in Addrs /\ n \in Nat /\ f[n].len \in Nat \ {0} /\ StartAddr <= n
        /\ n + f[n].len <= EndAddr /\ n + f[n].len <= SectorEnd(n)
    BY <2>3, ValidFacts, ImageFacts, FrameInSector
  <2>6. w \in Addrs /\ w = IF n + f[n].len = EndAddr THEN StartAddr ELSE n + f[n].len
    <3>1. n + f[n].len \in Nat /\ StartAddr <= n + f[n].len
      BY <2>5, ConfigAssumption
    <3> QED
      BY <2>5, <3>1, WrapType
  <2>7. SectorEnd(n) \in Nat /\ IsSectorStart(SectorEnd(n)) /\ SectorEnd(n) <= EndAddr
        /\ n < SectorEnd(n) /\ SectorEnd(n) - SectorSize <= n
    BY <2>5, SectorEndType
  <2>8. CutAt(SafeWrite(f, w)) = WrapAddress(SectorEnd(n)) /\ SafeWrite(f, w) \in Addrs
    <3>1. CASE n + f[n].len = SectorEnd(n)
      <4>1. w = WrapAddress(SectorEnd(n)) /\ IsSectorStart(w)
        BY <2>5, <3>1, NextSectorType
      <4> QED
        BY <2>4, <2>6, <4>1 DEF SafeWrite, IsErasedAt, CutAt
    <3>2. CASE n + f[n].len # SectorEnd(n)
      <4>1. w = n + f[n].len /\ n < w /\ w < SectorEnd(n) /\ w \in Int
        BY <2>5, <2>6, <2>7, <3>2
      <4>2. SectorEnd(w) = SectorEnd(n)
        BY <2>5, <2>7, <4>1, SameSector, ConfigAssumption
      <4>3. ~ IsSectorStart(w)
        BY <2>5, <2>6, <2>7, <4>1, <4>2, SectorStartEnd, ConfigAssumption
      <4>4. SafeWrite(f, w) \in {w, WrapAddress(SectorEnd(n))}
        BY <4>2 DEF SafeWrite
      <4>5. WrapAddress(SectorEnd(n)) \in Addrs /\ IsSectorStart(WrapAddress(SectorEnd(n)))
        BY <2>5, NextSectorType
      <4> QED
        BY <2>6, <4>2, <4>3, <4>4, <4>5 DEF CutAt
    <3> QED
      BY <3>1, <3>2
  <2>9. RingSorted(f, WrapAddress(SectorEnd(n)))
    BY <2>3, RingTurns
  <2> QED
    BY <2>1, <2>2, <2>8, <2>9
<1> QED
  BY <1>1, <1>2

LEMMA NextSectorOfStart ==
    ASSUME NEW s \in Addrs, IsSectorStart(s)
    PROVE  /\ WrapAddress(s + SectorSize) \in Addrs
           /\ WrapAddress(s + SectorSize) = WrapAddress(SectorEnd(s))
  BY SectorStartEnd, NextSectorType

\* Taking a sector out of the index leaves the rest described, although its frames
\* are still in flash.
LEMMA InvalidateIsTrue ==
    ASSUME NEW f \in Images, NEW i, NEW s \in Addrs, IsSectorStart(s),
           RingSorted(f, s), IndexOf(i, f, ValidAddrs(f)), i \in Indexes
    PROVE  IndexOf(Invalidate(f, i, s), f, ValidAddrs(f) \ Span(s, SectorSize))
<1> DEFINE V == ValidAddrs(f)
           S == Span(s, SectorSize)
           removed == Cardinality(V \cap S)
           left == [i EXCEPT !.count = i.count - removed]
<1>1. /\ IsFiniteSet(V) /\ IsFiniteSet(V \cap S) /\ IsFiniteSet(V \ S)
      /\ Cardinality(V) \in Nat /\ removed \in Nat /\ Cardinality(V \ S) \in Nat
      /\ Cardinality(V \ S) = Cardinality(V) - removed
  <2>1. IsFiniteSet(V)
    BY ValidFinite
  <2>2. IsFiniteSet(V \cap S) /\ IsFiniteSet(V \ S)
    BY <2>1, FS_Intersection, FS_Difference
  <2>3. Cardinality(V \ S) = Cardinality(V) - Cardinality(V \cap S)
    BY <2>1, FS_Difference
  <2> QED
    BY <2>1, <2>2, <2>3, FS_CardinalityType
<1>2. i.count = Cardinality(V)
  BY DEF IndexOf
<1>3. \A a \in V : a \in Addrs
  BY ValidFacts
<1>4. ASSUME NEW a \in V, NEW b \in V, a \in S, b \notin S
      PROVE  IsSeqNewer(f[b].seq, f[a].seq)
  <2>1. RingDist(s, a) < RingDist(s, b)
    BY <1>3, <1>4, ConfigAssumption DEF RingDist, AreaSize, Span, Addrs
  <2> QED
    BY <2>1 DEF RingSorted
<1>5. CASE i.count = 0
  <2>1. V = {}
    BY <1>1, <1>2, <1>5, FS_EmptySet
  <2>2. V \ S = {} /\ Invalidate(f, i, s) = i
    BY <1>5, <2>1 DEF Invalidate
  <2> QED
    BY <2>1, <2>2 DEF IndexOf
<1>6. CASE i.count # 0 /\ removed >= i.count
  <2>1. V \ S = {}
    <3>1. Cardinality(V \ S) = 0
      BY <1>1, <1>2, <1>6
    <3> QED
      BY <1>1, <3>1, FS_EmptySet
  <2>2. Invalidate(f, i, s) = EmptyIndex(s)
    BY <1>6 DEF Invalidate
  <2>3. Cardinality(V \ S) = 0
    BY <2>1, FS_EmptySet
  <2> QED
    BY <2>1, <2>2, <2>3 DEF IndexOf, EmptyIndex
<1>7. CASE i.count # 0 /\ ~ (removed >= i.count)
  <2>1. PICK b \in V : b \notin S
    <3>1. Cardinality(V \ S) # 0
      BY <1>1, <1>2, <1>7
    <3> QED
      BY <1>1, <3>1, FS_EmptySet
  <2>2. /\ i.oldest \in V /\ i.newest \in V /\ i.newest_seq = f[i.newest].seq
        /\ \A a \in V \ {i.newest} : IsSeqNewer(i.newest_seq, f[a].seq)
        /\ \A a \in V \ {i.oldest} : IsSeqNewer(f[a].seq, f[i.oldest].seq)
    BY <2>1 DEF IndexOf
  <2>3. \A a \in V : f[a].seq \in Seqs
    BY ValidFacts
  <2>4. i.newest \notin S
    <3>1. SUFFICES ASSUME i.newest \in S PROVE FALSE
      OBVIOUS
    <3>2. IsSeqNewer(f[b].seq, f[i.newest].seq)
      BY <1>4, <2>1, <2>2, <3>1
    <3>3. IsSeqNewer(f[i.newest].seq, f[b].seq)
      BY <2>1, <2>2, <3>1
    <3> QED
      BY <2>2, <2>3, <3>2, <3>3, NewerFacts
  <2>5. /\ left.count = Cardinality(V \ S) /\ left.newest = i.newest
        /\ left.newest_seq = i.newest_seq /\ left.oldest = i.oldest /\ left \in Indexes
    <3>1. i \in [write : Addrs, oldest : Addrs, newest : Addrs, newest_seq : Seqs, count : Int]
      BY DEF Indexes
    <3>2. i.count - removed = Cardinality(V \ S) /\ i.count - removed \in Int
      BY <1>1, <1>2
    <3> HIDE DEF V, S, removed
    <3> QED
      BY <3>1, <3>2 DEF Indexes
  <2> HIDE DEF V, S, removed, left
  <2>6. CASE i.oldest \notin S
    <3>1. Invalidate(f, i, s) = left
      BY <1>7, <2>6, Zenon DEF Invalidate, V, S, removed, left
    <3>2. IndexOf(left, f, V \ S)
      BY <2>2, <2>4, <2>5, <2>6 DEF IndexOf
    <3> QED
      BY <3>1, <3>2 DEF V, S
  <2>7. CASE i.oldest \in S
    <3> DEFINE e == WrapAddress(s + SectorSize)
               o == FirstFrom(f, e)
    <3>1. V # {} /\ e \in Addrs /\ e = WrapAddress(SectorEnd(s)) /\ SectorEnd(s) = s + SectorSize
          /\ SectorEnd(s) <= EndAddr
      BY <2>1, NextSectorOfStart, SectorStartEnd, SectorEndType
    <3>2. Invalidate(f, i, s) = [left EXCEPT !.oldest = o]
      BY <1>7, <2>7, <3>1, Zenon DEF Invalidate, V, S, removed, left
    <3>3. o \in V /\ \A y \in V : RingDist(e, o) <= RingDist(e, y)
      BY <3>1, FirstFromFacts DEF V
    <3>4. e = IF s + SectorSize >= EndAddr THEN StartAddr ELSE s + SectorSize
      BY DEF WrapAddress
    <3> HIDE DEF e, o
    <3>5. ASSUME NEW y \in V, y \notin S
          PROVE  o \notin S /\ (o # y => RingDist(s, o) < RingDist(s, y))
      <4>1. RingDist(e, o) <= RingDist(e, y) /\ o \in Addrs /\ y \in Addrs
        BY <1>3, <3>3, <3>5
      <4>2. s + SectorSize <= EndAddr /\ ~ (s <= y /\ y < s + SectorSize) /\ s \in Addrs
        BY <3>1, <3>5, <4>1, ConfigAssumption DEF S, Span, Addrs
      <4>3. ~ (s <= o /\ o < s + SectorSize)
        BY <3>4, <4>1, <4>2, ConfigAssumption DEF RingDist, AreaSize, Addrs
      <4>4. o # y => RingDist(s, o) < RingDist(s, y)
        BY <3>4, <4>1, <4>2, <4>3, ConfigAssumption DEF RingDist, AreaSize, Addrs
      <4> QED
        BY <4>1, <4>3, <4>4, ConfigAssumption DEF S, Span, Addrs
    <3>6. o \in V \ S /\ \A y \in (V \ S) \ {o} : IsSeqNewer(f[y].seq, f[o].seq)
      BY <2>1, <3>3, <3>5 DEF RingSorted, V
    <3>7. IndexOf([left EXCEPT !.oldest = o], f, V \ S)
      BY <2>2, <2>4, <2>5, <3>6 DEF IndexOf, Indexes
    <3> QED
      BY <3>2, <3>7 DEF V, S
  <2> QED
    BY <2>6, <2>7
<1> QED
  BY <1>5, <1>6, <1>7
-----------------------------------------------------------------------------
(* What the index says in whatever order the frames are handed over.        *)

\* Index i counts the frames V and points at one of them.
Points(i, V) == i.count = Cardinality(V) /\ (V # {} => i.oldest \in V)

\* The append has programmed all the cells of its frame that it has reached.
Whole(f, j) ==
    \A x \in Span(j.start, j.pos - j.start) :
        f[x] = [seq |-> j.seq, len |-> j.len, off |-> x - j.start]

\* An append that takes away a frame stored before (one that lies where it writes)
\* leaves its own in pieces, and the index is rebuilt.
PointInv ==
    /\ IndexDescribesFlash
    /\ pc = "erase" /\ ~ busy =>
         Points(idx, ValidAddrs(flash) \ Span(job.start, SectorSize))
    /\ pc \in {"program", "commit"} /\ ~ busy /\ Whole(flash, job) =>
         Points(idx, IF job.pos = job.start THEN ValidAddrs(flash)
                     ELSE ValidAddrs(flash) \ {job.start})
    /\ pc = "commit" /\ ValidFrameAt(flash, job.start) =>
         flash[job.start].seq = job.seq /\ flash[job.start].len = job.len

LEMMA InvalidateCounts ==
    ASSUME NEW f \in Images, NEW i \in Indexes, NEW s \in Addrs, IsSectorStart(s),
           Points(i, ValidAddrs(f))
    PROVE  Points(Invalidate(f, i, s), ValidAddrs(f) \ Span(s, SectorSize))
<1> DEFINE V == ValidAddrs(f)
           S == Span(s, SectorSize)
           removed == Cardinality(V \cap S)
           left == [i EXCEPT !.count = i.count - removed]
<1>1. /\ IsFiniteSet(V) /\ IsFiniteSet(V \ S)
      /\ Cardinality(V) \in Nat /\ removed \in Nat /\ Cardinality(V \ S) \in Nat
      /\ Cardinality(V \ S) = Cardinality(V) - removed
  <2>1. IsFiniteSet(V)
    BY ValidFinite
  <2>2. IsFiniteSet(V \cap S) /\ IsFiniteSet(V \ S)
    BY <2>1, FS_Intersection, FS_Difference
  <2>3. Cardinality(V \ S) = Cardinality(V) - Cardinality(V \cap S)
    BY <2>1, FS_Difference
  <2> QED BY <2>1, <2>2, <2>3, FS_CardinalityType
<1>2. i.count = Cardinality(V)
  BY DEF Points
<1>3. \A a \in V : a \in Addrs
  BY ValidFacts
<1>4. CASE i.count = 0
  <2>1. V = {}
    BY <1>1, <1>2, <1>4, FS_EmptySet
  <2>2. V \ S = {} /\ Invalidate(f, i, s) = i
    BY <1>4, <2>1 DEF Invalidate
  <2> QED BY <2>1, <2>2 DEF Points
<1>5. CASE i.count # 0 /\ removed >= i.count
  <2>1. Cardinality(V \ S) = 0
    BY <1>1, <1>2, <1>5
  <2>2. V \ S = {}
    BY <1>1, <2>1, FS_EmptySet
  <2>3. Invalidate(f, i, s) = EmptyIndex(s)
    BY <1>5 DEF Invalidate
  <2> QED BY <2>1, <2>2, <2>3 DEF Points, EmptyIndex
<1>6. CASE i.count # 0 /\ ~ (removed >= i.count)
  <2>1. PICK b \in V : b \notin S
    <3>1. Cardinality(V \ S) # 0
      BY <1>1, <1>2, <1>6
    <3> QED BY <1>1, <3>1, FS_EmptySet
  <2>2. i.oldest \in V
    BY <2>1 DEF Points
  <2>3. left.count = Cardinality(V \ S) /\ left.oldest = i.oldest /\ left \in Indexes
    <3>1. i \in [write : Addrs, oldest : Addrs, newest : Addrs, newest_seq : Seqs, count : Int]
      BY DEF Indexes
    <3>2. i.count - removed = Cardinality(V \ S) /\ i.count - removed \in Int
      BY <1>1, <1>2
    <3> HIDE DEF V, S, removed
    <3> QED BY <3>1, <3>2 DEF Indexes
  <2> HIDE DEF V, S, removed, left
  <2>4. CASE i.oldest \notin S
    <3>1. Invalidate(f, i, s) = left
      BY <1>6, <2>4, Zenon DEF Invalidate, V, S, removed, left
    <3>2. Points(left, V \ S)
      BY <2>2, <2>3, <2>4 DEF Points
    <3> QED BY <3>1, <3>2 DEF V, S
  <2>5. CASE i.oldest \in S
    <3> DEFINE e == WrapAddress(s + SectorSize)
               o == FirstFrom(f, e)
    <3>1. V # {} /\ e \in Addrs /\ SectorEnd(s) = s + SectorSize /\ SectorEnd(s) <= EndAddr
      BY <2>1, NextSectorOfStart, SectorStartEnd, SectorEndType
    <3>2. Invalidate(f, i, s) = [left EXCEPT !.oldest = o]
      BY <1>6, <2>5, <3>1, Zenon DEF Invalidate, V, S, removed, left
    <3>3. o \in V /\ RingDist(e, o) <= RingDist(e, b)
      BY <2>1, <3>1, FirstFromFacts DEF V
    <3>4. e = IF s + SectorSize >= EndAddr THEN StartAddr ELSE s + SectorSize
      BY DEF WrapAddress
    <3> HIDE DEF e, o
    <3>5. o \in Addrs /\ b \in Addrs
      BY <1>3, <2>1, <3>3
    <3>6. s + SectorSize <= EndAddr /\ ~ (s <= b /\ b < s + SectorSize) /\ s \in Addrs
      BY <2>1, <3>1, <3>5, ConfigAssumption DEF S, Span, Addrs
    <3>7. ~ (s <= o /\ o < s + SectorSize)
      BY <3>3, <3>4, <3>5, <3>6, ConfigAssumption DEF RingDist, AreaSize, Addrs
    <3>8. o \in V \ S
      BY <3>3, <3>5, <3>7, ConfigAssumption DEF S, Span, Addrs
    <3>9. Points([left EXCEPT !.oldest = o], V \ S)
      BY <2>3, <3>8 DEF Points, Indexes
    <3> QED BY <3>2, <3>9 DEF V, S
  <2> QED BY <2>4, <2>5
<1> QED BY <1>4, <1>5, <1>6

LEMMA RebuildPoints ==
    ASSUME TInv', idx' = Rebuild(flash'), pc' = "idle"
    PROVE  PointInv'
<1>1. flash' \in Images /\ OneWindow(flash')
  BY WindowIsHalf, HalfOfLess DEF TInv, TypeOK, NumbersInv
<1>2. IndexDescribesFlash'
  BY <1>1, RebuildType DEF IndexDescribesFlash
<1> QED BY <1>2 DEF PointInv

\* The erase command takes away the frames of its sector and no other.
LEMMA ErasedValid ==
    ASSUME NEW f \in Images, CellsWellPlaced(f), NEW s \in Addrs, IsSectorStart(s)
    PROVE  ValidAddrs(EraseCells(f, s)) = ValidAddrs(f) \ Span(s, SectorSize)
<1> DEFINE g == EraseCells(f, s)
<1>1. /\ g \in Images /\ Fewer(f, g)
      /\ \A a \in ValidAddrs(f) : a \notin Span(s, SectorSize) => ValidFrameAt(g, a)
  BY EraseFacts
<1>2. ASSUME NEW a \in ValidAddrs(g), a \in Span(s, SectorSize)
      PROVE  FALSE
  <2>1. g[a] \in Cells /\ a \in Addrs
    BY <1>1, <1>2, ValidFacts
  <2>2. g[a] = Erased
    BY <1>2, <2>1 DEF EraseCells
  <2> QED BY <2>1, <2>2, CellAssumption
<1>3. ValidAddrs(g) \subseteq ValidAddrs(f)
  BY <1>1, FewerFacts
<1>4. ValidAddrs(f) \ Span(s, SectorSize) \subseteq ValidAddrs(g)
  BY <1>1 DEF ValidAddrs
<1> QED BY <1>2, <1>3, <1>4

LEMMA AppendStartPoints ==
    ASSUME TInv, PointInv, NEW len \in FrameSizes, NEW seq \in Seqs, AppendStart(len, seq)
    PROVE  PointInv'
<1> DEFINE start == FrameStart(idx.write, len)
<1>0. /\ pc = "idle" /\ flash' = flash /\ busy' = busy
      /\ job' = [seq |-> seq, len |-> len, start |-> start, pos |-> start]
      /\ IF IsSectorStart(start)
         THEN pc' = "erase" /\ idx' = Invalidate(flash, idx, start)
         ELSE pc' = "program" /\ idx' = idx
  BY DEF AppendStart
<1>1. idx \in Indexes /\ flash \in Images /\ start \in Addrs
  BY FrameStartFits DEF TInv, TypeOK, Indexes
<1>2. ~ busy => Points(idx, ValidAddrs(flash))
  BY <1>0 DEF PointInv, IndexDescribesFlash, Points
<1> HIDE DEF start
<1>3. job'.start = start /\ job'.pos = start
  BY <1>0
<1>4. IsSectorStart(start) /\ ~ busy =>
        Points(idx', ValidAddrs(flash) \ Span(start, SectorSize))
  BY <1>0, <1>1, <1>2, InvalidateCounts
<1> QED BY <1>0, <1>2, <1>3, <1>4 DEF PointInv, IndexDescribesFlash

LEMMA EraseSectorPoints == ASSUME TInv, PointInv, EraseSector PROVE PointInv'
<1>1. /\ pc = "erase" /\ pc' = "program" /\ flash' = EraseCells(flash, job.start)
      /\ idx' = idx /\ job' = job /\ busy' = busy
  BY DEF EraseSector
<1>2. /\ flash \in Images /\ CellsWellPlaced(flash) /\ job.start \in Addrs
      /\ IsSectorStart(job.start) /\ job.pos = job.start
  BY <1>1 DEF TInv, TypeOK
<1>3. ValidAddrs(flash') = ValidAddrs(flash) \ Span(job.start, SectorSize)
  BY <1>1, <1>2, ErasedValid
<1> QED BY <1>1, <1>2, <1>3 DEF PointInv, IndexDescribesFlash

\* A chunk that went onto erased cells has touched no other frame.
LEMMA ChunkKeepsOthers ==
    ASSUME TInv, ProgramChunk, Whole(flash', job')
    PROVE  /\ Whole(flash, job) /\ job'.pos # job'.start /\ job'.start = job.start
           /\ ValidAddrs(flash') \ {job.start} =
                IF job.pos = job.start THEN ValidAddrs(flash)
                ELSE ValidAddrs(flash) \ {job.start}
<1>0. /\ pc = "program" /\ flash' = ProgramCells(flash, job, job.start, job.pos, Chunk)
      /\ job' = [job EXCEPT !.pos = job.pos + Chunk]
  BY DEF ProgramChunk
<1>1. /\ ProgramBase(flash, job, Chunk) /\ job \in Jobs /\ flash \in Images
      /\ job.start \in Nat /\ job.pos \in Nat /\ Chunk \in Nat \ {0}
      /\ job.start <= job.pos /\ job.start \in Addrs /\ job.len \in FrameSizes
      /\ job.pos + Chunk <= SectorEnd(job.start) /\ SectorEnd(job.start) <= EndAddr
      /\ job.seq \in Seqs /\ SectorEnd(job.start) \in Nat
  <2>1. ProgramBase(flash, job, Chunk) /\ job \in Jobs
    BY <1>0, ChunkBase DEF TInv, TypeOK, Jobs
  <2>2. FrameSizes \subseteq Nat
    BY FrameAssumption, ConfigAssumption
  <2>3. job.len \in Nat /\ job.start \in Nat /\ job.start + job.len <= SectorEnd(job.start)
        /\ SectorEnd(job.start) \in Nat /\ SectorEnd(job.start) <= EndAddr
    BY <2>1, <2>2, SectorEndType, ImageFacts DEF ProgramBase
  <2> QED BY <2>1, <2>3 DEF ProgramBase
<1>2. /\ job'.start = job.start /\ job'.pos = job.pos + Chunk
      /\ job'.seq = job.seq /\ job'.len = job.len
  BY <1>0, <1>1 DEF Jobs
<1>3. ASSUME NEW x \in Nat, job.start <= x, x < job.pos + Chunk
      PROVE  /\ x \in Addrs
             /\ flash'[x] = [seq |-> job.seq, len |-> job.len, off |-> x - job.start]
             /\ flash'[x] # Junk
  <2>1. x \in Addrs
    BY <1>1, <1>3, ConfigAssumption DEF Addrs
  <2>2. x \in Span(job'.start, job'.pos - job'.start)
    BY <1>1, <1>2, <1>3 DEF Span
  <2>3. flash'[x] = [seq |-> job.seq, len |-> job.len, off |-> x - job.start]
    BY <1>2, <2>2 DEF Whole
  <2>4. x - job.start \in 0 .. SectorSize - 1
    <3>1. x < SectorEnd(job.start) /\ SectorEnd(job.start) - SectorSize <= job.start
      BY <1>1, <1>3, SectorEndType
    <3> QED BY <1>1, <1>3, <3>1, SectorEndType, ConfigAssumption
  <2>5. flash'[x] \in Cells
    BY <1>1, <2>3, <2>4 DEF Cells
  <2> QED BY <2>1, <2>3, <2>5, CellAssumption
<1>4. ASSUME NEW x \in Addrs, x \in Span(job.pos, Chunk)
      PROVE  flash[x] = Erased
  <2>1. x \in Nat /\ job.start <= x /\ x < job.pos + Chunk
    BY <1>1, <1>4 DEF Span
  <2>2. flash'[x] # Junk
    BY <1>3, <2>1
  <2> QED BY <1>0, <1>4, <2>2 DEF ProgramCells
<1>5. Whole(flash, job)
  <2> SUFFICES ASSUME NEW x \in Span(job.start, job.pos - job.start)
               PROVE  flash[x] = [seq |-> job.seq, len |-> job.len, off |-> x - job.start]
    BY DEF Whole
  <2>1. x \in Nat /\ job.start <= x /\ x < job.pos
    BY <1>1 DEF Span
  <2>2. x \in Addrs /\ flash'[x] = [seq |-> job.seq, len |-> job.len, off |-> x - job.start]
    BY <1>1, <1>3, <2>1
  <2>3. x \notin Span(job.pos, Chunk)
    BY <1>1, <2>1 DEF Span
  <2> QED BY <1>0, <2>2, <2>3 DEF ProgramCells
<1>6. ASSUME NEW a \in ValidAddrs(flash)
      PROVE  ValidFrameAt(flash', a) /\ a \in Addrs
  <2>1. \A x \in Span(a, flash[a].len) : x \in Addrs /\ flash[x] \in Cells
    BY <1>1, ValidFacts
  <2>2. \A x \in Span(a, flash[a].len) : flash'[x] = flash[x]
    BY <1>0, <1>4, <2>1, CellAssumption DEF ProgramCells
  <2> QED BY <1>1, <1>6, <2>2, ValidStays, ValidFacts
<1>7. \A a \in ValidAddrs(flash') \ {job.start} : a \in ValidAddrs(flash)
  BY <1>0, <1>1, ProgramBaseFacts DEF ValidAddrs
<1>8. job.pos = job.start => job.start \notin ValidAddrs(flash)
  <2>1. job.pos = job.start => job.start \in Span(job.pos, Chunk)
    BY <1>1 DEF Span
  <2> QED BY <1>1, <1>4, <2>1, ValidFacts, CellAssumption
<1>9. ValidAddrs(flash) \subseteq ValidAddrs(flash')
  BY <1>6 DEF ValidAddrs
<1> QED BY <1>1, <1>2, <1>5, <1>7, <1>8, <1>9

LEMMA ProgramChunkPoints == ASSUME TInv, PointInv, ProgramChunk PROVE PointInv'
<1>1. /\ pc = "program" /\ pc' \in {"program", "commit"} /\ idx' = idx /\ busy' = busy
      /\ flash' = ProgramCells(flash, job, job.start, job.pos, Chunk)
      /\ job' = [job EXCEPT !.pos = job.pos + Chunk]
  BY DEF ProgramChunk
<1>2. ProgramBase(flash, job, Chunk) /\ job \in Jobs
  BY <1>1, ChunkBase DEF TInv, TypeOK, Jobs
<1>3. job'.start = job.start /\ job'.seq = job.seq /\ job'.len = job.len
  BY <1>1, <1>2 DEF Jobs
<1>4. ValidFrameAt(flash', job.start) =>
        flash'[job.start].seq = job.seq /\ flash'[job.start].len = job.len
  BY <1>1, <1>2, ProgramBaseFacts
<1>5. ~ busy /\ Whole(flash', job') =>
        Points(idx, IF job'.pos = job'.start THEN ValidAddrs(flash')
                    ELSE ValidAddrs(flash') \ {job'.start})
  BY <1>1, ChunkKeepsOthers DEF PointInv
<1> QED BY <1>1, <1>3, <1>4, <1>5 DEF PointInv, IndexDescribesFlash

LEMMA CommitPoints == ASSUME TInv, TInv', PointInv, Commit PROVE PointInv'
<1>1. pc = "commit" /\ pc' = "idle" /\ flash' = flash /\ busy' = busy
  BY DEF Commit
<1>2. CASE ~ ValidFrameAt(flash, job.start)
  BY <1>1, <1>2, RebuildPoints DEF Commit
<1>3. CASE ValidFrameAt(flash, job.start)
  <2> DEFINE V == ValidAddrs(flash)
  <2>1. /\ idx'.count = idx.count + 1 /\ idx'.newest = job.start
        /\ idx'.newest_seq = flash[job.start].seq
        /\ idx'.oldest = IF idx.count = 0 THEN job.start ELSE idx.oldest
    BY <1>3 DEF Commit, IndexAfterAppend
  <2>2. /\ job.start \in V /\ flash[job.start].seq = job.seq /\ flash[job.start].len = job.len
        /\ job.pos = job.start + job.len /\ job.start \in Nat /\ job.len \in Nat \ {0}
    <3>1. FrameSizes \subseteq Nat \ {0}
      BY FrameAssumption, ConfigAssumption
    <3>2. /\ job.start \in Addrs /\ job.len \in FrameSizes /\ job.pos = job.start + job.len
          /\ flash \in Images
      BY <1>1 DEF TInv, TypeOK
    <3>3. flash[job.start].seq = job.seq /\ flash[job.start].len = job.len
      BY <1>1, <1>3 DEF PointInv
    <3>4. job.start \in V
      BY <1>3, <3>2 DEF ValidAddrs
    <3>5. job.start \in Nat /\ job.len \in Nat \ {0}
      BY <3>1, <3>2, ImageFacts
    <3> HIDE DEF V
    <3> QED BY <3>2, <3>3, <3>4, <3>5
  <2>3. Whole(flash, job) /\ job.pos # job.start
    <3>1. job.pos - job.start = job.len /\ job.pos # job.start
      BY <2>2
    <3> QED BY <1>3, <2>2, <3>1 DEF Whole, ValidFrameAt
  <2>4. IsFiniteSet(V) /\ IsFiniteSet(V \ {job.start})
        /\ Cardinality(V) \in Nat /\ Cardinality(V \ {job.start}) = Cardinality(V) - 1
    BY <2>2, ValidFinite, FS_RemoveElement
  <2> HIDE DEF V
  <2>5. ASSUME ~ busy
        PROVE  idx'.count = Cardinality(V) /\ idx'.oldest \in V
    <3>1. Points(idx, V \ {job.start})
      BY <1>1, <2>3, <2>5 DEF PointInv, V
    <3>2. idx'.count = Cardinality(V)
      BY <2>1, <2>4, <3>1 DEF Points
    <3>3. CASE idx.count = 0
      BY <2>1, <2>2, <3>2, <3>3
    <3>4. CASE idx.count # 0
      <4>1. V \ {job.start} # {}
        BY <3>1, <3>4, FS_EmptySet DEF Points
      <4> QED BY <2>1, <3>1, <3>2, <3>4, <4>1 DEF Points
    <3> QED BY <3>3, <3>4
  <2>6. IndexDescribesFlash'
    BY <1>1, <2>1, <2>2, <2>5 DEF IndexDescribesFlash, V
  <2> QED BY <1>1, <2>6 DEF PointInv
<1> QED BY <1>2, <1>3

LEMMA WipeSectorPoints == ASSUME TInv, WipeSector PROVE PointInv'
<1>1. CASE job.pos + SectorSize < EndAddr
  BY <1>1 DEF WipeSector, PointInv, IndexDescribesFlash
<1>2. CASE ~ (job.pos + SectorSize < EndAddr)
  <2>1. idx' = EmptyIndex(StartAddr) /\ pc' = "idle"
    BY <1>2 DEF WipeSector
  <2>2. ValidAddrs(flash') = {}
    BY <1>2, WipeLeaves
  <2> QED BY <2>1, <2>2, FS_EmptySet DEF PointInv, IndexDescribesFlash, EmptyIndex
<1> QED BY <1>1, <1>2

LEMMA PointNext == ASSUME TInv, PointInv, [Next]_vars PROVE PointInv'
<1>0. TInv'
  BY TypedNext
<1>1. CASE Boot          BY <1>0, <1>1, RebuildPoints DEF Boot
<1>2. CASE AppendFrame   BY <1>2, AppendIsStart, AppendStartPoints DEF TInv
<1>3. CASE EraseSector   BY <1>3, EraseSectorPoints
<1>4. CASE ProgramChunk  BY <1>4, ProgramChunkPoints
<1>5. CASE Commit        BY <1>0, <1>5, CommitPoints
<1>6. CASE AppendFails   BY <1>0, <1>6, RebuildPoints DEF AppendFails
<1>7. CASE EraseAllStart BY <1>7 DEF EraseAllStart, PointInv, IndexDescribesFlash
<1>8. CASE WipeSector    BY <1>8, WipeSectorPoints
<1>9. CASE WipeFails
  BY <1>9 DEF WipeFails, TInv, WipedInv, PointInv, IndexDescribesFlash
<1>10. CASE SetNextSeq
  BY <1>10 DEF SetNextSeq, PointInv, IndexDescribesFlash
<1>11. CASE Crash        BY <1>11 DEF Crash, PointInv, IndexDescribesFlash
<1>12. CASE UNCHANGED vars
  BY <1>12 DEF vars, PointInv, IndexDescribesFlash
<1> QED
  BY <1>1, <1>2, <1>3, <1>4, <1>5, <1>6, <1>7, <1>8, <1>9, <1>10, <1>11, <1>12 DEF Next

\* Between operations the index in RAM counts the intact frames of the flash and
\* both its ends are intact frames, after any appends in whatever order of numbers,
\* any failed or torn flash commands and any resets (but for a failed eraseLogArea).
THEOREM IndexDescribes == Spec => []IndexDescribesFlash
<1>1. Init => PointInv
  BY DEF Init, PointInv, IndexDescribesFlash
<1>2. TInv /\ PointInv /\ [Next]_vars => TInv' /\ PointInv'
  BY TypedNext, PointNext
<1>3. PointInv => IndexDescribesFlash
  BY DEF PointInv
<1> QED BY <1>1, <1>2, <1>3, InitTyped, PTL DEF Spec

-----------------------------------------------------------------------------
(* Index and order, step by step.                                          *)

\* The frames lie in order of age from the sector that is erased next on.
OrderInv ==
    /\ pc = "off" => \E e \in Addrs : IsSectorStart(e) /\ RingSorted(flash, e)
    /\ pc \in {"idle", "wipe"} => RingSorted(flash, CutAt(idx.write))
    /\ pc = "erase" => RingSorted(flash, job.start)
    /\ pc \in {"program", "commit"} => RingSorted(flash, WrapAddress(SectorEnd(job.start)))

\* The frames that the index describes: not those about to be erased, and not yet
\* the one that is being written.
Described ==
    CASE pc = "idle"  -> ValidAddrs(flash)
      [] pc = "erase" -> ValidAddrs(flash) \ Span(job.start, SectorSize)
      [] OTHER        -> ValidAddrs(flash) \ {job.start}

\* The index is true but for a failed eraseLogArea, which leaves it as it was.
IndexInv ==
    pc \in {"idle", "erase", "program", "commit"} /\ ~ busy => IndexOf(idx, flash, Described)

\* The frame being written is the newest; eraseLogArea works from the start on.
NewestInv ==
    /\ pc \in {"program", "commit"} =>
         \A a \in ValidAddrs(flash) \ {job.start} : IsSeqNewer(job.seq, flash[a].seq)
    /\ pc = "commit" /\ ValidFrameAt(flash, job.start) => flash[job.start].seq = job.seq
    /\ pc = "wipe" => busy /\ \A a \in ValidAddrs(flash) : job.pos <= a

RingIndexInv == IInv /\ OrderInv /\ IndexInv /\ NewestInv

LEMMA CutFacts ==
    ASSUME NEW w \in Addrs
    PROVE  CutAt(w) \in Addrs /\ IsSectorStart(CutAt(w))
  BY NextSectorType DEF CutAt

LEMMA IndexOfSame ==
    ASSUME NEW i, NEW f, NEW g, NEW V, \A a \in V : g[a] = f[a], IndexOf(i, f, V)
    PROVE  IndexOf(i, g, V)
  BY DEF IndexOf

\* A rebuilt index is true, and the ring begins behind the newest frame.
LEMMA RebuildStep ==
    ASSUME IInv', NEW e \in Addrs, IsSectorStart(e), RingSorted(flash', e),
           ~ RebuildSkips(flash'), idx' = Rebuild(flash'), pc' = "idle"
    PROVE  OrderInv' /\ IndexInv' /\ NewestInv'
<1>1. flash' \in Images /\ CellsWellPlaced(flash') /\ OneWindow(flash')
  BY DEF IInv, TypeOK, FlashInv
<1>2. IndexOf(Rebuild(flash'), flash', ValidAddrs(flash'))
      /\ RingSorted(flash', CutAt(Rebuild(flash').write))
  BY <1>1, RebuildIsTrue
<1> QED
  BY <1>2 DEF OrderInv, IndexInv, NewestInv, Described

LEMMA ProgramRing ==
    ASSUME NEW f, NEW j, NEW n, ProgramStep(f, j, n), InSeqWindow(f, j.seq),
           RingSorted(f, WrapAddress(SectorEnd(j.start))),
           NEW g \in TornPrograms(f, j, j.start, j.pos, n)
    PROVE  RingSorted(g, WrapAddress(SectorEnd(j.start)))
<1>1. f \in Images /\ j.start \in Addrs /\ j.seq \in Seqs /\ ClearFrom(f, j.start)
  BY DEF ProgramStep, ProgramBase
<1>2. CASE g = ProgramCells(f, j, j.start, j.pos, n)
  <2>1. /\ g \in Images
        /\ \A a \in Addrs : a # j.start /\ ValidFrameAt(g, a) =>
             ValidFrameAt(f, a) /\ g[a] = f[a]
        /\ ValidFrameAt(g, j.start) => g[j.start].seq = j.seq
    BY <1>2, ProgramFacts
  <2> QED
    BY <1>1, <2>1, RingGrows
<1>3. CASE \E T \in SUBSET Span(j.pos, n) : g = Smash(f, T, Junk)
  <2>1. Fewer(f, g)
    BY <1>1, <1>3, SmashFacts
  <2> QED
    BY <2>1, FewerRing
<1> QED
  BY <1>2, <1>3 DEF TornPrograms

LEMMA BootRing == ASSUME RingIndexInv, IInv', Boot, ~ RebuildSkips(flash')
                  PROVE  OrderInv' /\ IndexInv' /\ NewestInv'
<1>1. PICK e \in Addrs : IsSectorStart(e) /\ RingSorted(flash, e)
  BY DEF Boot, RingIndexInv, OrderInv
<1>2. flash' = flash /\ idx' = Rebuild(flash') /\ pc' = "idle"
  BY DEF Boot
<1>3. RingSorted(flash', e)
  BY <1>1, <1>2
<1> QED
  BY <1>1, <1>2, <1>3, RebuildStep

LEMMA AppendFailsRing == ASSUME RingIndexInv, IInv', AppendFails, ~ RebuildSkips(flash')
                         PROVE  OrderInv' /\ IndexInv' /\ NewestInv'
<1>1. \E e \in Addrs : IsSectorStart(e) /\ RingSorted(flash', e)
  <2>1. CASE pc = "erase" /\ flash' \in TornErases(flash, job.start)
    <3>1. job.start \in Addrs /\ IsSectorStart(job.start) /\ flash \in Images
          /\ RingSorted(flash, job.start)
      BY <2>1 DEF RingIndexInv, IInv, TypeOK, OrderInv
    <3>2. Fewer(flash, flash')
      BY <2>1, <3>1, TornEraseFacts DEF RingIndexInv, IInv, FlashInv
    <3> QED
      BY <3>1, <3>2, FewerRing
  <2>2. CASE pc = "program" /\ flash' \in TornPrograms(flash, job, job.start, job.pos, Chunk)
    <3>1. ProgramStep(flash, job, Chunk) /\ InSeqWindow(flash, job.seq)
      BY <2>2, ChunkFacts DEF RingIndexInv
    <3>2. RingSorted(flash', WrapAddress(SectorEnd(job.start)))
      BY <2>2, <3>1, ProgramRing DEF RingIndexInv, OrderInv
    <3>3. job.start \in Addrs
      BY <3>1 DEF ProgramStep, ProgramBase
    <3> QED
      BY <3>2, <3>3, NextSectorType
  <2> QED
    BY <2>1, <2>2 DEF AppendFails
<1>2. idx' = Rebuild(flash') /\ pc' = "idle"
  BY DEF AppendFails
<1> QED
  BY <1>1, <1>2, RebuildStep

LEMMA AppendStartRing ==
    ASSUME RingIndexInv, IInv', NEW len \in FrameSizes, NEW seq \in Seqs,
           AppendStart(len, seq), InSeqWindow(flash, seq)
    PROVE  OrderInv' /\ IndexInv' /\ NewestInv'
<1> DEFINE start == FrameStart(idx.write, len)
<1>0. /\ pc = "idle" /\ flash' = flash /\ busy' = busy
      /\ job' = [seq |-> seq, len |-> len, start |-> start, pos |-> start]
      /\ IF IsSectorStart(start)
         THEN pc' = "erase" /\ idx' = Invalidate(flash, idx, start)
         ELSE pc' = "program" /\ idx' = idx
  BY DEF AppendStart
<1>1. /\ idx \in Indexes /\ idx.write \in Addrs /\ flash \in Images
      /\ CellsWellPlaced(flash)
  BY DEF RingIndexInv, IInv, TypeOK, Indexes, FlashInv
<1>2. RingSorted(flash, CutAt(idx.write)) /\ (~ busy => IndexOf(idx, flash, ValidAddrs(flash)))
  BY <1>0 DEF RingIndexInv, OrderInv, IndexInv, Described
<1>3. start \in Addrs /\ (IF IsSectorStart(start) THEN start = CutAt(idx.write)
                          ELSE start = idx.write)
  <2>1. CASE idx.write + len > SectorEnd(idx.write)
    <3>1. start = WrapAddress(SectorEnd(idx.write))
      BY <2>1 DEF FrameStart
    <3>2. ~ IsSectorStart(idx.write)
      <4>1. len \in 1 .. SectorSize /\ idx.write \in Nat
        BY <1>1, FrameAssumption, ImageFacts
      <4> QED
        BY <1>1, <2>1, <4>1, SectorStartEnd, ConfigAssumption
    <3> QED
      BY <1>1, <3>1, <3>2, NextSectorType DEF CutAt
  <2>2. CASE ~ (idx.write + len > SectorEnd(idx.write))
    <3>1. start = idx.write
      BY <2>2 DEF FrameStart
    <3> QED
      BY <1>1, <3>1 DEF CutAt
  <2> QED
    BY <2>1, <2>2
<1> HIDE DEF start
<1>4. job'.start = start /\ job'.seq = seq
  BY <1>0
<1>5. CASE IsSectorStart(start)
  <2>1. pc' = "erase" /\ idx' = Invalidate(flash, idx, start)
    BY <1>0, <1>5
  <2>2. ~ busy => IndexOf(idx', flash, ValidAddrs(flash) \ Span(start, SectorSize))
    BY <1>1, <1>2, <1>3, <1>5, <2>1, InvalidateIsTrue
  <2> QED
    BY <1>0, <1>2, <1>3, <1>4, <1>5, <2>1, <2>2 DEF OrderInv, IndexInv, NewestInv, Described
<1>6. CASE ~ IsSectorStart(start)
  <2>1. pc' = "program" /\ idx' = idx /\ start = idx.write
    BY <1>0, <1>3, <1>6
  <2>2. CutAt(idx.write) = WrapAddress(SectorEnd(start))
    BY <1>6, <2>1 DEF CutAt
  <2>3. start \notin ValidAddrs(flash)
    <3>1. ClearFrom(flash, start)
      BY <1>0, <1>6, <2>1 DEF RingIndexInv, IInv, WriteInv
    <3>2. \A a \in ValidAddrs(flash) : a \in Nat /\ flash[a].len \in Nat \ {0}
      BY <1>1, ValidFacts, ImageFacts
    <3> QED
      BY <3>1, <3>2 DEF ClearFrom
  <2>4. ValidAddrs(flash) \ {start} = ValidAddrs(flash)
    BY <2>3
  <2> QED
    BY <1>0, <1>2, <1>4, <2>1, <2>2, <2>4
       DEF OrderInv, IndexInv, NewestInv, Described, InSeqWindow
<1> QED
  BY <1>5, <1>6

LEMMA EraseSectorRing == ASSUME RingIndexInv, IInv', EraseSector
                         PROVE  OrderInv' /\ IndexInv' /\ NewestInv'
<1>0. /\ pc = "erase" /\ pc' = "program" /\ flash' = EraseCells(flash, job.start)
      /\ idx' = idx /\ job' = job /\ busy' = busy
  BY DEF EraseSector
<1>1. /\ flash \in Images /\ job.start \in Addrs /\ IsSectorStart(job.start)
      /\ CellsWellPlaced(flash) /\ RingSorted(flash, job.start)
      /\ InSeqWindow(flash, job.seq) /\ flash' \in Images
      /\ ~ busy => IndexOf(idx, flash, ValidAddrs(flash) \ Span(job.start, SectorSize))
  BY <1>0 DEF RingIndexInv, IInv, TypeOK, FlashInv, AppendInv, OrderInv, IndexInv, Described
<1>2. Fewer(flash, flash')
  BY <1>0, <1>1, EraseFacts
<1>3. ValidAddrs(flash') = ValidAddrs(flash) \ Span(job.start, SectorSize)
  BY <1>0, <1>1, ErasedValid
<1>4. job.start \in Span(job.start, SectorSize)
  BY <1>1, ConfigAssumption DEF Span, Addrs
<1>5. ValidAddrs(flash') \cap Span(job.start, SectorSize) = {}
  BY <1>3
<1>6. ValidAddrs(flash') \ {job.start} = ValidAddrs(flash')
  BY <1>3, <1>4
<1>7. \A a \in ValidAddrs(flash') : flash'[a] = flash[a]
  BY <1>2, FewerFacts
<1>8. ~ busy => IndexOf(idx, flash', ValidAddrs(flash') \ {job.start})
  BY <1>1, <1>3, <1>6, <1>7, IndexOfSame
<1>9. RingSorted(flash', WrapAddress(SectorEnd(job.start)))
  <2>1. RingSorted(flash', job.start)
    BY <1>1, <1>2, FewerRing
  <2> QED
    BY <1>1, <1>5, <2>1, RingSkips
<1>10. \A a \in ValidAddrs(flash') : IsSeqNewer(job.seq, flash'[a].seq)
  BY <1>1, <1>3, <1>7 DEF InSeqWindow
<1> QED
  BY <1>0, <1>8, <1>9, <1>10 DEF OrderInv, IndexInv, NewestInv, Described

LEMMA ProgramChunkRing == ASSUME RingIndexInv, IInv', ProgramChunk
                          PROVE  OrderInv' /\ IndexInv' /\ NewestInv'
<1>0. /\ pc = "program" /\ flash' = ProgramCells(flash, job, job.start, job.pos, Chunk)
      /\ job' = [job EXCEPT !.pos = job.pos + Chunk]
      /\ pc' \in {"program", "commit"} /\ idx' = idx /\ busy' = busy
  BY DEF ProgramChunk
<1>1. /\ ProgramStep(flash, job, Chunk) /\ InSeqWindow(flash, job.seq)
      /\ RingSorted(flash, WrapAddress(SectorEnd(job.start))) /\ job \in Jobs
      /\ ~ busy => IndexOf(idx, flash, ValidAddrs(flash) \ {job.start})
  BY <1>0, ChunkFacts DEF RingIndexInv, OrderInv, IndexInv, Described, IInv, TypeOK, Jobs
<1>2. job'.start = job.start /\ job'.seq = job.seq
  BY <1>0, <1>1 DEF Jobs
<1>3. /\ \A a \in Addrs : a # job.start /\ ValidFrameAt(flash', a) =>
           ValidFrameAt(flash, a) /\ flash'[a] = flash[a]
      /\ \A a \in ValidAddrs(flash) : ValidFrameAt(flash', a) /\ flash'[a] = flash[a]
      /\ ValidFrameAt(flash', job.start) => flash'[job.start].seq = job.seq
  BY <1>0, <1>1, ProgramFacts
<1>4. ValidAddrs(flash') \ {job.start} = ValidAddrs(flash) \ {job.start}
      /\ \A a \in ValidAddrs(flash) \ {job.start} : flash'[a] = flash[a]
  BY <1>3 DEF ValidAddrs
<1>5. ~ busy => IndexOf(idx, flash', ValidAddrs(flash') \ {job.start})
  BY <1>1, <1>4, IndexOfSame
<1>6. RingSorted(flash', WrapAddress(SectorEnd(job.start)))
  BY <1>0, <1>1, ProgramRing DEF TornPrograms
<1>7. \A a \in ValidAddrs(flash') \ {job.start} : IsSeqNewer(job.seq, flash'[a].seq)
  BY <1>1, <1>4 DEF InSeqWindow
<1> QED
  BY <1>0, <1>2, <1>3, <1>5, <1>6, <1>7 DEF OrderInv, IndexInv, NewestInv, Described

LEMMA CommitRing ==
    ASSUME RingIndexInv, IInv', Commit,
           ~ ValidFrameAt(flash, job.start) => ~ RebuildSkips(flash')
    PROVE  OrderInv' /\ IndexInv' /\ NewestInv'
<1>0. pc = "commit" /\ pc' = "idle" /\ flash' = flash /\ busy' = busy
  BY DEF Commit
<1>1. /\ flash \in Images /\ idx \in Indexes /\ job.start \in Addrs /\ job.len \in FrameSizes
      /\ job.pos = job.start + job.len /\ job.start + job.len <= SectorEnd(job.start)
      /\ RingSorted(flash, WrapAddress(SectorEnd(job.start)))
      /\ ~ busy => IndexOf(idx, flash, ValidAddrs(flash) \ {job.start})
      /\ \A a \in ValidAddrs(flash) \ {job.start} : IsSeqNewer(job.seq, flash[a].seq)
  BY <1>0 DEF RingIndexInv, IInv, TypeOK, OrderInv, IndexInv, NewestInv, Described
<1>2. CASE ~ ValidFrameAt(flash, job.start)
  <2>1. idx' = Rebuild(flash')
    BY <1>0, <1>2 DEF Commit
  <2>2. WrapAddress(SectorEnd(job.start)) \in Addrs
        /\ IsSectorStart(WrapAddress(SectorEnd(job.start)))
    BY <1>1, NextSectorType
  <2>3. RingSorted(flash', WrapAddress(SectorEnd(job.start)))
    BY <1>0, <1>1
  <2> QED
    BY <1>0, <1>2, <2>1, <2>2, <2>3, RebuildStep
<1>3. CASE ValidFrameAt(flash, job.start)
  <2> DEFINE w == WrapAddress(job.pos)
             V == ValidAddrs(flash)
  <2>1. idx' = IndexAfterAppend(idx, job.start, flash[job.start].seq, w)
    BY <1>3 DEF Commit
  <2>2. flash[job.start].seq = job.seq /\ job.start \in V
    BY <1>0, <1>1, <1>3 DEF RingIndexInv, NewestInv, ValidAddrs
  <2>3. /\ SectorEnd(job.start) \in Nat /\ SectorEnd(job.start) <= EndAddr
        /\ SectorEnd(job.start) - SectorSize <= job.start /\ IsSectorStart(SectorEnd(job.start))
        /\ job.start \in Nat /\ StartAddr <= job.start /\ job.len \in Nat \ {0}
    <3>1. FrameSizes \subseteq Nat \ {0}
      BY FrameAssumption, ConfigAssumption
    <3> QED
      BY <1>1, <3>1, SectorEndType, ImageFacts
  <2>4. CutAt(w) = WrapAddress(SectorEnd(job.start))
    <3>1. CASE job.pos = SectorEnd(job.start)
      BY <1>1, <3>1, NextSectorType DEF CutAt
    <3>2. CASE job.pos < SectorEnd(job.start)
      <4>1. job.pos \in Addrs /\ SectorEnd(job.pos) = SectorEnd(job.start)
        BY <1>1, <2>3, <3>2, SameSector, ConfigAssumption
      <4>2. w = job.pos
        BY <1>1, <2>3, <3>2, ConfigAssumption DEF WrapAddress
      <4>3. ~ IsSectorStart(job.pos)
        BY <1>1, <2>3, <3>2, <4>1, SectorStartEnd, ConfigAssumption
      <4> QED
        BY <4>1, <4>2, <4>3 DEF CutAt
    <3> QED
      BY <1>1, <2>3, <3>1, <3>2
  <2>5. /\ idx'.write = w /\ idx'.newest = job.start /\ idx'.newest_seq = job.seq
        /\ idx'.oldest = IF idx.count = 0 THEN job.start ELSE idx.oldest
        /\ idx'.count = idx.count + 1
    BY <2>1, <2>2 DEF IndexAfterAppend
  <2>6. IsFiniteSet(V) /\ IsFiniteSet(V \ {job.start})
        /\ Cardinality(V) \in Nat /\ Cardinality(V \ {job.start}) = Cardinality(V) - 1
    BY <2>2, ValidFinite, FS_RemoveElement
  <2> HIDE DEF V, w
  <2>7. ASSUME ~ busy PROVE IndexOf(idx', flash, V)
    <3>1. IndexOf(idx, flash, V \ {job.start})
      BY <1>1, <2>7 DEF V
    <3>2. idx'.count = Cardinality(V)
      BY <2>5, <2>6, <3>1 DEF IndexOf
    <3>3. \A a \in V \ {job.start} : IsSeqNewer(job.seq, flash[a].seq)
      BY <1>1 DEF V
    <3>4. CASE idx.count = 0
      <4>1. V \ {job.start} = {}
        BY <2>6, <3>1, <3>4, FS_EmptySet DEF IndexOf
      <4> QED
        BY <2>2, <2>5, <3>2, <3>4, <4>1 DEF IndexOf
    <3>5. CASE idx.count # 0
      <4>1. V \ {job.start} # {}
        BY <3>1, <3>5, FS_EmptySet DEF IndexOf
      <4>2. /\ idx.oldest \in V \ {job.start}
            /\ \A a \in (V \ {job.start}) \ {idx.oldest} :
                 IsSeqNewer(flash[a].seq, flash[idx.oldest].seq)
        BY <3>1, <4>1 DEF IndexOf
      <4>3. \A a \in V \ {idx.oldest} : IsSeqNewer(flash[a].seq, flash[idx.oldest].seq)
        BY <2>2, <3>3, <4>2
      <4> QED
        BY <2>2, <2>5, <3>2, <3>3, <3>5, <4>2, <4>3 DEF IndexOf
    <3> QED
      BY <3>4, <3>5
  <2> QED
    BY <1>0, <1>1, <2>4, <2>5, <2>7 DEF OrderInv, IndexInv, NewestInv, Described, V
<1> QED
  BY <1>2, <1>3

LEMMA EraseAllStartRing == ASSUME RingIndexInv, IInv', EraseAllStart
                           PROVE  OrderInv' /\ IndexInv' /\ NewestInv'
<1>1. /\ pc = "idle" /\ pc' = "wipe" /\ busy' = TRUE /\ flash' = flash /\ idx' = idx
      /\ job' = job
  BY DEF EraseAllStart
<1>2. job.pos = StartAddr /\ flash \in Images
  BY <1>1 DEF RingIndexInv, IInv, TypeOK, NoJob
<1>3. \A a \in ValidAddrs(flash) : job.pos <= a
  BY <1>2 DEF ValidAddrs, Addrs
<1> QED
  BY <1>1, <1>3 DEF RingIndexInv, OrderInv, IndexInv, NewestInv

LEMMA WipeSectorRing == ASSUME RingIndexInv, IInv', WipeSector
                        PROVE  OrderInv' /\ IndexInv' /\ NewestInv'
<1>0. pc = "wipe" /\ flash' = EraseCells(flash, job.pos)
  BY DEF WipeSector
<1>1. /\ flash \in Images /\ job \in Jobs /\ job.pos \in Addrs /\ flash' \in Images
      /\ IsSectorStart(job.pos) /\ CellsWellPlaced(flash) /\ busy
      /\ RingSorted(flash, CutAt(idx.write)) /\ \A a \in ValidAddrs(flash) : job.pos <= a
  BY <1>0 DEF RingIndexInv, IInv, TypeOK, FlashInv, OrderInv, NewestInv, Jobs
<1>2. Fewer(flash, flash')
  BY <1>0, <1>1, EraseFacts
<1>3. RingSorted(flash', CutAt(idx.write))
  BY <1>1, <1>2, FewerRing
<1>4. \A a \in ValidAddrs(flash') : job.pos + SectorSize <= a
  <2> TAKE a \in ValidAddrs(flash')
  <2>1. flash'[a] \in Cells /\ a \in Addrs /\ job.pos <= a
    BY <1>1, <1>2, ValidFacts, FewerFacts
  <2>2. a \notin Span(job.pos, SectorSize)
    BY <1>0, <2>1, CellAssumption DEF EraseCells
  <2> QED
    BY <1>1, <2>1, <2>2, ConfigAssumption DEF Span, Addrs
<1>5. CASE job.pos + SectorSize < EndAddr
  <2>1. /\ job' = [job EXCEPT !.pos = job.pos + SectorSize]
        /\ idx' = idx /\ pc' = pc /\ busy' = busy
    BY <1>5 DEF WipeSector
  <2>2. job'.pos = job.pos + SectorSize
    BY <1>1, <2>1 DEF Jobs
  <2> QED
    BY <1>0, <1>1, <1>3, <1>4, <2>1, <2>2 DEF OrderInv, IndexInv, NewestInv
<1>6. CASE ~ (job.pos + SectorSize < EndAddr)
  <2>1. idx' = EmptyIndex(StartAddr) /\ pc' = "idle" /\ busy' = FALSE
    BY <1>6 DEF WipeSector
  <2>2. ValidAddrs(flash') = {}
    BY <1>1, <1>4, <1>6, ConfigAssumption DEF ValidAddrs, Addrs
  <2>3. Cardinality(ValidAddrs(flash')) = 0
    BY <2>2, FS_EmptySet
  <2> QED
    BY <2>1, <2>2, <2>3
       DEF OrderInv, IndexInv, NewestInv, Described, IndexOf, EmptyIndex, RingSorted
<1> QED
  BY <1>5, <1>6

LEMMA WipeFailsRing == ASSUME RingIndexInv, IInv', WipeFails
                       PROVE  OrderInv' /\ IndexInv' /\ NewestInv'
<1>1. /\ pc = "wipe" /\ pc' = "idle" /\ idx' = idx /\ busy' = busy
      /\ flash' \in TornErases(flash, job.pos)
  BY DEF WipeFails
<1>2. /\ flash \in Images /\ job.pos \in Addrs /\ IsSectorStart(job.pos) /\ busy
      /\ RingSorted(flash, CutAt(idx.write))
  BY <1>1 DEF RingIndexInv, IInv, TypeOK, OrderInv, NewestInv
<1>3. Fewer(flash, flash')
  BY <1>1, <1>2, TornEraseFacts DEF RingIndexInv, IInv, FlashInv
<1>4. RingSorted(flash', CutAt(idx.write))
  BY <1>2, <1>3, FewerRing
<1> QED
  BY <1>1, <1>2, <1>4 DEF OrderInv, IndexInv, NewestInv

LEMMA CrashRing == ASSUME RingIndexInv, IInv', Crash
                   PROVE  OrderInv' /\ IndexInv' /\ NewestInv'
<1>0. pc' = "off" /\ pc # "off"
  BY DEF Crash
<1>1. /\ flash \in Images /\ CellsWellPlaced(flash) /\ SectorSorted(flash) /\ OneWindow(flash)
      /\ job.start \in Addrs /\ idx.write \in Addrs
      /\ pc \in {"idle", "erase", "program", "commit", "wipe"}
  BY <1>0 DEF RingIndexInv, IInv, TypeOK, FlashInv, Indexes
<1>2. CutAt(idx.write) \in Addrs /\ IsSectorStart(CutAt(idx.write))
      /\ WrapAddress(SectorEnd(job.start)) \in Addrs
      /\ IsSectorStart(WrapAddress(SectorEnd(job.start)))
  BY <1>1, CutFacts, NextSectorType
<1>3. \E e \in Addrs : IsSectorStart(e) /\ RingSorted(flash', e)
  <2>1. CASE pc = "erase"
    <3>1. flash' \in TornErases(flash, job.start) /\ IsSectorStart(job.start)
          /\ RingSorted(flash, job.start)
      BY <2>1 DEF Crash, RingIndexInv, IInv, TypeOK, OrderInv
    <3>2. Fewer(flash, flash')
      BY <1>1, <3>1, TornEraseFacts
    <3> QED
      BY <1>1, <3>1, <3>2, FewerRing
  <2>2. CASE pc = "program"
    <3>1. flash' \in TornPrograms(flash, job, job.start, job.pos, Chunk)
          /\ RingSorted(flash, WrapAddress(SectorEnd(job.start)))
      BY <2>2 DEF Crash, RingIndexInv, OrderInv
    <3>2. ProgramStep(flash, job, Chunk) /\ InSeqWindow(flash, job.seq)
      BY <2>2, ChunkFacts DEF RingIndexInv
    <3>3. RingSorted(flash', WrapAddress(SectorEnd(job.start)))
      BY <3>1, <3>2, ProgramRing
    <3> QED
      BY <1>2, <3>3
  <2>3. CASE pc = "wipe"
    <3>1. flash' \in TornErases(flash, job.pos) /\ IsSectorStart(job.pos) /\ job.pos \in Addrs
          /\ RingSorted(flash, CutAt(idx.write))
      BY <2>3 DEF Crash, RingIndexInv, IInv, TypeOK, OrderInv
    <3>2. Fewer(flash, flash')
      BY <1>1, <3>1, TornEraseFacts
    <3> QED
      BY <1>2, <3>1, <3>2, FewerRing
  <2>4. CASE pc \in {"idle", "commit"}
    <3>1. flash' = flash
      BY <2>4 DEF Crash
    <3>2. RingSorted(flash, CutAt(idx.write)) \/ RingSorted(flash, WrapAddress(SectorEnd(job.start)))
      BY <2>4 DEF RingIndexInv, OrderInv
    <3> QED
      BY <1>2, <3>1, <3>2
  <2> QED
    BY <1>1, <2>1, <2>2, <2>3, <2>4
<1> QED
  BY <1>0, <1>3 DEF OrderInv, IndexInv, NewestInv

LEMMA SetNextSeqRing == ASSUME RingIndexInv, SetNextSeq
                        PROVE  OrderInv' /\ IndexInv' /\ NewestInv'
  BY DEF SetNextSeq, RingIndexInv, OrderInv, IndexInv, NewestInv, Described

LEMMA NoFramesRing ==
    ASSUME ValidAddrs(flash') = {}, pc' = "idle", idx' = EmptyIndex(StartAddr)
    PROVE  OrderInv' /\ IndexInv' /\ NewestInv'
  BY FS_EmptySet
     DEF OrderInv, IndexInv, NewestInv, Described, IndexOf, EmptyIndex, RingSorted

LEMMA RingIndexInit == Init => RingIndexInv
<1> SUFFICES ASSUME Init PROVE RingIndexInv
  OBVIOUS
<1>1. IInv
  BY InitInv
<1>2. StartAddr \in Addrs /\ IsSectorStart(StartAddr)
  BY NoJobType
<1>3. ValidAddrs(flash) = {}
  BY CellAssumption DEF Init, ValidAddrs, ValidFrameAt
<1>4. RingSorted(flash, StartAddr)
  BY <1>3 DEF RingSorted
<1>5. pc = "off"
  BY DEF Init
<1> QED
  BY <1>1, <1>2, <1>4, <1>5 DEF RingIndexInv, OrderInv, IndexInv, NewestInv

\* A rebuild of the index, at power-on or after a failed append.
Rebuilds == Boot \/ AppendFails \/ (Commit /\ ~ ValidFrameAt(flash, job.start))

\* No rebuild skips a sector because the newest frame fills its own to the last byte.
NoSectorSkipped == [][Rebuilds => ~ RebuildSkips(flash')]_vars

LEMMA RingOrdered ==
    ASSUME TInv, RingIndexInv, IInv', [Next]_vars, [Rebuilds => ~ RebuildSkips(flash')]_vars,
           ~ disordered'
    PROVE  RingIndexInv'
<1>1. CASE UNCHANGED vars
  BY <1>1 DEF vars, RingIndexInv, OrderInv, IndexInv, NewestInv, Described
<1>2. CASE ~ UNCHANGED vars
  <2>1. OrderInv' /\ IndexInv' /\ NewestInv'
    <3>0. Rebuilds => ~ RebuildSkips(flash')
      BY <1>2
    <3>1. CASE Boot
      BY <3>0, <3>1, BootRing DEF Rebuilds
    <3>2. CASE AppendFrame
      BY <3>2, InOrderAppend, AppendStartRing DEF TInv
    <3>3. CASE EraseSector
      BY <3>3, EraseSectorRing
    <3>4. CASE ProgramChunk
      BY <3>4, ProgramChunkRing
    <3>5. CASE Commit
      BY <3>0, <3>5, CommitRing DEF Rebuilds
    <3>6. CASE AppendFails
      BY <3>0, <3>6, AppendFailsRing DEF Rebuilds
    <3>7. CASE EraseAllStart
      BY <3>7, EraseAllStartRing
    <3>8. CASE WipeSector
      BY <3>8, WipeSectorRing
    <3>9. CASE WipeFails
      BY <3>9, WipeFailsRing
    <3>10. CASE SetNextSeq
      BY <3>10, SetNextSeqRing
    <3>11. CASE Crash
      BY <3>11, CrashRing
    <3> QED
      BY <1>2, <3>1, <3>2, <3>3, <3>4, <3>5, <3>6, <3>7, <3>8, <3>9, <3>10, <3>11 DEF Next
  <2> QED
    BY <2>1 DEF RingIndexInv
<1> QED
  BY <1>1, <1>2

LEMMA RingIndexNext ==
    ASSUME Inv, ~ disordered => RingIndexInv, [Next]_vars,
           [Rebuilds => ~ RebuildSkips(flash')]_vars
    PROVE  Inv' /\ (~ disordered' => RingIndexInv')
<1>1. Inv' /\ TypeOK'
  BY NextInv DEF Inv, TInv
<1>2. ASSUME ~ disordered' PROVE RingIndexInv'
  <2>1. IInv'
    BY <1>1, <1>2 DEF Inv
  <2>2. CASE LastWipe
    <3>1. ValidAddrs(flash') = {} /\ pc' = "idle" /\ idx' = EmptyIndex(StartAddr)
      BY <1>1, <2>2, LastWipeInv DEF Inv, LastWipe, WipeSector
    <3> QED BY <2>1, <3>1, NoFramesRing DEF RingIndexInv
  <2>3. CASE ~ LastWipe
    BY <1>2, <2>1, <2>3, OrderKept, RingOrdered DEF Inv
  <2> QED BY <2>2, <2>3
<1> QED BY <1>1, <1>2

\* The index in RAM agrees with a full scan of the flash after any operations, faults
\* and resets: it always describes the frames, and its ends are the oldest and the
\* newest as long as the frames are handed over in the order of their numbers (an
\* erased log starts a new order) and no rebuild skips a sector behind a frame that
\* fills its own.
THEOREM IndexIsTrue == Spec /\ NoSectorSkipped => []IndexMatchesFlash
<1> DEFINE J == TInv /\ PointInv /\ Inv /\ (~ disordered => RingIndexInv)
<1>1. Init => J
  BY InitTyped, StartInv, RingIndexInit DEF Init, PointInv, IndexDescribesFlash
<1>2. J /\ [Next]_vars /\ [Rebuilds => ~ RebuildSkips(flash')]_vars => J'
  BY TypedNext, PointNext, RingIndexNext
<1>3. J => IndexMatchesFlash
  BY DEF PointInv, RingIndexInv, IndexInv, Described, IndexOf, IndexMatchesFlash
<1> HIDE DEF J
<1> QED
  BY <1>1, <1>2, <1>3, PTL DEF Spec, NoSectorSkipped

-----------------------------------------------------------------------------
(* Frame sizes with which no sector can be filled to its last byte.        *)

\* P holds the places in a sector that frames one after the other can reach; its end
\* is not among them.
ReachedBy(P) ==
    /\ P \subseteq 0 .. SectorSize - 1 /\ 0 \in P
    /\ \A p \in P, len \in FrameSizes : p + len <= SectorSize => p + len \in P

\* No frames, one after the other, fill a sector exactly.
NoFramesFillASector == \E P \in SUBSET (0 .. SectorSize - 1) : ReachedBy(P)

Place(a) == a - (SectorEnd(a) - SectorSize)

PlacesInv(P) ==
    /\ \A a \in ValidAddrs(flash) : Place(a) \in P
    /\ pc \in {"idle", "wipe"} => Place(idx.write) \in P
    /\ pc \in {"erase", "program", "commit"} => Place(job.start) \in P

LEMMA StartPlace ==
    ASSUME NEW a \in Addrs, IsSectorStart(a)
    PROVE  Place(a) = 0
  BY SectorStartEnd, ConfigAssumption DEF Place, Addrs

LEMMA NextPlace ==
    ASSUME NEW P, ReachedBy(P), NEW a \in Addrs, Place(a) \in P, NEW len \in FrameSizes,
           a + len <= SectorEnd(a)
    PROVE  /\ a + len < SectorEnd(a)
           /\ WrapAddress(a + len) \in Addrs /\ Place(WrapAddress(a + len)) \in P
           /\ ~ IsSectorStart(WrapAddress(a + len))
<1>1. /\ SectorEnd(a) \in Nat /\ SectorEnd(a) - SectorSize <= a /\ SectorEnd(a) <= EndAddr
      /\ a \in Nat /\ StartAddr <= a /\ len \in Nat \ {0}
  BY SectorEndType, FrameAssumption, ConfigAssumption DEF Addrs
<1>2. Place(a) + len <= SectorSize
  BY <1>1, ConfigAssumption DEF Place
<1>3. Place(a) + len \in P /\ Place(a) + len < SectorSize
  <2>1. Place(a) + len \in P /\ P \subseteq 0 .. SectorSize - 1
    BY <1>2 DEF ReachedBy
  <2>2. \A p \in 0 .. SectorSize - 1 : p < SectorSize
    BY ConfigAssumption
  <2> QED
    BY <2>1, <2>2
<1>4. a + len < SectorEnd(a)
  BY <1>1, <1>3, ConfigAssumption DEF Place
<1>5. a + len \in Addrs /\ SectorEnd(a + len) = SectorEnd(a)
  <2>1. a + len \in Int /\ SectorEnd(a) - SectorSize <= a + len
    BY <1>1, ConfigAssumption
  <2> QED
    BY <1>4, <2>1, SameSector
<1>6. WrapAddress(a + len) = a + len
  BY <1>1, <1>4, ConfigAssumption DEF WrapAddress
<1>7. Place(a + len) = Place(a) + len
  BY <1>1, <1>5, ConfigAssumption DEF Place
<1>8. ~ IsSectorStart(a + len)
  <2>1. Place(a + len) # 0
    BY <1>1, <1>7, ConfigAssumption DEF Place
  <2> QED
    BY <1>5, <2>1, StartPlace
<1> QED
  BY <1>3, <1>4, <1>5, <1>6, <1>7, <1>8

LEMMA ValidLen ==
    ASSUME NEW f \in Images, NEW a \in ValidAddrs(f)
    PROVE  f[a].len \in FrameSizes
  BY ValidFacts DEF Cells

\* The scan finds such a place for the next frame, and skips no sector.
LEMMA RebuildPlace ==
    ASSUME NEW P, ReachedBy(P), NEW f \in Images, CellsWellPlaced(f), OneWindow(f),
           \A a \in ValidAddrs(f) : Place(a) \in P
    PROVE  Place(Rebuild(f).write) \in P /\ ~ RebuildSkips(f)
<1>0. StartAddr \in Addrs /\ 0 \in P
  BY ConfigAssumption DEF Addrs, ReachedBy
<1>1. ASSUME NEW w \in Addrs, Place(w) \in P
      PROVE  Place(SafeWrite(f, w)) \in P
  BY <1>0, <1>1, NextSectorType, StartPlace DEF SafeWrite
<1>2. CASE ValidAddrs(f) = {}
  <2>1. Place(StartAddr) \in P
    BY <1>0, NoJobType, StartPlace
  <2> QED
    BY <1>0, <1>1, <1>2, <2>1 DEF Rebuild, EmptyIndex, RebuildSkips
<1>3. CASE ValidAddrs(f) # {}
  <2> DEFINE n == Newest(f)
             w == WrapAddress(n + f[n].len)
  <2>1. n \in ValidAddrs(f)
    BY <1>3, NewestFacts
  <2>2. Rebuild(f).write = SafeWrite(f, w) /\ (RebuildSkips(f) => IsSectorStart(w))
    BY <1>3 DEF Rebuild, RebuildSkips
  <2> HIDE DEF n
  <2>3. n \in Addrs /\ f[n].len \in FrameSizes /\ n + f[n].len <= SectorEnd(n)
    BY <2>1, ValidFacts, ValidLen, FrameInSector
  <2>4. w \in Addrs /\ Place(w) \in P /\ ~ IsSectorStart(w)
    BY <2>1, <2>3, NextPlace
  <2> QED
    BY <1>1, <2>2, <2>4
<1> QED
  BY <1>2, <1>3

\* A step that ends in a rebuilt index has only to show where the frames are.
LEMMA RebuildPlaces ==
    ASSUME NEW P, ReachedBy(P), TInv', idx' = Rebuild(flash'), pc' = "idle",
           \A a \in ValidAddrs(flash') : Place(a) \in P
    PROVE  PlacesInv(P)'
<1>1. flash' \in Images /\ CellsWellPlaced(flash') /\ OneWindow(flash')
  BY WindowIsHalf, HalfOfLess DEF TInv, TypeOK, NumbersInv
<1> QED
  BY <1>1, RebuildPlace DEF PlacesInv

\* Frames come about only where one is appended.
LEMMA PlacesKept ==
    ASSUME NEW P, ReachedBy(P), TInv, PlacesInv(P), [Next]_vars
    PROVE  \A a \in ValidAddrs(flash') : Place(a) \in P
<1> SUFFICES ASSUME NEW a \in ValidAddrs(flash') PROVE Place(a) \in P
  OBVIOUS
<1>0. flash \in Images /\ CellsWellPlaced(flash)
  BY DEF TInv, TypeOK
<1>1. ASSUME Fewer(flash, flash') PROVE a \in ValidAddrs(flash)
  BY <1>1, FewerFacts
<1>2. ASSUME NEW s \in Addrs, IsSectorStart(s), flash' \in TornErases(flash, s)
      PROVE  a \in ValidAddrs(flash)
  BY <1>0, <1>1, <1>2, TornEraseBase
<1>3. ASSUME pc = "program", flash' \in TornPrograms(flash, job, job.start, job.pos, Chunk)
      PROVE  a \in ValidAddrs(flash) \/ a = job.start
  <2>1. ProgramBase(flash, job, Chunk)
    BY <1>3, ChunkBase
  <2>2. CASE flash' = ProgramCells(flash, job, job.start, job.pos, Chunk)
    BY <2>1, <2>2, ProgramBaseFacts DEF ValidAddrs
  <2>3. CASE \E T \in SUBSET Span(job.pos, Chunk) : flash' = Smash(flash, T, Junk)
    BY <1>0, <1>1, <2>3, SmashFacts
  <2> QED
    BY <1>3, <2>2, <2>3 DEF TornPrograms
<1>4. CASE flash' = flash
  BY <1>4 DEF PlacesInv
<1>5. CASE EraseSector
  <2>1. job.start \in Addrs /\ IsSectorStart(job.start)
    BY <1>5 DEF EraseSector, TInv, TypeOK
  <2>2. Fewer(flash, flash')
    BY <1>0, <1>5, <2>1, EraseFacts DEF EraseSector
  <2> QED
    BY <1>1, <2>2 DEF PlacesInv
<1>6. CASE ProgramChunk
  BY <1>3, <1>6 DEF ProgramChunk, TornPrograms, PlacesInv
<1>7. CASE AppendFails
  <2>1. pc = "erase" => job.start \in Addrs /\ IsSectorStart(job.start)
    BY DEF TInv, TypeOK
  <2> QED
    BY <1>2, <1>3, <1>7, <2>1 DEF AppendFails, PlacesInv
<1>8. CASE WipeSector
  <2>1. job.pos \in Addrs /\ IsSectorStart(job.pos)
    BY <1>8 DEF WipeSector, TInv, TypeOK
  <2>2. Fewer(flash, flash')
    BY <1>0, <1>8, <2>1, EraseFacts DEF WipeSector
  <2> QED
    BY <1>1, <2>2 DEF PlacesInv
<1>9. CASE WipeFails
  <2>1. job.pos \in Addrs /\ IsSectorStart(job.pos)
    BY <1>9 DEF WipeFails, TInv, TypeOK
  <2> QED
    BY <1>2, <1>9, <2>1 DEF WipeFails, PlacesInv
<1>10. CASE Crash
  <2>1. /\ pc = "erase" => job.start \in Addrs /\ IsSectorStart(job.start)
        /\ pc = "wipe" => job.pos \in Addrs /\ IsSectorStart(job.pos)
    BY DEF TInv, TypeOK
  <2>2. CASE pc = "erase"
    BY <1>2, <1>10, <2>1, <2>2 DEF Crash, PlacesInv
  <2>3. CASE pc = "program"
    BY <1>3, <1>10, <2>3 DEF Crash, PlacesInv
  <2>4. CASE pc = "wipe"
    BY <1>2, <1>10, <2>1, <2>4 DEF Crash, PlacesInv
  <2>5. CASE pc \notin {"erase", "program", "wipe"}
    BY <1>4, <1>10, <2>5 DEF Crash
  <2> QED
    BY <2>2, <2>3, <2>4, <2>5
<1>11. Boot \/ AppendFrame \/ Commit \/ EraseAllStart \/ SetNextSeq \/ UNCHANGED vars =>
          flash' = flash
  BY DEF Boot, AppendFrame, AppendFresh, AppendLate, AppendStart, Commit, EraseAllStart,
     SetNextSeq, vars
<1> QED
  BY <1>4, <1>5, <1>6, <1>7, <1>8, <1>9, <1>10, <1>11 DEF Next

LEMMA PlacesNext ==
    ASSUME NEW P, ReachedBy(P), TInv, TInv', PlacesInv(P), [Next]_vars
    PROVE  PlacesInv(P)'
<1>0. \A a \in ValidAddrs(flash') : Place(a) \in P
  BY PlacesKept
<1>1. StartAddr \in Addrs /\ IsSectorStart(StartAddr) /\ 0 \in P
  BY NoJobType DEF ReachedBy
<1>2. CASE Boot
  <2>1. idx' = Rebuild(flash') /\ pc' = "idle"
    BY <1>2 DEF Boot
  <2> QED
    BY <1>0, <2>1, RebuildPlaces
<1>3. ASSUME NEW len \in FrameSizes, NEW seq \in Seqs, AppendStart(len, seq)
      PROVE  PlacesInv(P)'
  <2>1. idx.write \in Addrs /\ Place(idx.write) \in P
    BY <1>3 DEF AppendStart, PlacesInv, TInv, TypeOK, Indexes
  <2>2. Place(FrameStart(idx.write, len)) \in P
    BY <1>1, <2>1, NextSectorType, StartPlace DEF FrameStart
  <2>3. job'.start = FrameStart(idx.write, len) /\ pc' \in {"erase", "program"}
    BY <1>3 DEF AppendStart
  <2> QED
    BY <1>0, <2>2, <2>3 DEF PlacesInv
<1>4. CASE EraseSector
  BY <1>0, <1>4 DEF EraseSector, PlacesInv
<1>5. CASE ProgramChunk
  <2>1. job \in Jobs
    BY DEF TInv, TypeOK, Jobs
  <2>2. job'.start = job.start /\ pc = "program" /\ pc' \in {"program", "commit"}
    BY <1>5, <2>1 DEF ProgramChunk, Jobs
  <2> QED
    BY <1>0, <2>2 DEF PlacesInv
<1>6. CASE Commit
  <2>1. CASE ~ ValidFrameAt(flash, job.start)
    <3>1. idx' = Rebuild(flash') /\ pc' = "idle"
      BY <1>6, <2>1 DEF Commit
    <3> QED
      BY <1>0, <3>1, RebuildPlaces
  <2>2. CASE ValidFrameAt(flash, job.start)
    <3>1. idx'.write = WrapAddress(job.pos) /\ pc' = "idle"
      BY <1>6, <2>2 DEF Commit, IndexAfterAppend
    <3>2. /\ job.start \in Addrs /\ job.len \in FrameSizes /\ Place(job.start) \in P
          /\ job.pos = job.start + job.len /\ job.start + job.len <= SectorEnd(job.start)
      BY <1>6 DEF Commit, TInv, TypeOK, PlacesInv
    <3> QED
      BY <1>0, <3>1, <3>2, NextPlace DEF PlacesInv
  <2> QED
    BY <2>1, <2>2
<1>7. CASE AppendFails
  <2>1. idx' = Rebuild(flash') /\ pc' = "idle"
    BY <1>7 DEF AppendFails
  <2> QED
    BY <1>0, <2>1, RebuildPlaces
<1>8. CASE EraseAllStart
  BY <1>0, <1>8 DEF EraseAllStart, PlacesInv
<1>9. CASE WipeSector
  <2>1. Place(StartAddr) \in P
    BY <1>1, StartPlace
  <2>2. pc = "wipe" /\ pc' \in {"wipe", "idle"}
        /\ (idx' = idx \/ idx' = EmptyIndex(StartAddr))
    BY <1>9 DEF WipeSector
  <2> QED
    BY <1>0, <2>1, <2>2 DEF PlacesInv, EmptyIndex
<1>10. CASE WipeFails
  BY <1>0, <1>10 DEF WipeFails, PlacesInv
<1>11. CASE Crash
  BY <1>0, <1>11 DEF Crash, PlacesInv
<1>12. CASE SetNextSeq
  BY <1>0, <1>12 DEF SetNextSeq, PlacesInv
<1>13. CASE UNCHANGED vars
  BY <1>13 DEF vars, PlacesInv
<1>14. CASE AppendFrame
  BY <1>3, <1>14, AppendIsStart DEF TInv
<1> QED
  BY <1>2, <1>4, <1>5, <1>6, <1>7, <1>8, <1>9, <1>10, <1>11, <1>12, <1>13, <1>14 DEF Next

LEMMA NothingSkipped ==
    ASSUME NEW P, ReachedBy(P)
    PROVE  Spec => NoSectorSkipped
<1>1. Init => TInv /\ PlacesInv(P)
  <2>1. Init => ValidAddrs(flash) = {} /\ pc = "off"
    BY CellAssumption DEF Init, ValidAddrs, ValidFrameAt
  <2> QED
    BY <2>1, InitTyped DEF PlacesInv
<1>2. TInv /\ PlacesInv(P) /\ [Next]_vars => TInv' /\ PlacesInv(P)'
  BY TypedNext, PlacesNext
<1>3. TInv' /\ PlacesInv(P)' => ~ RebuildSkips(flash')
  BY WindowIsHalf, HalfOfLess, RebuildPlace DEF TInv, TypeOK, NumbersInv, PlacesInv
<1>4. TInv /\ PlacesInv(P) /\ [Next]_vars => [Rebuilds => ~ RebuildSkips(flash')]_vars
  BY <1>2, <1>3
<1> QED
  BY <1>1, <1>2, <1>4, PTL DEF Spec, NoSectorSkipped

\* With frame sizes that cannot fill a sector exactly the index agrees with the flash
\* after any operations, faults and resets, as long as the frames are handed over in the
\* order of their numbers.
THEOREM IndexIsTrueUnfilled ==
    ASSUME NoFramesFillASector
    PROVE  Spec => []IndexMatchesFlash
<1>1. PICK P \in SUBSET (0 .. SectorSize - 1) : ReachedBy(P)
  BY DEF NoFramesFillASector
<1>2. Spec => NoSectorSkipped
  BY <1>1, NothingSkipped
<1> QED
  BY <1>2, IndexIsTrue, PTL

-----------------------------------------------------------------------------
(* What one scar costs.                                                    *)

\* n is the frame of V that the scan takes for the newest.
IsNewest(f, V, n) ==
    /\ n \in V
    /\ \A b \in V : ~ IsSeqNewer(f[b].seq, f[n].seq) /\ (f[b].seq = f[n].seq => n <= b)

\* w is the start of a sector, or right behind the newest frame of V, which i knows.
Follows(f, V, i, w) ==
    IsSectorStart(w) \/ (IsNewest(f, V, i.newest) /\ w = i.newest + f[i.newest].len)

\* The cells of frame j below j.pos are programmed, the others still erased.
Fresh(f, j) ==
    \A x \in Span(j.start, j.len) :
        f[x] = IF x < j.pos THEN [seq |-> j.seq, len |-> j.len, off |-> x - j.start]
                            ELSE Erased

\* Outside a failed eraseLogArea every frame goes behind the newest one in flash or to a
\* sector erased for it; in the second case nothing can spoil it.
ScarInv ==
    /\ pc = "idle" /\ ~ busy => Follows(flash, ValidAddrs(flash), idx, idx.write)
    /\ pc \in {"program", "commit"} =>
         /\ ~ busy => Follows(flash, ValidAddrs(flash) \ {job.start}, idx, job.start)
         /\ IsSectorStart(job.start) => Fresh(flash, job)
         /\ \A a \in ValidAddrs(flash) \ {job.start} : IsSeqNewer(job.seq, flash[a].seq)
    /\ pc = "commit" =>
         /\ flash[job.start] # Erased
         /\ ValidFrameAt(flash, job.start) =>
              flash[job.start].seq = job.seq /\ flash[job.start].len = job.len
    /\ pc = "wipe" => busy

LEMMA WindowTotal ==
    ASSUME NEW b \in Seqs, NEW s \in Seqs, NEW t \in Seqs,
           2 * Rank(b, s) < SeqModulus, 2 * Rank(b, t) < SeqModulus,
           ~ IsSeqNewer(s, t), ~ IsSeqNewer(t, s)
    PROVE  s = t
  BY SeqFacts DEF Seqs, Rank, IsSeqNewer

LEMMA NewestIsOne ==
    ASSUME NEW f \in Images, OneWindow(f), NEW n, IsNewest(f, ValidAddrs(f), n)
    PROVE  Newest(f) = n
<1>1. PICK b \in Seqs : \A a \in ValidAddrs(f) : 2 * Rank(b, f[a].seq) < SeqModulus
  BY DEF OneWindow
<1>2. n \in ValidAddrs(f) /\ Newest(f) \in ValidAddrs(f)
  BY NewestFacts DEF IsNewest
<1>3. ~ IsSeqNewer(f[n].seq, f[Newest(f)].seq) /\ ~ IsSeqNewer(f[Newest(f)].seq, f[n].seq)
  BY <1>2, NewestFacts DEF IsNewest
<1>4. f[n].seq \in Seqs /\ f[Newest(f)].seq \in Seqs /\ n \in Nat /\ Newest(f) \in Nat
  BY <1>2, ValidFacts, ImageFacts
<1>5. f[n].seq = f[Newest(f)].seq
  BY <1>1, <1>2, <1>3, <1>4, WindowTotal
<1>6. n <= Newest(f) /\ Newest(f) <= n
  BY <1>2, <1>5, NewestFacts DEF IsNewest
<1> QED
  BY <1>4, <1>6

\* A rebuilt index writes at the start of a sector or behind the newest frame.
LEMMA RebuildFollows ==
    ASSUME NEW f \in Images, CellsWellPlaced(f), OneWindow(f)
    PROVE  Follows(f, ValidAddrs(f), Rebuild(f), Rebuild(f).write)
<1>1. \A a \in Addrs : SafeWrite(f, a) = a \/ IsSectorStart(SafeWrite(f, a))
  BY NextSectorType DEF SafeWrite
<1>2. CASE ValidAddrs(f) = {}
  <2>1. Rebuild(f).write = SafeWrite(f, StartAddr)
    BY <1>2 DEF Rebuild, EmptyIndex
  <2> QED
    BY <1>1, <2>1, NoJobType DEF Follows
<1>3. CASE ValidAddrs(f) # {}
  <2> DEFINE n == Newest(f)
             w == WrapAddress(n + f[n].len)
  <2>1. IsNewest(f, ValidAddrs(f), n)
    BY <1>3, NewestFacts DEF IsNewest
  <2>2. n \in Nat /\ f[n].len \in Nat /\ StartAddr <= n /\ n + f[n].len <= EndAddr
    BY <2>1, ValidFacts, ImageFacts DEF IsNewest
  <2>3. Rebuild(f).write = SafeWrite(f, w) /\ Rebuild(f).newest = n
    BY <1>3 DEF Rebuild
  <2> HIDE DEF n
  <2>4. w \in Addrs /\ (w = n + f[n].len \/ w = StartAddr)
    <3>1. n + f[n].len \in Nat /\ StartAddr <= n + f[n].len /\ n + f[n].len <= EndAddr
      BY <2>2, ConfigAssumption
    <3> QED
      BY <3>1, WrapType
  <2> HIDE DEF w
  <2>5. SafeWrite(f, w) = n + f[n].len \/ IsSectorStart(SafeWrite(f, w))
    BY <1>1, <2>4, NoJobType
  <2> QED
    BY <2>1, <2>3, <2>5 DEF Follows
<1> QED
  BY <1>2, <1>3

LEMMA RebuildScar ==
    ASSUME IInv', idx' = Rebuild(flash'), pc' = "idle"
    PROVE  ScarInv'
<1>1. flash' \in Images /\ CellsWellPlaced(flash') /\ OneWindow(flash')
  BY DEF IInv, TypeOK, FlashInv
<1> QED
  BY <1>1, RebuildFollows DEF ScarInv

LEMMA AppendStartScar ==
    ASSUME IInv, ScarInv, NEW len \in FrameSizes, NEW seq \in Seqs,
           AppendStart(len, seq), InSeqWindow(flash, seq)
    PROVE  ScarInv'
<1> DEFINE start == FrameStart(idx.write, len)
<1>1. /\ pc = "idle" /\ InSeqWindow(flash, seq) /\ flash' = flash /\ busy' = busy
      /\ job' = [seq |-> seq, len |-> len, start |-> start, pos |-> start]
      /\ IsSectorStart(start) => pc' = "erase"
      /\ ~ IsSectorStart(start) => pc' = "program" /\ idx' = idx
  BY DEF AppendStart
<1>2. flash \in Images /\ idx.write \in Addrs
  BY DEF IInv, TypeOK, Indexes
<1>3. CASE IsSectorStart(start)
  BY <1>1, <1>3 DEF ScarInv
<1>4. CASE ~ IsSectorStart(start)
  <2>1. start = idx.write
    BY <1>2, <1>4, NextSectorType DEF FrameStart
  <2>2. ~ busy => IsNewest(flash, ValidAddrs(flash), idx.newest)
                  /\ start = idx.newest + flash[idx.newest].len
    BY <1>1, <1>4, <2>1 DEF ScarInv, Follows
  <2>3. ~ busy => idx.newest # start
    BY <1>2, <2>2, ValidFacts, ImageFacts DEF IsNewest
  <2>4. job'.start = start /\ job'.seq = seq
    BY <1>1
  <2> HIDE DEF start
  <2>5. ~ busy => Follows(flash, ValidAddrs(flash) \ {start}, idx, start)
    BY <2>2, <2>3 DEF Follows, IsNewest
  <2>6. \A a \in ValidAddrs(flash) : IsSeqNewer(seq, flash[a].seq)
    BY <1>1 DEF InSeqWindow
  <2> QED
    BY <1>1, <1>4, <2>4, <2>5, <2>6 DEF ScarInv
<1> QED
  BY <1>3, <1>4

LEMMA EraseSectorScar == ASSUME IInv, EraseSector PROVE ScarInv'
<1>1. /\ pc = "erase" /\ pc' = "program" /\ flash' = EraseCells(flash, job.start)
      /\ job' = job
  BY DEF EraseSector
<1>2. /\ flash \in Images /\ CellsWellPlaced(flash) /\ InSeqWindow(flash, job.seq)
      /\ job.start \in Addrs /\ IsSectorStart(job.start) /\ job.pos = job.start
      /\ job.len \in FrameSizes /\ job.start + job.len <= SectorEnd(job.start)
  BY <1>1 DEF IInv, TypeOK, FlashInv, AppendInv
<1>3. Fresh(flash', job)
  <2> SUFFICES ASSUME NEW x \in Span(job.start, job.len)
               PROVE  ~ (x < job.pos) /\ flash'[x] = Erased
    BY DEF Fresh
  <2>1. job.start \in Nat /\ job.len \in 1 .. SectorSize /\ StartAddr <= job.start
        /\ SectorEnd(job.start) <= EndAddr /\ SectorEnd(job.start) \in Nat
    BY <1>2, ImageFacts, FrameAssumption, SectorEndType
  <2>2. x \in Addrs /\ x \in Span(job.start, SectorSize) /\ ~ (x < job.pos)
    BY <1>2, <2>1, ConfigAssumption DEF Span, Addrs
  <2> QED
    BY <1>1, <2>2 DEF EraseCells
<1>4. \A a \in ValidAddrs(flash') : IsSeqNewer(job.seq, flash'[a].seq)
  <2>1. Fewer(flash, flash')
    BY <1>1, <1>2, EraseFacts
  <2> QED
    BY <1>2, <2>1, FewerFacts DEF InSeqWindow
<1> QED
  BY <1>1, <1>2, <1>3, <1>4 DEF ScarInv, Follows

LEMMA ProgramChunkScar == ASSUME IInv, ScarInv, ProgramChunk PROVE ScarInv'
<1> DEFINE V == ValidAddrs(flash) \ {job.start}
<1>1. /\ pc = "program" /\ flash' = ProgramCells(flash, job, job.start, job.pos, Chunk)
      /\ pc' \in {"program", "commit"} /\ idx' = idx /\ busy' = busy
      /\ job'.start = job.start /\ job'.len = job.len /\ job'.seq = job.seq
      /\ job'.pos = job.pos + Chunk
  <2>1. job \in Jobs
    BY DEF IInv, TypeOK, Jobs
  <2> QED
    BY <2>1 DEF ProgramChunk, Jobs
<1>2. ProgramStep(flash, job, Chunk) /\ InSeqWindow(flash, job.seq)
  BY <1>1, ChunkFacts
<1>3. /\ flash' \in Images /\ Started(flash', job, job.pos + Chunk)
      /\ \A a \in Addrs : a # job.start /\ ValidFrameAt(flash', a) =>
           ValidFrameAt(flash, a) /\ flash'[a] = flash[a]
      /\ \A a \in ValidAddrs(flash) : ValidFrameAt(flash', a) /\ flash'[a] = flash[a]
      /\ ValidFrameAt(flash', job.start) =>
           flash'[job.start].seq = job.seq /\ flash'[job.start].len = job.len
  BY <1>1, <1>2, ProgramFacts
<1>4. /\ flash \in Images /\ job.start \in Nat /\ job.pos \in Nat /\ Chunk \in Nat \ {0}
      /\ job.start <= job.pos /\ job.start \in Addrs
      /\ job.len \in FrameSizes /\ job.seq \in Seqs /\ job.len \in Nat
      /\ job.start + job.len <= EndAddr /\ StartAddr <= job.start
  <2>1. job.len \in 1 .. SectorSize
    BY <1>2, FrameAssumption DEF ProgramStep, ProgramBase
  <2> QED
    BY <1>2, <2>1, ImageFacts, SectorEndType, ConfigAssumption DEF ProgramStep, ProgramBase
<1>5. ValidAddrs(flash') \ {job.start} = V /\ \A a \in V : flash'[a] = flash[a]
  BY <1>3 DEF ValidAddrs
<1>6. ASSUME ~ busy PROVE Follows(flash', V, idx, job.start)
  BY <1>1, <1>5, <1>6 DEF ScarInv, Follows, IsNewest
<1>7. ASSUME IsSectorStart(job.start) PROVE Fresh(flash', job')
  <2> SUFFICES ASSUME NEW x \in Span(job.start, job.len)
               PROVE  flash'[x] = IF x < job.pos + Chunk
                                  THEN [seq |-> job.seq, len |-> job.len, off |-> x - job.start]
                                  ELSE Erased
    BY <1>1 DEF Fresh
  <2>1. x \in Addrs /\ x \in Nat
    BY <1>4, ConfigAssumption DEF Span, Addrs
  <2>2. flash[x] = IF x < job.pos
                   THEN [seq |-> job.seq, len |-> job.len, off |-> x - job.start] ELSE Erased
    BY <1>1, <1>7 DEF ScarInv, Fresh
  <2>3. x \in Span(job.pos, Chunk) <=> job.pos <= x /\ x < job.pos + Chunk
    BY <1>4, <2>1, SpanIff
  <2>4. /\ x \notin Span(job.pos, Chunk) => flash'[x] = flash[x]
        /\ x \in Span(job.pos, Chunk) /\ flash[x] = Erased =>
             flash'[x] = [seq |-> job.seq, len |-> job.len, off |-> x - job.start]
    BY <1>1, <1>2, <2>1, ProgramCell DEF ProgramStep
  <2>5. CASE x < job.pos
    BY <1>4, <2>1, <2>2, <2>3, <2>4, <2>5
  <2>6. CASE job.pos <= x /\ x < job.pos + Chunk
    BY <1>4, <2>1, <2>2, <2>3, <2>4, <2>6
  <2>7. CASE job.pos + Chunk <= x
    BY <1>4, <2>1, <2>2, <2>3, <2>4, <2>7
  <2> QED
    BY <1>4, <2>1, <2>5, <2>6, <2>7
<1>8. flash'[job.start] # Erased
  <2>1. flash'[job.start] \in {Junk, [seq |-> job.seq, len |-> job.len, off |-> 0]}
    BY <1>3, <1>4 DEF Started
  <2>2. [seq |-> job.seq, len |-> job.len, off |-> 0] \in Cells
    BY <1>4, ConfigAssumption DEF Cells
  <2> QED
    BY <2>1, <2>2, CellAssumption
<1>9. \A a \in V : IsSeqNewer(job.seq, flash[a].seq)
  BY <1>2 DEF InSeqWindow
<1> HIDE DEF V
<1> QED
  BY <1>1, <1>3, <1>5, <1>6, <1>7, <1>8, <1>9 DEF ScarInv

LEMMA CommitScar == ASSUME IInv, ScarInv, IInv', Commit PROVE ScarInv'
<1>1. pc = "commit" /\ pc' = "idle" /\ flash' = flash /\ busy' = busy
  BY DEF Commit
<1>2. CASE ~ ValidFrameAt(flash, job.start)
  <2>1. idx' = Rebuild(flash')
    BY <1>1, <1>2 DEF Commit
  <2> QED
    BY <1>1, <2>1, RebuildScar
<1>3. CASE ValidFrameAt(flash, job.start)
  <2> DEFINE w == WrapAddress(job.pos)
  <2>1. idx'.write = w /\ idx'.newest = job.start
    BY <1>3 DEF Commit, IndexAfterAppend
  <2>2. /\ flash \in Images /\ job.start \in Addrs /\ job.start \in ValidAddrs(flash)
        /\ flash[job.start].seq = job.seq /\ flash[job.start].len = job.len
        /\ job.pos = job.start + job.len
        /\ \A a \in ValidAddrs(flash) \ {job.start} : IsSeqNewer(job.seq, flash[a].seq)
    BY <1>1, <1>3 DEF IInv, TypeOK, ScarInv, ValidAddrs
  <2>3. IsNewest(flash, ValidAddrs(flash), job.start)
    <3>1. job.seq \in Seqs /\ \A a \in ValidAddrs(flash) : flash[a].seq \in Seqs
      BY <2>2, ValidFacts
    <3>2. ~ IsSeqNewer(job.seq, job.seq) /\ job.start <= job.start
      BY <2>2, <3>1, NewerFacts, ImageFacts
    <3> QED
      BY <2>2, <3>1, <3>2, NewerFacts DEF IsNewest
  <2>4. job.start \in Nat /\ job.len \in Nat /\ StartAddr <= job.start /\ job.pos <= EndAddr
    BY <2>2, ValidFacts, ImageFacts
  <2>5. w = job.start + job.len \/ IsSectorStart(w)
    <3>1. job.pos \in Nat /\ StartAddr <= job.pos
      BY <2>2, <2>4, ConfigAssumption
    <3>2. w = job.pos \/ w = StartAddr
      BY <2>4, <3>1, WrapType
    <3> QED
      BY <2>2, <3>2, NoJobType
  <2> HIDE DEF w
  <2>6. Follows(flash, ValidAddrs(flash), idx', w)
    BY <2>1, <2>2, <2>3, <2>5 DEF Follows
  <2> QED
    BY <1>1, <2>1, <2>6 DEF ScarInv
<1> QED
  BY <1>2, <1>3

LEMMA ScarInvInit == Init => ScarInv
  BY DEF Init, ScarInv

LEMMA WipeSectorScar == ASSUME ScarInv, WipeSector PROVE ScarInv'
<1>1. CASE job.pos + SectorSize < EndAddr
  BY <1>1 DEF WipeSector, ScarInv
<1>2. CASE ~ (job.pos + SectorSize < EndAddr)
  <2>1. pc' = "idle" /\ idx' = EmptyIndex(StartAddr)
    BY <1>2 DEF WipeSector
  <2> QED
    BY <2>1, NoJobType, EmptyIndexType DEF ScarInv, Follows
<1> QED
  BY <1>1, <1>2

LEMMA ScarOrdered ==
    ASSUME TypeOK, IInv, IInv', ScarInv, [Next]_vars, ~ disordered'
    PROVE  ScarInv'
<1>1. CASE UNCHANGED vars
  BY <1>1 DEF ScarInv, vars
<1>2. CASE Boot
  BY <1>2, RebuildScar DEF Boot
<1>3. CASE AppendFrame
  BY <1>3, InOrderAppend, AppendStartScar
<1>4. CASE EraseSector
  BY <1>4, EraseSectorScar
<1>5. CASE ProgramChunk
  BY <1>5, ProgramChunkScar
<1>6. CASE Commit
  BY <1>6, CommitScar
<1>7. CASE AppendFails
  BY <1>7, RebuildScar DEF AppendFails
<1>8. CASE EraseAllStart
  BY <1>8 DEF EraseAllStart, ScarInv
<1>9. CASE WipeSector
  BY <1>9, WipeSectorScar
<1>10. CASE WipeFails
  <2>1. pc' = "idle" /\ busy' = busy /\ pc = "wipe"
    BY <1>10 DEF WipeFails
  <2> QED
    BY <2>1 DEF ScarInv
<1>11. CASE SetNextSeq
  BY <1>11 DEF SetNextSeq, ScarInv
<1>12. CASE Crash
  BY <1>12 DEF Crash, ScarInv
<1> QED
  BY <1>1, <1>2, <1>3, <1>4, <1>5, <1>6, <1>7, <1>8, <1>9, <1>10, <1>11, <1>12 DEF Next

LEMMA ScarInvNext ==
    ASSUME Inv, ~ disordered => ScarInv, [Next]_vars
    PROVE  Inv' /\ (~ disordered' => ScarInv')
<1>1. Inv' /\ TypeOK /\ TypeOK'
  BY NextInv DEF Inv, TInv
<1>2. ASSUME ~ disordered' PROVE ScarInv'
  <2>1. IInv'
    BY <1>1, <1>2 DEF Inv
  <2>2. CASE LastWipe
    <3>1. idx' = EmptyIndex(StartAddr) /\ pc' = "idle"
      BY <2>2 DEF LastWipe, WipeSector
    <3> QED BY <3>1, NoJobType, EmptyIndexType DEF ScarInv, Follows
  <2>3. CASE ~ LastWipe
    BY <1>1, <1>2, <2>1, <2>3, OrderKept, ScarOrdered DEF Inv
  <2> QED BY <2>2, <2>3
<1> QED BY <1>1, <1>2

\* A frame that does not survive its read-back begins in the middle of a sector, right
\* behind the newest frame: the rebuilt index finds its first byte dirty.
LEMMA CommitLeavesScar ==
    ASSUME IInv, ScarInv, ~ busy, Commit, ~ ValidFrameAt(flash, job.start),
           NEW len \in FrameSizes
    PROVE  IsSectorStart(FrameStart(idx'.write, len))
<1>1. pc = "commit" /\ flash' = flash /\ idx' = Rebuild(flash)
  BY DEF Commit
<1>2. /\ flash \in Images /\ OneWindow(flash) /\ job.start \in Addrs /\ job.start \in Nat
      /\ job.seq \in Seqs /\ job.len \in FrameSizes /\ job.pos = job.start + job.len
      /\ job.start + job.len <= SectorEnd(job.start) /\ SectorEnd(job.start) <= EndAddr
      /\ job.len \in Nat \ {0} /\ flash[job.start] # Erased
      /\ job.start < EndAddr
  <2>1. FrameSizes \subseteq Nat \ {0}
    BY FrameAssumption, ConfigAssumption
  <2> QED
    BY <1>1, <2>1, ImageFacts, SectorEndType DEF IInv, TypeOK, FlashInv, ScarInv
<1>3. ~ IsSectorStart(job.start)
  <2> SUFFICES ASSUME IsSectorStart(job.start) PROVE ValidFrameAt(flash, job.start)
    OBVIOUS
  <2>1. \A x \in Span(job.start, job.len) :
          flash[x] = [seq |-> job.seq, len |-> job.len, off |-> x - job.start]
    <3>1. \A x \in Span(job.start, job.len) : x < job.pos
      BY <1>2 DEF Span
    <3> QED
      BY <1>1, <3>1 DEF ScarInv, Fresh
  <2>2. job.start \in Span(job.start, job.len) /\ job.start - job.start = 0
    BY <1>2 DEF Span
  <2>3. flash[job.start] = [seq |-> job.seq, len |-> job.len, off |-> 0]
    BY <2>1, <2>2
  <2>4. [seq |-> job.seq, len |-> job.len, off |-> 0] \in Cells
    BY <1>2, ConfigAssumption DEF Cells
  <2>5. job.start + job.len <= EndAddr
    BY <1>2, SectorEndType, ConfigAssumption
  <2> QED
    BY <2>1, <2>3, <2>4, <2>5 DEF ValidFrameAt
<1>4. IsNewest(flash, ValidAddrs(flash), idx.newest)
      /\ job.start = idx.newest + flash[idx.newest].len
  <2>1. ValidAddrs(flash) \ {job.start} = ValidAddrs(flash)
    BY DEF ValidAddrs
  <2> QED
    BY <1>1, <1>3, <2>1 DEF ScarInv, Follows
<1>5. Newest(flash) = idx.newest /\ ValidAddrs(flash) # {}
  BY <1>2, <1>4, NewestIsOne DEF IsNewest
<1>6. idx'.write = SafeWrite(flash, WrapAddress(job.start))
  BY <1>1, <1>4, <1>5 DEF Rebuild
<1>7. WrapAddress(job.start) = job.start
  BY <1>2, ConfigAssumption DEF WrapAddress
<1>8. idx'.write = WrapAddress(SectorEnd(job.start))
  BY <1>2, <1>6, <1>7 DEF SafeWrite, IsErasedAt
<1>9. idx'.write \in Addrs /\ IsSectorStart(idx'.write)
  BY <1>2, <1>8, NextSectorType
<1>10. idx'.write + len <= SectorEnd(idx'.write)
  <2>1. SectorEnd(idx'.write) = idx'.write + SectorSize /\ idx'.write \in Nat
    BY <1>9, SectorStartEnd, ConfigAssumption DEF Addrs
  <2>2. len \in 1 .. SectorSize
    BY FrameAssumption
  <2> QED
    BY <2>1, <2>2, ConfigAssumption
<1>11. idx'.write \in Nat /\ len \in Nat /\ SectorEnd(idx'.write) \in Nat
  BY <1>9, SectorEndType, FrameAssumption, ConfigAssumption DEF Addrs
<1>12. FrameStart(idx'.write, len) = idx'.write
  BY <1>10, <1>11 DEF FrameStart
<1> QED
  BY <1>9, <1>12

LEMMA StepLeavesScar ==
    Inv /\ (~ disordered => ScarInv) /\ BusyImpliesMaintenance /\ [Next]_vars =>
      [pc = "commit" /\ pc' = "idle" /\ ~ ValidFrameAt(flash, job.start) /\ ~ disordered =>
         \A len \in FrameSizes :
            LET start == FrameStart(idx'.write, len) IN
            IsSectorStart(start) \/ \A x \in Span(start, len) : IsErasedAt(flash, x)]_vars
<1> SUFFICES ASSUME Inv, ~ disordered => ScarInv, BusyImpliesMaintenance, Next,
                    pc = "commit", pc' = "idle", ~ ValidFrameAt(flash, job.start),
                    ~ disordered, NEW len \in FrameSizes
             PROVE  IsSectorStart(FrameStart(idx'.write, len))
  OBVIOUS
<1>1. ~ busy
  BY DEF BusyImpliesMaintenance
<1>2. Commit
  BY DEF Next, Boot, AppendFrame, AppendFresh, AppendLate, AppendStart, EraseSector,
         ProgramChunk, AppendFails, EraseAllStart, WipeSector, WipeFails, SetNextSeq, Crash
<1> QED
  BY <1>1, <1>2, CommitLeavesScar DEF Inv

\* As long as no eraseLogArea has failed and the frames are handed over in the order of
\* their numbers, a place that spoiled one frame never spoils the next, after any number
\* of failed commands and resets: a scar costs one event.
THEOREM ScarsCostOneEvent ==
    Spec /\ []BusyImpliesMaintenance => OneScarCostsOneEvent
<1> DEFINE J == Inv /\ (~ disordered => ScarInv)
<1>1. Init => J
  BY StartInv, ScarInvInit
<1>2. J /\ [Next]_vars => J'
  BY ScarInvNext
<1>3. J /\ BusyImpliesMaintenance /\ [Next]_vars =>
        [pc = "commit" /\ pc' = "idle" /\ ~ ValidFrameAt(flash, job.start) /\ ~ disordered =>
           \A len \in FrameSizes :
              LET start == FrameStart(idx'.write, len) IN
              IsSectorStart(start) \/ \A x \in Span(start, len) : IsErasedAt(flash, x)]_vars
  BY StepLeavesScar
<1> HIDE DEF J
<1> QED
  BY <1>1, <1>2, <1>3, PTL DEF Spec, OneScarCostsOneEvent
=============================================================================
