------------------------- MODULE FlashLogDumpProofs -------------------------
(***************************************************************************)
(* Proofs about the dumps, and that the storage implements the event log.  *)
(***************************************************************************)
EXTENDS FlashLogDump, FlashLogStorageProofs

-----------------------------------------------------------------------------
(* Frames in the order of age.                                             *)

\* Sequence s is the frames of V, from the oldest to the newest.
InAge(f, V, s) ==
    /\ s \in Seq(V)
    /\ \A a \in V : \E i \in DOMAIN s : s[i] = a
    /\ \A i, j \in DOMAIN s : i < j => IsSeqNewer(f[s[j]].seq, f[s[i]].seq)

\* The frames of V have different numbers, all in one half of the sequence space.
Aged(f, V) ==
    /\ IsFiniteSet(V)
    /\ \A a \in V : f[a].seq \in Seqs
    /\ \A a, b \in V : a # b => f[a].seq # f[b].seq
    /\ \E o \in Seqs : \A a \in V : 2 * Rank(o, f[a].seq) < SeqModulus

AgeSeq(f, V) == CHOOSE s : InAge(f, V, s)

LEMMA RankOrder ==
    ASSUME NEW o \in Seqs, NEW s \in Seqs, NEW t \in Seqs, s # t,
           2 * Rank(o, s) < SeqModulus, 2 * Rank(o, t) < SeqModulus
    PROVE  /\ Rank(o, s) \in Nat /\ Rank(o, t) \in Nat
           /\ IsSeqNewer(s, t) <=> Rank(o, s) > Rank(o, t)
           /\ Rank(o, s) # Rank(o, t)
  BY SeqFacts DEF Seqs, Rank, IsSeqNewer

LEMMA AgedPart ==
    ASSUME NEW f, NEW V, Aged(f, V), NEW W \in SUBSET V
    PROVE  Aged(f, W)
  BY FS_Subset DEF Aged

LEMMA LastOfFacts ==
    ASSUME NEW f, NEW V, Aged(f, V), V # {}
    PROVE  /\ LastOf(f, V) \in V
           /\ \A b \in V \ {LastOf(f, V)} : IsSeqNewer(f[LastOf(f, V)].seq, f[b].seq)
<1>1. PICK o \in Seqs : \A a \in V : 2 * Rank(o, f[a].seq) < SeqModulus
  BY DEF Aged
<1>2. \A a \in V : f[a].seq \in Seqs /\ Rank(o, f[a].seq) \in Nat
  <2>1. \A a \in V : f[a].seq \in Seqs
    BY DEF Aged
  <2> QED
    BY <1>1, <2>1, RankNewer
<1> DEFINE R == {SeqModulus - Rank(o, f[a].seq) : a \in V}
<1>3. R \in SUBSET Nat /\ R # {}
  BY <1>1, <1>2, SeqFacts
<1>4. PICK m \in V : \A a \in V : Rank(o, f[a].seq) <= Rank(o, f[m].seq)
  <2>1. PICK r \in R : \A q \in R : r <= q
    <3> HIDE DEF R
    <3> QED
      BY <1>3, LeastNat
  <2>2. PICK m \in V : r = SeqModulus - Rank(o, f[m].seq)
    BY <2>1
  <2>3. \A a \in V : SeqModulus - Rank(o, f[m].seq) <= SeqModulus - Rank(o, f[a].seq)
    BY <2>1, <2>2
  <2> QED
    BY <2>2, <2>3, <1>2, SeqFacts
<1>5. ASSUME NEW b \in V \ {m} PROVE IsSeqNewer(f[m].seq, f[b].seq)
  <2>1. f[m].seq # f[b].seq /\ f[m].seq \in Seqs /\ f[b].seq \in Seqs
    BY <1>2, <1>5 DEF Aged
  <2>2. Rank(o, f[m].seq) # Rank(o, f[b].seq)
        /\ (IsSeqNewer(f[m].seq, f[b].seq) <=> Rank(o, f[m].seq) > Rank(o, f[b].seq))
    BY <1>1, <1>5, <2>1, RankOrder
  <2> QED
    BY <1>2, <1>4, <1>5, <2>2
<1> QED
  BY <1>5 DEF LastOf

LEMMA InAgeFacts ==
    ASSUME NEW f, NEW V, Aged(f, V), NEW s, InAge(f, V, s)
    PROVE  /\ Len(s) \in Nat /\ DOMAIN s = 1 .. Len(s)
           /\ \A i \in DOMAIN s : s[i] \in V
           /\ \A i, j \in DOMAIN s : s[i] = s[j] => i = j
<1>1. Len(s) \in Nat /\ DOMAIN s = 1 .. Len(s) /\ \A i \in DOMAIN s : s[i] \in V
  BY DEF InAge
<1>2. ASSUME NEW i \in DOMAIN s, NEW j \in DOMAIN s, i < j PROVE s[i] # s[j]
  <2>1. IsSeqNewer(f[s[j]].seq, f[s[i]].seq)
    BY <1>2 DEF InAge
  <2>2. f[s[i]].seq \in Seqs /\ f[s[j]].seq \in Seqs
    BY <1>1 DEF Aged
  <2> QED
    BY <2>1, <2>2, NewerFacts
<1>3. \A i, j \in DOMAIN s : s[i] = s[j] => i = j
  <2> TAKE i, j \in DOMAIN s
  <2>1. i < j \/ j < i \/ i = j
    BY <1>1
  <2> QED
    BY <1>2, <2>1
<1> QED
  BY <1>1, <1>3

LEMMA InAgeBegins ==
    ASSUME NEW f, NEW V, Aged(f, V), NEW s, NEW t, InAge(f, V, s), InAge(f, V, t)
    PROVE  \A i \in DOMAIN s : i \in DOMAIN t /\ s[i] = t[i]
<1> DEFINE Bad == {i \in DOMAIN s : ~ (i \in DOMAIN t /\ s[i] = t[i])}
<1>1. /\ Len(s) \in Nat /\ DOMAIN s = 1 .. Len(s) /\ Len(t) \in Nat /\ DOMAIN t = 1 .. Len(t)
      /\ \A i \in DOMAIN s : s[i] \in V
      /\ \A i \in DOMAIN t : t[i] \in V
      /\ \A i, j \in DOMAIN s : s[i] = s[j] => i = j
      /\ \A i, j \in DOMAIN t : t[i] = t[j] => i = j
  BY InAgeFacts
<1> SUFFICES ASSUME Bad # {} PROVE FALSE
  OBVIOUS
<1>2. Bad \in SUBSET Nat
  BY <1>1
<1>3. PICK i \in Bad : \A j \in Bad : i <= j
  <2> HIDE DEF Bad
  <2> QED
    BY <1>2, LeastNat
<1>4. i \in DOMAIN s /\ \A j \in DOMAIN s : j < i => j \in DOMAIN t /\ s[j] = t[j]
  BY <1>1, <1>3
<1>5. PICK k \in DOMAIN t : t[k] = s[i]
  BY <1>1, <1>4 DEF InAge
<1>6. ~ (k < i)
  BY <1>1, <1>4, <1>5
<1>7. i \in DOMAIN t /\ i < k
  BY <1>1, <1>3, <1>4, <1>5, <1>6
<1>8. PICK m \in DOMAIN s : s[m] = t[i]
  BY <1>1, <1>7 DEF InAge
<1>9. i < m
  BY <1>1, <1>3, <1>4, <1>7, <1>8
<1>10. IsSeqNewer(f[s[m]].seq, f[s[i]].seq) /\ IsSeqNewer(f[t[k]].seq, f[t[i]].seq)
  BY <1>4, <1>7, <1>8, <1>9 DEF InAge
<1>11. f[s[i]].seq \in Seqs /\ f[t[i]].seq \in Seqs
  BY <1>1, <1>4, <1>7 DEF Aged
<1> QED
  BY <1>5, <1>8, <1>10, <1>11, NewerFacts

\* There is one order of age only.
LEMMA InAgeUnique ==
    ASSUME NEW f, NEW V, Aged(f, V), NEW s, NEW t, InAge(f, V, s), InAge(f, V, t)
    PROVE  s = t
<1>1. s \in Seq(V) /\ t \in Seq(V)
  BY DEF InAge
<1>2. \A i \in DOMAIN s : i \in DOMAIN t /\ s[i] = t[i]
  BY InAgeBegins
<1>3. \A i \in DOMAIN t : i \in DOMAIN s
  BY InAgeBegins
<1>4. DOMAIN s = DOMAIN t
  BY <1>2, <1>3
<1> QED
  BY <1>1, <1>2, <1>4

LEMMA InAgeEmpty ==
    ASSUME NEW f
    PROVE  InAge(f, {}, << >>)
  BY DEF InAge

\* A newest frame goes last, an oldest one first.
LEMMA InAgeAppend ==
    ASSUME NEW f, NEW V, NEW s, InAge(f, V, s), NEW a,
           \A b \in V : IsSeqNewer(f[a].seq, f[b].seq)
    PROVE  InAge(f, V \cup {a}, Append(s, a))
<1>1. s \in Seq(V) /\ Len(s) \in Nat /\ DOMAIN s = 1 .. Len(s)
  BY DEF InAge
<1> DEFINE t == Append(s, a)
<1>2. s \in Seq(V \cup {a})
  BY <1>1
<1>3. /\ t \in Seq(V \cup {a}) /\ DOMAIN t = 1 .. Len(s) + 1
      /\ \A i \in 1 .. Len(s) : t[i] = s[i]
      /\ t[Len(s) + 1] = a
  BY <1>1, <1>2
<1> HIDE DEF t
<1>4. \A b \in V \cup {a} : \E i \in DOMAIN t : t[i] = b
  <2> TAKE b \in V \cup {a}
  <2>1. CASE b = a
    BY <1>1, <1>3, <2>1
  <2>2. CASE b \in V
    <3>1. PICK i \in DOMAIN s : s[i] = b
      BY <2>2 DEF InAge
    <3> QED
      BY <1>1, <1>3, <3>1
  <2> QED
    BY <2>1, <2>2
<1>5. ASSUME NEW i \in DOMAIN t, NEW j \in DOMAIN t, i < j
      PROVE  IsSeqNewer(f[t[j]].seq, f[t[i]].seq)
  <2>1. i \in 1 .. Len(s) /\ i \in DOMAIN s /\ t[i] = s[i] /\ s[i] \in V
    BY <1>1, <1>3, <1>5
  <2>2. CASE j \in 1 .. Len(s)
    BY <1>1, <1>3, <1>5, <2>1, <2>2 DEF InAge
  <2>3. CASE j = Len(s) + 1
    BY <1>3, <2>1, <2>3
  <2> QED
    BY <1>1, <1>3, <2>2, <2>3
<1> QED
  BY <1>3, <1>4, <1>5 DEF InAge, t

\* An oldest frame goes first.
LEMMA InAgePrepend ==
    ASSUME NEW f, NEW V, NEW s, InAge(f, V, s), NEW a,
           \A b \in V : IsSeqNewer(f[b].seq, f[a].seq)
    PROVE  InAge(f, V \cup {a}, <<a>> \o s)
<1>1. s \in Seq(V) /\ Len(s) \in Nat /\ DOMAIN s = 1 .. Len(s)
  BY DEF InAge
<1> DEFINE t == <<a>> \o s
<1>2. s \in Seq(V \cup {a}) /\ <<a>> \in Seq(V \cup {a}) /\ Len(<<a>>) = 1 /\ <<a>>[1] = a
  BY <1>1
<1>3. /\ t \in Seq(V \cup {a}) /\ DOMAIN t = 1 .. Len(s) + 1
      /\ \A i \in 2 .. Len(s) + 1 : t[i] = s[i - 1]
      /\ t[1] = a
  BY <1>1, <1>2
<1> HIDE DEF t
<1>4. \A b \in V \cup {a} : \E i \in DOMAIN t : t[i] = b
  <2> TAKE b \in V \cup {a}
  <2>1. CASE b = a
    BY <1>1, <1>3, <2>1
  <2>2. CASE b \in V
    <3>1. PICK i \in DOMAIN s : s[i] = b
      BY <2>2 DEF InAge
    <3>2. i + 1 \in 2 .. Len(s) + 1 /\ i + 1 \in DOMAIN t /\ (i + 1) - 1 = i
      BY <1>1, <1>3, <3>1
    <3> QED
      BY <1>3, <3>1, <3>2
  <2> QED
    BY <2>1, <2>2
<1>5. ASSUME NEW i \in DOMAIN t, NEW j \in DOMAIN t, i < j
      PROVE  IsSeqNewer(f[t[j]].seq, f[t[i]].seq)
  <2>1. j \in 2 .. Len(s) + 1 /\ j - 1 \in DOMAIN s /\ t[j] = s[j - 1] /\ s[j - 1] \in V
    BY <1>1, <1>3, <1>5
  <2>2. CASE i = 1
    BY <1>3, <2>1, <2>2
  <2>3. CASE i # 1
    <3>1. i \in 2 .. Len(s) + 1 /\ i - 1 \in DOMAIN s /\ t[i] = s[i - 1] /\ i - 1 < j - 1
      BY <1>1, <1>3, <1>5, <2>3
    <3> QED
      BY <2>1, <3>1 DEF InAge
  <2> QED
    BY <2>2, <2>3
<1> QED
  BY <1>3, <1>4, <1>5 DEF InAge, t

\* Of some subsets of a finite set one is smallest.
LEMMA SmallestSet ==
    ASSUME NEW V, IsFiniteSet(V), NEW B \in SUBSET (SUBSET V), B # {}
    PROVE  \E W \in B : \A X \in B : Cardinality(W) <= Cardinality(X)
<1> DEFINE C == {Cardinality(W) : W \in B}
<1>1. C \in SUBSET Nat /\ C # {}
  <2>1. \A W \in B : Cardinality(W) \in Nat
    <3> TAKE W \in B
    <3>1. W \in SUBSET V
      OBVIOUS
    <3>2. IsFiniteSet(W)
      BY <3>1, FS_Subset
    <3> QED
      BY <3>2, FS_CardinalityType
  <2> QED
    BY <2>1
<1>2. PICK c \in C : \A d \in C : c <= d
  <2> HIDE DEF C
  <2> QED
    BY <1>1, LeastNat
<1> QED
  BY <1>2

\* Taking the newest frame away leaves fewer frames.
LEMMA WithoutLast ==
    ASSUME NEW f, NEW V, Aged(f, V), V # {}
    PROVE  LET W == V \ {LastOf(f, V)} IN
           /\ Aged(f, W) /\ W \cup {LastOf(f, V)} = V
           /\ ~ (Cardinality(V) <= Cardinality(W))
<1> DEFINE a == LastOf(f, V)
           W == V \ {a}
<1>1. a \in V
  BY LastOfFacts
<1> HIDE DEF a
<1>2. IsFiniteSet(V)
  BY DEF Aged
<1>3. Cardinality(V) \in Nat /\ Cardinality(W) = Cardinality(V) - 1
  BY <1>1, <1>2, FS_RemoveElement, FS_CardinalityType
<1>4. Aged(f, W)
  BY AgedPart
<1> QED
  BY <1>1, <1>3, <1>4 DEF a

\* Every such set has an order of age.
LEMMA InAgeExists ==
    ASSUME NEW f, NEW V, Aged(f, V)
    PROVE  InAge(f, V, AgeSeq(f, V))
<1> DEFINE Bad == {W \in SUBSET V : ~ \E s : InAge(f, W, s)}
<1> SUFFICES ASSUME Bad # {} PROVE FALSE
  <2>1. Bad = {} => \E s : InAge(f, V, s)
    OBVIOUS
  <2> QED
    BY <2>1 DEF AgeSeq
<1>1. IsFiniteSet(V)
  BY DEF Aged
<1>2. PICK W \in Bad : \A X \in Bad : Cardinality(W) <= Cardinality(X)
  <2>1. Bad \in SUBSET (SUBSET V)
    OBVIOUS
  <2> HIDE DEF Bad
  <2> QED
    BY <1>1, <2>1, SmallestSet
<1>3. W \in SUBSET V /\ Aged(f, W) /\ W # {} /\ ~ \E s : InAge(f, W, s)
  BY AgedPart, InAgeEmpty
<1> DEFINE a == LastOf(f, W)
           X == W \ {a}
<1>4. Aged(f, X) /\ X \cup {a} = W /\ ~ (Cardinality(W) <= Cardinality(X))
  BY <1>3, WithoutLast
<1>5. X \notin Bad /\ X \in SUBSET V
  BY <1>2, <1>3, <1>4
<1>6. PICK s : InAge(f, X, s)
  BY <1>5
<1>7. \A b \in X : IsSeqNewer(f[a].seq, f[b].seq)
  BY <1>3, LastOfFacts
<1>8. InAge(f, X \cup {a}, Append(s, a))
  <2> HIDE DEF a, X
  <2> QED
    BY <1>6, <1>7, InAgeAppend
<1> QED
  BY <1>3, <1>4, <1>8

\* One turn of the reference ByAge.
ByAgeTurn(f, valid, g) ==
    [V \in SUBSET valid |->
        IF V = {} THEN << >>
        ELSE LET last == LastOf(f, V) IN Append(g[V \ {last}], last)]

LEMMA ByAgeTurns ==
    ASSUME NEW f, NEW V, Aged(f, V), NEW h, h = ByAgeTurn(f, V, h)
    PROVE  InAge(f, V, h[V])
<1> DEFINE Bad == {W \in SUBSET V : ~ InAge(f, W, h[W])}
<1> SUFFICES ASSUME Bad # {} PROVE FALSE
  OBVIOUS
<1>1. IsFiniteSet(V)
  BY DEF Aged
<1>2. PICK W \in Bad : \A X \in Bad : Cardinality(W) <= Cardinality(X)
  <2>1. Bad \in SUBSET (SUBSET V)
    OBVIOUS
  <2> HIDE DEF Bad
  <2> QED
    BY <1>1, <2>1, SmallestSet
<1>3. W \in SUBSET V /\ ~ InAge(f, W, h[W])
  OBVIOUS
<1>4. ByAgeTurn(f, V, h)[W] =
        IF W = {} THEN << >>
        ELSE LET last == LastOf(f, W) IN Append(h[W \ {last}], last)
  BY <1>3, Zenon DEF ByAgeTurn
<1>5. h[W] = ByAgeTurn(f, V, h)[W]
  OBVIOUS
<1>6. W # {}
  BY <1>3, <1>4, <1>5, InAgeEmpty
<1> DEFINE a == LastOf(f, W)
           X == W \ {a}
<1>7. h[W] = Append(h[X], a)
  BY <1>4, <1>5, <1>6
<1>8. Aged(f, X) /\ X \cup {a} = W /\ ~ (Cardinality(W) <= Cardinality(X))
  BY <1>3, <1>6, AgedPart, WithoutLast
<1>9. X \notin Bad /\ X \in SUBSET V
  BY <1>2, <1>3, <1>8
<1>10. \A b \in X : IsSeqNewer(f[a].seq, f[b].seq)
  BY <1>3, <1>6, AgedPart, LastOfFacts
<1>11. InAge(f, X, h[X])
  BY <1>9
<1>12. InAge(f, X \cup {a}, Append(h[X], a))
  <2> HIDE DEF a, X
  <2> QED
    BY <1>10, <1>11, InAgeAppend
<1> QED
  BY <1>3, <1>7, <1>8, <1>12

LEMMA ByAgeSolved ==
    ASSUME NEW f, NEW V, Aged(f, V)
    PROVE  LET g == [W \in SUBSET V |-> AgeSeq(f, W)] IN g = ByAgeTurn(f, V, g)
<1> DEFINE g == [W \in SUBSET V |-> AgeSeq(f, W)]
<1>1. ASSUME NEW W \in SUBSET V
      PROVE  AgeSeq(f, W) = IF W = {} THEN << >>
                            ELSE LET last == LastOf(f, W) IN Append(g[W \ {last}], last)
  <2>1. Aged(f, W) /\ InAge(f, W, AgeSeq(f, W))
    BY AgedPart, InAgeExists
  <2>2. CASE W = {}
    BY <2>1, <2>2, InAgeEmpty, InAgeUnique
  <2>3. CASE W # {}
    <3> DEFINE a == LastOf(f, W)
               X == W \ {a}
    <3>1. Aged(f, X) /\ X \cup {a} = W
      BY <2>1, <2>3, WithoutLast
    <3>2. \A b \in X : IsSeqNewer(f[a].seq, f[b].seq)
      BY <2>1, <2>3, LastOfFacts
    <3>3. InAge(f, X, AgeSeq(f, X))
      BY <3>1, InAgeExists
    <3>4. InAge(f, X \cup {a}, Append(AgeSeq(f, X), a))
      <4> HIDE DEF a, X
      <4> QED
        BY <3>2, <3>3, InAgeAppend
    <3>5. AgeSeq(f, W) = Append(AgeSeq(f, X), a)
      BY <2>1, <3>1, <3>4, InAgeUnique
    <3>6. g[X] = AgeSeq(f, X)
      OBVIOUS
    <3> QED
      BY <2>3, <3>5, <3>6
  <2> QED
    BY <2>2, <2>3
<1>2. ByAgeTurn(f, V, g) =
        [W \in SUBSET V |->
           IF W = {} THEN << >>
           ELSE LET last == LastOf(f, W) IN Append(g[W \ {last}], last)]
  BY DEF ByAgeTurn
<1> HIDE DEF g
<1> QED
  BY <1>1, <1>2, Zenon DEF g

\* The reference is the order of age.
LEMMA ByAgeInAge ==
    ASSUME NEW f, Aged(f, ValidAddrs(f))
    PROVE  InAge(f, ValidAddrs(f), ByAge(f))
<1> DEFINE V == ValidAddrs(f)
           h == CHOOSE g : g = ByAgeTurn(f, V, g)
<1>1. \E g : g = ByAgeTurn(f, V, g)
  BY ByAgeSolved
<1>2. h = ByAgeTurn(f, V, h)
  BY <1>1, Zenon
<1>3. ByAge(f) = h[V]
  BY Zenon DEF ByAge, ByAgeTurn
<1> HIDE DEF h, V
<1>4. InAge(f, V, h[V])
  BY <1>2, ByAgeTurns DEF V
<1> QED
  BY <1>3, <1>4 DEF V

-----------------------------------------------------------------------------
(* The walk round the ring.                                                *)

LEMMA RingAddrFacts ==
    ASSUME NEW o \in Addrs, NEW s \in Nat, s < AreaSize
    PROVE  RingAddr(o, s) \in Addrs /\ RingDist(o, RingAddr(o, s)) = s
  BY ConfigAssumption DEF RingAddr, RingDist, AreaSize, Addrs

LEMMA RingDistFacts ==
    ASSUME NEW o \in Addrs, NEW a \in Addrs
    PROVE  /\ RingDist(o, a) \in Nat /\ RingDist(o, a) < AreaSize
           /\ \A b \in Addrs : RingDist(o, a) = RingDist(o, b) => a = b
  BY ConfigAssumption DEF RingDist, AreaSize, Addrs

\* The ring may be cut at its oldest frame.
LEMMA RingFromOldest ==
    ASSUME NEW f \in Images, NEW e \in Addrs, RingSorted(f, e), NEW o \in ValidAddrs(f),
           \A a \in ValidAddrs(f) \ {o} : IsSeqNewer(f[a].seq, f[o].seq)
    PROVE  RingSorted(f, o)
<1>1. \A a \in ValidAddrs(f) : a \in Addrs /\ f[a].seq \in Seqs
  BY ValidFacts
<1>2. \A a \in ValidAddrs(f) : RingDist(e, o) <= RingDist(e, a)
  <2> SUFFICES ASSUME NEW a \in ValidAddrs(f), RingDist(e, a) < RingDist(e, o)
               PROVE  FALSE
    BY <1>1, RingDistFacts
  <2>1. IsSeqNewer(f[o].seq, f[a].seq) /\ a # o
    BY <1>1, RingDistFacts DEF RingSorted
  <2> QED
    BY <1>1, <2>1, NewerFacts
<1> SUFFICES ASSUME NEW a \in ValidAddrs(f), NEW b \in ValidAddrs(f),
                    RingDist(o, a) < RingDist(o, b)
             PROVE  RingDist(e, a) < RingDist(e, b)
  BY DEF RingSorted
<1> QED
  BY <1>1, <1>2, ConfigAssumption DEF RingDist, AreaSize, Addrs

\* In a ring that is in order the frames have an order of age.
LEMMA RingAged ==
    ASSUME NEW f \in Images, OneWindow(f), NEW e \in Addrs, RingSorted(f, e)
    PROVE  Aged(f, ValidAddrs(f))
<1>1. \A a \in ValidAddrs(f) : a \in Addrs /\ f[a].seq \in Seqs
  BY ValidFacts
<1>2. ASSUME NEW a \in ValidAddrs(f), NEW b \in ValidAddrs(f), a # b
      PROVE  f[a].seq # f[b].seq
  <2>1. IsSeqNewer(f[b].seq, f[a].seq) \/ IsSeqNewer(f[a].seq, f[b].seq)
    BY <1>1, <1>2, RingFacts DEF RingSorted
  <2> QED
    BY <1>1, <2>1, NewerFacts
<1> QED
  BY <1>1, <1>2, ValidFinite DEF Aged, OneWindow

\* The frames that are s cells or more from o.
Rest(f, o, s) == {a \in ValidAddrs(f) : RingDist(o, a) >= s}

\* From a place without a frame the walk goes one byte on, from a frame to its end.
LEMMA RestFacts ==
    ASSUME NEW f \in Images, NEW o \in Addrs, NEW s \in Nat
    PROVE  LET addr == RingAddr(o, s) IN
           /\ s >= AreaSize => Rest(f, o, s) = {}
           /\ s < AreaSize /\ ~ ValidFrameAt(f, addr) => Rest(f, o, s) = Rest(f, o, s + 1)
           /\ s < AreaSize /\ ValidFrameAt(f, addr) =>
                /\ addr \in ValidAddrs(f) /\ f[addr].len \in Nat \ {0}
                /\ \A b \in Rest(f, o, s) \ {addr} : RingDist(o, addr) < RingDist(o, b)
                /\ Rest(f, o, s) = Rest(f, o, s + f[addr].len) \cup {addr}
<1> DEFINE addr == RingAddr(o, s)
<1>1. \A b \in ValidAddrs(f) : b \in Addrs /\ RingDist(o, b) \in Nat /\ RingDist(o, b) < AreaSize
  BY ValidFacts, RingDistFacts
<1>2. AreaSize \in Nat
  BY ConfigAssumption DEF AreaSize
<1>3. s >= AreaSize => Rest(f, o, s) = {}
  BY <1>1, <1>2 DEF Rest
<1>4. s < AreaSize => addr \in Addrs /\ RingDist(o, addr) = s
  BY RingAddrFacts
<1> HIDE DEF addr
<1>5. ASSUME s < AreaSize, ~ ValidFrameAt(f, addr)
      PROVE  Rest(f, o, s) = Rest(f, o, s + 1)
  <2>1. \A b \in ValidAddrs(f) : RingDist(o, b) # s
    <3> SUFFICES ASSUME NEW b \in ValidAddrs(f), RingDist(o, b) = s PROVE FALSE
      OBVIOUS
    <3>1. b = addr
      BY <1>1, <1>4, <1>5, RingDistFacts
    <3> QED
      BY <1>5, <3>1 DEF ValidAddrs
  <2>2. \A b \in ValidAddrs(f) : RingDist(o, b) >= s <=> RingDist(o, b) >= s + 1
    BY <1>1, <2>1
  <2> QED
    BY <2>2 DEF Rest
<1>6. ASSUME s < AreaSize, ValidFrameAt(f, addr)
      PROVE  /\ addr \in ValidAddrs(f) /\ f[addr].len \in Nat \ {0}
             /\ \A b \in Rest(f, o, s) \ {addr} : RingDist(o, addr) < RingDist(o, b)
             /\ Rest(f, o, s) = Rest(f, o, s + f[addr].len) \cup {addr}
  <2>1. addr \in ValidAddrs(f) /\ addr \in Addrs /\ RingDist(o, addr) = s
    BY <1>4, <1>6 DEF ValidAddrs
  <2>2. f[addr].len \in Nat \ {0} /\ addr + f[addr].len <= EndAddr
        /\ \A x \in Span(addr, f[addr].len) : f[x].off = x - addr
    BY <2>1, ValidFacts
  <2>3. \A b \in ValidAddrs(f) \ {addr} : RingDist(o, b) # s
    BY <1>1, <2>1, RingDistFacts
  <2>4. ASSUME NEW b \in ValidAddrs(f), RingDist(o, b) > s
        PROVE  RingDist(o, b) >= s + f[addr].len
    <3>1. b \in Addrs /\ f[b].off = 0
      BY ValidFacts
    <3>2. b \notin Span(addr, f[addr].len) \/ b = addr
      BY <2>1, <2>2, <3>1, ConfigAssumption DEF Addrs
    <3>3. b # addr
      BY <2>1, <2>4, <1>1
    <3>4. ~ (addr <= b /\ b < addr + f[addr].len)
      BY <2>1, <2>2, <3>1, <3>2, <3>3, ConfigAssumption DEF Span, Addrs
    <3> QED
      BY <2>1, <2>2, <2>4, <3>1, <3>4, ConfigAssumption DEF RingDist, AreaSize, Addrs
  <2>5. \A b \in ValidAddrs(f) \ {addr} :
          RingDist(o, b) >= s <=> RingDist(o, b) >= s + f[addr].len
    BY <1>1, <2>2, <2>3, <2>4
  <2>6. \A b \in Rest(f, o, s) \ {addr} : RingDist(o, addr) < RingDist(o, b)
    BY <1>1, <2>1, <2>3 DEF Rest
  <2>7. Rest(f, o, s) = Rest(f, o, s + f[addr].len) \cup {addr}
    BY <2>1, <2>5 DEF Rest
  <2> QED
    BY <2>1, <2>2, <2>6, <2>7
<1> QED
  BY <1>3, <1>5, <1>6 DEF addr

\* One turn of the walk.
WalkTurn(f, newest_seq, first, g) ==
    [scanned \in Nat |->
        LET addr == RingAddr(first, scanned)
        IN  IF scanned >= AreaSize THEN << >>
            ELSE IF ~ ValidFrameAt(f, addr) THEN g[scanned + 1]
            ELSE IF f[addr].seq = newest_seq THEN <<addr>>
            ELSE <<addr>> \o g[scanned + f[addr].len]]

\* When the walk goes right from every place behind s it goes right from s.
LEMMA WalkOn ==
    ASSUME NEW f \in Images, NEW V, V = ValidAddrs(f), Aged(f, V), NEW i, IndexOf(i, f, V),
           NEW o \in V, RingSorted(f, o), NEW s \in Nat, NEW g,
           \A t \in Nat : t > s => g[t] = AgeSeq(f, Rest(f, o, t))
    PROVE  WalkTurn(f, i.newest_seq, o, g)[s] = AgeSeq(f, Rest(f, o, s))
<1> DEFINE addr == RingAddr(o, s)
           W == Rest(f, o, s)
           new == WalkTurn(f, i.newest_seq, o, g)[s]
<1>1. new = IF s >= AreaSize THEN << >>
            ELSE IF ~ ValidFrameAt(f, addr) THEN g[s + 1]
            ELSE IF f[addr].seq = i.newest_seq THEN <<addr>>
            ELSE <<addr>> \o g[s + f[addr].len]
  BY DEF WalkTurn
<1>2. o \in Addrs
  BY ValidFacts
<1>3. AreaSize \in Nat
  BY ConfigAssumption DEF AreaSize
<1>4. \A t \in Nat : Aged(f, Rest(f, o, t)) /\ InAge(f, Rest(f, o, t), AgeSeq(f, Rest(f, o, t)))
  <2> TAKE t \in Nat
  <2>1. Rest(f, o, t) \in SUBSET V
    BY DEF Rest
  <2> QED
    BY <2>1, AgedPart, InAgeExists
<1> HIDE DEF new, addr
<1>5. CASE s >= AreaSize
  <2>1. W = {} /\ new = << >>
    BY <1>1, <1>2, <1>5, RestFacts
  <2> QED
    BY <1>4, <2>1, InAgeEmpty, InAgeUnique DEF new
<1>6. CASE s < AreaSize /\ ~ ValidFrameAt(f, addr)
  <2>1. new = g[s + 1]
    BY <1>1, <1>3, <1>6
  <2>2. W = Rest(f, o, s + 1)
    BY <1>2, <1>6, RestFacts DEF addr
  <2> QED
    BY <2>1, <2>2 DEF new
<1>7. CASE s < AreaSize /\ ValidFrameAt(f, addr)
  <2>1. /\ addr \in V /\ f[addr].len \in Nat \ {0}
        /\ \A b \in W \ {addr} : RingDist(o, addr) < RingDist(o, b)
        /\ W = Rest(f, o, s + f[addr].len) \cup {addr}
    BY <1>2, <1>7, RestFacts DEF addr
  <2>2. \A b \in W \ {addr} : b \in V /\ IsSeqNewer(f[b].seq, f[addr].seq)
    BY <2>1 DEF Rest, RingSorted
  <2>3. CASE f[addr].seq = i.newest_seq
    <3>1. new = <<addr>>
      BY <1>1, <1>3, <1>7, <2>3
    <3>2. addr = i.newest
      BY <2>1, <2>3 DEF IndexOf, Aged
    <3>3. W = {addr}
      <4> SUFFICES ASSUME NEW b \in W, b # addr PROVE FALSE
        BY <2>1
      <4>1. IsSeqNewer(f[b].seq, f[addr].seq) /\ IsSeqNewer(f[addr].seq, f[b].seq)
        BY <2>2, <2>3, <3>2 DEF IndexOf
      <4>2. f[b].seq \in Seqs /\ f[addr].seq \in Seqs
        BY <2>1, <2>2 DEF Aged
      <4> QED
        BY <4>1, <4>2, NewerFacts
    <3>4. InAge(f, {} \cup {addr}, <<addr>> \o << >>)
      BY InAgeEmpty, InAgePrepend
    <3>5. <<addr>> \o << >> = <<addr>> /\ {} \cup {addr} = {addr}
      OBVIOUS
    <3>6. InAge(f, W, <<addr>>)
      BY <3>3, <3>4, <3>5
    <3> QED
      BY <1>4, <3>1, <3>6, InAgeUnique DEF new
  <2>4. CASE f[addr].seq # i.newest_seq
    <3> DEFINE t == s + f[addr].len
    <3>1. t \in Nat /\ t > s /\ new = <<addr>> \o g[t]
      BY <1>1, <1>3, <1>7, <2>1, <2>4
    <3>2. g[t] = AgeSeq(f, Rest(f, o, t)) /\ InAge(f, Rest(f, o, t), g[t])
      BY <1>4, <3>1
    <3>3. addr \notin Rest(f, o, t)
      <4>1. addr = RingAddr(o, s) /\ RingDist(o, addr) = s
        BY <1>2, <1>7, RingAddrFacts DEF addr
      <4> QED
        BY <3>1, <4>1 DEF Rest
    <3>4. \A b \in Rest(f, o, t) : IsSeqNewer(f[b].seq, f[addr].seq)
      BY <2>1, <2>2, <3>3
    <3>5. InAge(f, Rest(f, o, t) \cup {addr}, <<addr>> \o g[t])
      <4> HIDE DEF t
      <4> QED
        BY <3>2, <3>4, InAgePrepend
    <3>6. InAge(f, W, new)
      BY <2>1, <3>1, <3>5
    <3> QED
      BY <1>4, <3>6, InAgeUnique DEF new
  <2> QED
    BY <2>3, <2>4
<1> QED
  BY <1>3, <1>5, <1>6, <1>7

\* The walk from the oldest frame visits all frames in the order of age.
LEMMA WalkInAge ==
    ASSUME NEW f \in Images, NEW V, V = ValidAddrs(f), Aged(f, V), NEW i, IndexOf(i, f, V),
           NEW o \in V, RingSorted(f, o)
    PROVE  Walk(f, i.newest_seq, o) = AgeSeq(f, V)
<1> DEFINE ns == i.newest_seq
           w == [s \in Nat |-> AgeSeq(f, Rest(f, o, s))]
           h == CHOOSE g : g = WalkTurn(f, ns, o, g)
<1>1. AreaSize \in Nat
  BY ConfigAssumption DEF AreaSize
<1>2. w = WalkTurn(f, ns, o, w)
  <2>1. \A s \in Nat : WalkTurn(f, ns, o, w)[s] = AgeSeq(f, Rest(f, o, s))
    BY WalkOn
  <2>2. WalkTurn(f, ns, o, w) = [s \in Nat |-> WalkTurn(f, ns, o, w)[s]]
    BY DEF WalkTurn
  <2> QED
    BY <2>1, <2>2
<1>3. h = WalkTurn(f, ns, o, h)
  <2> HIDE DEF w
  <2> QED
    BY <1>2, Zenon
<1>4. Walk(f, ns, o) = h[0]
  BY Zenon DEF Walk, WalkTurn
<1> HIDE DEF h, w, ns
<1>5. \A s \in Nat : h[s] = AgeSeq(f, Rest(f, o, s))
  <2> DEFINE Bad == {s \in Nat : h[s] # AgeSeq(f, Rest(f, o, s))}
             Left == {AreaSize - s : s \in Bad}
  <2> SUFFICES ASSUME Bad # {} PROVE FALSE
    OBVIOUS
  <2>1. \A s \in Nat : s >= AreaSize => s \notin Bad
    <3> SUFFICES ASSUME NEW s \in Nat, s >= AreaSize PROVE s \notin Bad
      OBVIOUS
    <3>1. WalkTurn(f, ns, o, h)[s] = << >> /\ WalkTurn(f, ns, o, w)[s] = << >>
      BY DEF WalkTurn
    <3>2. w[s] = AgeSeq(f, Rest(f, o, s))
      BY DEF w
    <3> QED
      BY <1>2, <1>3, <3>1, <3>2
  <2>2. Left \in SUBSET Nat /\ Left # {}
    BY <1>1, <2>1
  <2>3. PICK n \in Left : \A m \in Left : n <= m
    <3> HIDE DEF Left
    <3> QED
      BY <2>2, LeastNat
  <2>4. PICK s \in Bad : n = AreaSize - s
    BY <2>3
  <2>5. \A t \in Nat : t > s => h[t] = AgeSeq(f, Rest(f, o, t))
    <3> SUFFICES ASSUME NEW t \in Nat, t > s, t \in Bad PROVE FALSE
      OBVIOUS
    <3>1. AreaSize - t \in Left
      OBVIOUS
    <3>2. AreaSize - s <= AreaSize - t
      BY <2>3, <2>4, <3>1
    <3> QED
      BY <1>1, <2>4, <3>2
  <2>6. WalkTurn(f, ns, o, h)[s] = AgeSeq(f, Rest(f, o, s))
    BY <2>4, <2>5, WalkOn DEF ns
  <2> QED
    BY <1>3, <2>4, <2>6
<1>6. Rest(f, o, 0) = V
  BY ValidFacts, RingDistFacts DEF Rest
<1> QED
  BY <1>4, <1>5, <1>6 DEF ns

LEMMA InAgeLen ==
    ASSUME NEW f, NEW V, Aged(f, V), NEW s, InAge(f, V, s)
    PROVE  Len(s) = Cardinality(V)
<1>1. /\ Len(s) \in Nat /\ DOMAIN s = 1 .. Len(s) /\ s \in [1 .. Len(s) -> V]
      /\ \A i, j \in 1 .. Len(s) : s[i] = s[j] => i = j
      /\ \A a \in V : \E i \in 1 .. Len(s) : s[i] = a
  BY InAgeFacts DEF InAge
<1>2. s \in Bijection(1 .. Len(s), V)
  BY <1>1, Zenon DEF Bijection, Injection, Surjection, IsInjective
<1>3. ExistsBijection(1 .. Len(s), V)
  BY <1>2 DEF ExistsBijection
<1> QED
  BY <1>1, <1>3, FS_CountingElements

-----------------------------------------------------------------------------
(* The dumps.                                                              *)

\* In an undisturbed storage the walk from the oldest frame is the order of age.
LEMMA DumpIsByAge ==
    ASSUME RingIndexInv, pc = "idle", ~ busy
    PROVE  /\ SendFramesOldestFirst = ByAge(flash)
           /\ ByAge(flash) \in Seq(Addrs) /\ Len(ByAge(flash)) = idx.count /\ idx.count \in Nat
<1> DEFINE V == ValidAddrs(flash)
<1>1. /\ flash \in Images /\ OneWindow(flash) /\ IndexOf(idx, flash, V)
      /\ RingSorted(flash, CutAt(idx.write)) /\ CutAt(idx.write) \in Addrs
  BY CutFacts DEF RingIndexInv, IInv, TypeOK, FlashInv, Indexes, OrderInv, IndexInv, Described
<1>2. Aged(flash, V) /\ InAge(flash, V, ByAge(flash))
  BY <1>1, RingAged, ByAgeInAge
<1>3. Len(ByAge(flash)) = idx.count /\ idx.count \in Nat
  BY <1>1, <1>2, InAgeLen, ValidFinite DEF IndexOf
<1>4. ByAge(flash) \in Seq(Addrs)
  BY <1>2, ValidFacts DEF InAge, ValidAddrs
<1>5. CASE V = {}
  <2>1. idx.count = 0 /\ ByAge(flash) = << >>
    BY <1>1, <1>2, <1>5, InAgeEmpty, InAgeUnique, FS_EmptySet DEF IndexOf
  <2> QED
    BY <1>3, <1>4, <2>1 DEF SendFramesOldestFirst
<1>6. CASE V # {}
  <2>1. idx.oldest \in V /\ RingSorted(flash, idx.oldest)
    BY <1>1, <1>6, RingFromOldest DEF IndexOf
  <2>2. Walk(flash, idx.newest_seq, idx.oldest) = AgeSeq(flash, V)
    <3> HIDE DEF V
    <3> QED
      BY <1>1, <1>2, <2>1, WalkInAge DEF V
  <2>3. AgeSeq(flash, V) = ByAge(flash)
    BY <1>2, InAgeExists, InAgeUnique
  <2>4. idx.count # 0
    BY <1>1, <1>6, ValidFinite, FS_EmptySet DEF IndexOf
  <2> QED
    BY <1>3, <1>4, <2>2, <2>3, <2>4 DEF SendFramesOldestFirst
<1> QED
  BY <1>5, <1>6

LEMMA LatestOfDump ==
    ASSUME ~ disordered => RingIndexInv
    PROVE  DumpSendsAllOldestFirst /\ DumpSendsLatest
<1>1. DumpSendsAllOldestFirst
  BY DumpIsByAge DEF DumpSendsAllOldestFirst
<1>2. ASSUME pc = "idle", ~ busy, ~ disordered, NEW n \in 0 .. idx.count + 1
      PROVE  LET all  == ByAge(flash)
                 skip == IF n > Len(all) THEN 0 ELSE Len(all) - n
             IN  SendLatestFrames(n) = SubSeq(all, skip + 1, Len(all))
  <2> DEFINE all == ByAge(flash)
             skip == IF n > Len(all) THEN 0 ELSE Len(all) - n
  <2>1. /\ SendFramesOldestFirst = all /\ all \in Seq(Addrs)
        /\ Len(all) = idx.count /\ idx.count \in Nat
    BY <1>2, DumpIsByAge
  <2> HIDE DEF all
  <2>2. CASE n = 0 \/ idx.count = 0
    <3>1. skip + 1 > Len(all)
      BY <2>1, <2>2
    <3>2. SubSeq(all, skip + 1, Len(all)) = << >>
      BY <2>1, <2>2, <3>1
    <3> QED
      BY <2>2, <3>2 DEF SendLatestFrames, all
  <2>3. CASE ~ (n = 0 \/ idx.count = 0)
    BY <2>1, <2>3 DEF SendLatestFrames, all
  <2> QED
    BY <2>2, <2>3
<1> QED
  BY <1>1, <1>2 DEF DumpSendsLatest

\* The state that the proofs about the dumps and the event log share.
LogInv == Inv /\ (~ disordered => RingIndexInv)

LEMMA LogInvInit == Init => LogInv
  BY StartInv, RingIndexInit DEF LogInv

LEMMA LogInvNext ==
    LogInv /\ [Next]_vars /\ [Rebuilds => ~ RebuildSkips(flash')]_vars => LogInv'
  BY RingIndexNext DEF LogInv

\* Whatever operations, faults and resets came before, the dump of an undisturbed
\* storage sends every intact frame once, from the oldest to the newest, as long as the
\* frames are handed over in the order of their numbers and no rebuild skips a sector
\* behind a frame that fills its own.
THEOREM DumpIsInOrder == Spec /\ NoSectorSkipped => []DumpSendsAllOldestFirst
<1>1. LogInv => DumpSendsAllOldestFirst
  BY LatestOfDump DEF LogInv
<1> QED
  BY <1>1, LogInvInit, LogInvNext, PTL DEF Spec, NoSectorSkipped

\* Under the same conditions lN sends the newest N frames, or all of them.
THEOREM LatestAreNewest == Spec /\ NoSectorSkipped => []DumpSendsLatest
<1>1. LogInv => DumpSendsLatest
  BY LatestOfDump DEF LogInv
<1> QED
  BY <1>1, LogInvInit, LogInvNext, PTL DEF Spec, NoSectorSkipped

\* With frame sizes that cannot fill a sector exactly both hold as long as the frames are
\* handed over in the order of their numbers.
THEOREM DumpIsInOrderUnfilled ==
    ASSUME NoFramesFillASector
    PROVE  Spec => [](DumpSendsAllOldestFirst /\ DumpSendsLatest)
<1>1. PICK P \in SUBSET (0 .. SectorSize - 1) : ReachedBy(P)
  BY DEF NoFramesFillASector
<1>2. Spec => NoSectorSkipped
  BY <1>1, NothingSkipped
<1> QED
  BY <1>2, DumpIsInOrder, LatestAreNewest, PTL

-----------------------------------------------------------------------------
(* The stored log, image by image.                                         *)

LEMMA StoredFacts ==
    ASSUME NEW f, Aged(f, ValidAddrs(f))
    PROVE  LET V == ValidAddrs(f)
               order == ByAge(f)
               log == StoredSeqs(f)
           IN  /\ InAge(f, V, order) /\ order \in Seq(V) /\ Len(order) = Cardinality(V)
               /\ log \in Seq(Seqs) /\ Len(log) = Len(order) /\ Len(order) \in Nat
               /\ DOMAIN log = DOMAIN order /\ DOMAIN order = 1 .. Len(order)
               /\ \A i \in DOMAIN order : order[i] \in V /\ log[i] = f[order[i]].seq
<1> DEFINE V == ValidAddrs(f)
           order == ByAge(f)
           log == StoredSeqs(f)
<1>1. InAge(f, V, order)
  BY ByAgeInAge
<1>2. /\ order \in Seq(V) /\ Len(order) = Cardinality(V) /\ Len(order) \in Nat
      /\ DOMAIN order = 1 .. Len(order) /\ \A i \in DOMAIN order : order[i] \in V
  BY <1>1, InAgeFacts, InAgeLen DEF InAge
<1>3. log = [i \in 1 .. Len(order) |-> f[order[i]].seq]
  BY <1>2, Zenon DEF StoredSeqs
<1>4. \A i \in 1 .. Len(order) : f[order[i]].seq \in Seqs
  BY <1>2 DEF Aged
<1> HIDE DEF log, order
<1>5. log \in Seq(Seqs) /\ Len(log) = Len(order) /\ DOMAIN log = 1 .. Len(order)
  BY <1>2, <1>3, <1>4
<1>6. \A i \in DOMAIN order : log[i] = f[order[i]].seq
  BY <1>2, <1>3
<1> QED
  BY <1>1, <1>2, <1>5, <1>6 DEF log, order, V

\* Images with the same frames store the same log.
LEMMA StoredSame ==
    ASSUME NEW f, NEW g, Aged(f, ValidAddrs(f)), Aged(g, ValidAddrs(g)),
           ValidAddrs(g) = ValidAddrs(f), \A a \in ValidAddrs(f) : g[a] = f[a]
    PROVE  StoredSeqs(g) = StoredSeqs(f)
<1> DEFINE V == ValidAddrs(f)
<1>1. InAge(f, V, ByAge(f)) /\ InAge(g, V, ByAge(g))
  BY StoredFacts
<1>2. \A i \in DOMAIN ByAge(g) : ByAge(g)[i] \in V
  BY StoredFacts
<1>3. InAge(f, V, ByAge(g))
  BY <1>1, <1>2 DEF InAge
<1>4. ByAge(g) = ByAge(f)
  BY <1>1, <1>3, InAgeUnique
<1>5. \A i \in DOMAIN ByAge(f) : g[ByAge(f)[i]] = f[ByAge(f)[i]]
  BY <1>2, <1>4
<1> QED
  BY <1>4, <1>5 DEF StoredSeqs

\* With fewer frames the log is part of what it was, and shorter unless it is the same.
LEMMA StoredPart ==
    ASSUME NEW f, NEW g, Aged(f, ValidAddrs(f)), Aged(g, ValidAddrs(g)), Fewer(f, g)
    PROVE  /\ AbstractLog!PartOf(StoredSeqs(g), StoredSeqs(f))
           /\ StoredSeqs(g) # StoredSeqs(f) => Len(StoredSeqs(g)) < Len(StoredSeqs(f))
<1> DEFINE V == ValidAddrs(f)
           W == ValidAddrs(g)
           s == ByAge(g)
           t == ByAge(f)
<1>1. W \subseteq V /\ \A a \in W : g[a] = f[a]
  BY FewerFacts
<1>2. /\ InAge(g, W, s) /\ DOMAIN StoredSeqs(g) = DOMAIN s /\ DOMAIN s = 1 .. Len(s)
      /\ Len(s) \in Nat /\ Len(s) = Cardinality(W) /\ Len(StoredSeqs(g)) = Len(s)
      /\ \A i \in DOMAIN s : s[i] \in W /\ StoredSeqs(g)[i] = g[s[i]].seq
  BY StoredFacts
<1>3. /\ InAge(f, V, t) /\ DOMAIN StoredSeqs(f) = DOMAIN t /\ DOMAIN t = 1 .. Len(t)
      /\ Len(t) \in Nat /\ Len(t) = Cardinality(V) /\ Len(StoredSeqs(f)) = Len(t)
      /\ \A i \in DOMAIN t : t[i] \in V /\ StoredSeqs(f)[i] = f[t[i]].seq
  BY StoredFacts
<1> HIDE DEF s, t
<1>4. \A i \in DOMAIN s : \E k \in DOMAIN t : t[k] = s[i]
  BY <1>1, <1>2, <1>3 DEF InAge
<1>5. \A i \in DOMAIN s, k \in DOMAIN t : t[k] = s[i] => StoredSeqs(f)[k] = StoredSeqs(g)[i]
  <2> SUFFICES ASSUME NEW i \in DOMAIN s, NEW k \in DOMAIN t, t[k] = s[i]
               PROVE  StoredSeqs(f)[k] = StoredSeqs(g)[i]
    OBVIOUS
  <2>1. g[s[i]] = f[t[k]]
    BY <1>1, <1>2
  <2> QED
    BY <1>2, <1>3, <2>1
<1>6. ASSUME NEW i \in DOMAIN s, NEW j \in DOMAIN s, i < j
      PROVE  \E k, l \in DOMAIN t : k < l /\ t[k] = s[i] /\ t[l] = s[j]
  <2>1. PICK k \in DOMAIN t, l \in DOMAIN t : t[k] = s[i] /\ t[l] = s[j]
    BY <1>4
  <2>2. /\ IsSeqNewer(f[t[l]].seq, f[t[k]].seq)
        /\ f[t[l]].seq \in Seqs /\ f[t[k]].seq \in Seqs
    <3>1. IsSeqNewer(g[s[j]].seq, g[s[i]].seq) /\ s[i] \in W /\ s[j] \in W
      BY <1>2, <1>6 DEF InAge
    <3>2. g[s[i]] = f[t[k]] /\ g[s[j]] = f[t[l]]
      BY <1>1, <2>1, <3>1
    <3> QED
      BY <1>3, <3>1, <3>2 DEF Aged
  <2>3. k # l /\ ~ (l < k)
    <3>1. k # l
      BY <2>2, NewerFacts
    <3>2. l < k => IsSeqNewer(f[t[k]].seq, f[t[l]].seq)
      BY <1>3 DEF InAge
    <3> QED
      BY <2>2, <3>1, <3>2, NewerFacts
  <2>4. k < l
    BY <1>3, <2>3
  <2> QED
    BY <2>1, <2>4
<1>7. AbstractLog!PartOf(StoredSeqs(g), StoredSeqs(f))
  <2>1. \A i \in DOMAIN StoredSeqs(g) : \E k \in DOMAIN StoredSeqs(f) :
          StoredSeqs(f)[k] = StoredSeqs(g)[i]
    BY <1>2, <1>3, <1>4, <1>5
  <2>2. ASSUME NEW i \in DOMAIN StoredSeqs(g), NEW j \in DOMAIN StoredSeqs(g), i < j
        PROVE  \E k, l \in DOMAIN StoredSeqs(f) :
                 k < l /\ StoredSeqs(f)[k] = StoredSeqs(g)[i] /\ StoredSeqs(f)[l] = StoredSeqs(g)[j]
    <3>1. i \in DOMAIN s /\ j \in DOMAIN s
      BY <1>2, <2>2
    <3>2. PICK k \in DOMAIN t, l \in DOMAIN t : k < l /\ t[k] = s[i] /\ t[l] = s[j]
      BY <1>6, <2>2, <3>1
    <3> QED
      BY <1>3, <1>5, <3>1, <3>2
  <2> QED
    BY <2>1, <2>2 DEF AbstractLog!PartOf
<1>8. ASSUME StoredSeqs(g) # StoredSeqs(f)
      PROVE  Len(StoredSeqs(g)) < Len(StoredSeqs(f))
  <2>1. W # V
    BY <1>1, <1>8, StoredSame
  <2>2. IsFiniteSet(V)
    BY ValidFinite
  <2>3. Cardinality(W) <= Cardinality(V) /\ (Cardinality(W) = Cardinality(V) => W = V)
    <3> HIDE DEF W, V
    <3> QED
      BY <1>1, <2>2, FS_Subset
  <2> QED
    BY <1>2, <1>3, <2>1, <2>3
<1> QED
  BY <1>7, <1>8

\* A new frame that is newer than all others adds one event at the end.
LEMMA StoredGrows ==
    ASSUME NEW f, NEW g, Aged(f, ValidAddrs(f)), Aged(g, ValidAddrs(g)),
           NEW st, st \notin ValidAddrs(f), ValidAddrs(g) = ValidAddrs(f) \cup {st},
           \A a \in ValidAddrs(f) : g[a] = f[a] /\ IsSeqNewer(g[st].seq, f[a].seq)
    PROVE  LET old == StoredSeqs(f)
               new == StoredSeqs(g)
           IN  /\ Len(new) = Len(old) + 1 /\ SubSeq(new, 1, Len(old)) = old
               /\ new[Len(new)] \in Seqs
               /\ old # << >> => IsSeqNewer(new[Len(new)], old[Len(old)])
<1> DEFINE V == ValidAddrs(f)
           W == ValidAddrs(g)
           s == ByAge(f)
           t == ByAge(g)
           old == StoredSeqs(f)
           new == StoredSeqs(g)
<1>1. /\ InAge(f, V, s) /\ s \in Seq(V) /\ old \in Seq(Seqs) /\ Len(old) = Len(s)
      /\ Len(s) \in Nat /\ DOMAIN old = DOMAIN s /\ DOMAIN s = 1 .. Len(s)
      /\ \A i \in DOMAIN s : s[i] \in V /\ old[i] = f[s[i]].seq
  BY StoredFacts
<1>2. /\ InAge(g, W, t) /\ t \in Seq(W) /\ new \in Seq(Seqs) /\ Len(new) = Len(t)
      /\ Len(t) \in Nat /\ DOMAIN new = DOMAIN t /\ DOMAIN t = 1 .. Len(t)
      /\ \A i \in DOMAIN t : new[i] = g[t[i]].seq
  BY StoredFacts
<1>3. InAge(g, V, s)
  BY <1>1 DEF InAge
<1>4. t = Append(s, st)
  <2>1. InAge(g, V \cup {st}, Append(s, st))
    <3> HIDE DEF V, s
    <3>1. \A b \in V : IsSeqNewer(g[st].seq, g[b].seq)
      BY DEF V
    <3> QED
      BY <1>3, <3>1, InAgeAppend
  <2> QED
    BY <1>2, <2>1, InAgeUnique
<1> HIDE DEF s, t, old, new
<1>5. /\ Len(t) = Len(s) + 1 /\ t[Len(s) + 1] = st
      /\ \A i \in 1 .. Len(s) : t[i] = s[i]
  BY <1>1, <1>4
<1>6. \A i \in 1 .. Len(old) : new[i] = old[i]
  <2> TAKE i \in 1 .. Len(old)
  <2>1. i \in DOMAIN s /\ i \in DOMAIN t /\ t[i] = s[i]
    BY <1>1, <1>2, <1>5
  <2>2. g[s[i]] = f[s[i]]
    BY <1>1, <2>1
  <2> QED
    BY <1>1, <1>2, <2>1, <2>2
<1>7. Len(new) = Len(old) + 1 /\ SubSeq(new, 1, Len(old)) = old
  BY <1>1, <1>2, <1>5, <1>6
<1>8. new[Len(new)] \in Seqs /\ new[Len(new)] = g[st].seq
  BY <1>1, <1>2, <1>5
<1>9. ASSUME old # << >>
      PROVE  IsSeqNewer(new[Len(new)], old[Len(old)])
  <2>1. Len(s) \in DOMAIN s
    BY <1>1, <1>9
  <2> QED
    BY <1>1, <1>8, <2>1
<1> QED
  BY <1>7, <1>8, <1>9 DEF old, new

\* The smallest frame.
MinFrame == CHOOSE n \in FrameSizes : \A m \in FrameSizes : n <= m

LEMMA MinFrameFacts ==
    MinFrame \in Nat \ {0} /\ MinFrame <= SectorSize /\ \A m \in FrameSizes : MinFrame <= m
<1>1. FrameSizes \in SUBSET Nat /\ FrameSizes # {} /\ \A m \in FrameSizes : 1 <= m /\ m <= SectorSize
  BY FrameAssumption, ConfigAssumption
<1>2. \E n \in FrameSizes : \A m \in FrameSizes : n <= m
  BY <1>1, LeastNat
<1>3. MinFrame \in FrameSizes /\ \A m \in FrameSizes : MinFrame <= m
  BY <1>2 DEF MinFrame
<1> QED
  BY <1>1, <1>3

LEMMA Quotient ==
    ASSUME NEW m \in Nat \ {0}, NEW n \in Nat, NEW k \in Nat, k * m <= n
    PROVE  k <= n \div m
<1>1. n = m * (n \div m) + (n % m) /\ n % m \in 0 .. m - 1 /\ n \div m \in Nat
  BY DivMod
<1>2. SUFFICES ASSUME n \div m < k PROVE FALSE
  BY <1>1
<1>3. m * (n \div m) + m <= m * k
  BY <1>1, <1>2, MulGap
<1> QED
  BY <1>1, <1>3

\* In a ring cut at sector s, the frames of s are the oldest of the log, and no more of
\* them than fit in a sector.
LEMMA OldestOfSector ==
    ASSUME NEW f \in Images, CellsWellPlaced(f), Aged(f, ValidAddrs(f)),
           NEW s \in Addrs, IsSectorStart(s), RingSorted(f, s),
           NEW k \in DOMAIN ByAge(f), ByAge(f)[k] \in Span(s, SectorSize)
    PROVE  k <= SectorSize \div MinFrame
<1> DEFINE t == ByAge(f)
           V == ValidAddrs(f)
           D(i) == RingDist(s, t[i])
<1>1. /\ InAge(f, V, t) /\ DOMAIN t = 1 .. Len(t) /\ Len(t) \in Nat
      /\ \A i \in DOMAIN t : t[i] \in V
  BY StoredFacts
<1> HIDE DEF t
<1>2. k \in 1 .. Len(t) /\ t[k] \in Span(s, SectorSize)
  BY <1>1 DEF t
<1>3. /\ s \in Nat /\ StartAddr <= s /\ s + SectorSize <= EndAddr
      /\ \A a \in V : /\ a \in Addrs /\ a \in Nat /\ RingDist(s, a) \in Nat
                      /\ f[a].len \in Nat /\ MinFrame <= f[a].len /\ f[a].off = 0
                      /\ a + f[a].len <= EndAddr /\ f[a].seq \in Seqs
                      /\ \A x \in Span(a, f[a].len) : f[x].off = x - a
  <2>1. s \in Nat /\ StartAddr <= s /\ s + SectorSize <= EndAddr
    BY SectorStartEnd, SectorEndType, ImageFacts, ConfigAssumption DEF Addrs
  <2>2. \A a \in V : f[a].len \in FrameSizes
    BY ValidFacts DEF Cells
  <2> SUFFICES ASSUME NEW a \in V
               PROVE  /\ a \in Addrs /\ a \in Nat /\ RingDist(s, a) \in Nat
                      /\ f[a].len \in Nat /\ MinFrame <= f[a].len /\ f[a].off = 0
                      /\ a + f[a].len <= EndAddr /\ f[a].seq \in Seqs
                      /\ \A x \in Span(a, f[a].len) : f[x].off = x - a
    BY <2>1
  <2>3. /\ a \in Addrs /\ f[a].len \in Nat /\ f[a].off = 0 /\ a + f[a].len <= EndAddr
        /\ f[a].seq \in Seqs /\ \A x \in Span(a, f[a].len) : f[x].off = x - a
    BY ValidFacts
  <2>4. a \in Nat
    BY <2>3, ImageFacts
  <2>5. RingDist(s, a) \in Nat
    BY <2>3, RingDistFacts
  <2>6. MinFrame <= f[a].len
    BY <2>2, MinFrameFacts
  <2> QED
    BY <2>3, <2>4, <2>5, <2>6
<1>4. ASSUME NEW i \in DOMAIN t, NEW j \in DOMAIN t, i < j
      PROVE  D(i) + MinFrame <= D(j)
  <2>1. t[i] \in V /\ t[j] \in V /\ IsSeqNewer(f[t[j]].seq, f[t[i]].seq)
    BY <1>1, <1>4 DEF InAge
  <2>2. ~ IsSeqNewer(f[t[i]].seq, f[t[j]].seq) /\ t[i] # t[j]
    BY <1>3, <2>1, NewerFacts
  <2>3. D(i) < D(j)
    BY <1>3, <2>1, <2>2, RingFacts DEF RingSorted
  <2>4. t[j] \notin Span(t[i], f[t[i]].len)
    <3>1. t[i] \in Nat /\ t[j] \in Nat /\ f[t[j]].off = 0
      BY <1>3, <2>1
    <3>2. t[j] \in Span(t[i], f[t[i]].len) => f[t[j]].off = t[j] - t[i]
      BY <1>3, <2>1
    <3> QED
      BY <2>2, <3>1, <3>2
  <2>5. ~ (t[i] <= t[j] /\ t[j] < t[i] + f[t[i]].len)
    BY <1>3, <2>1, <2>4 DEF Span
  <2> QED
    BY <1>3, <2>1, <2>3, <2>5, MinFrameFacts, ConfigAssumption DEF RingDist, AreaSize, Addrs
<1>5. \A i \in DOMAIN t : (i - 1) * MinFrame <= D(i)
  <2> DEFINE Bad == {i \in DOMAIN t : ~ ((i - 1) * MinFrame <= D(i))}
  <2> SUFFICES ASSUME Bad # {} PROVE FALSE
    OBVIOUS
  <2>1. Bad \in SUBSET Nat
    BY <1>1
  <2>2. PICK i \in Bad : \A j \in Bad : i <= j
    <3> HIDE DEF Bad
    <3> QED
      BY <2>1, LeastNat
  <2>3. i \in DOMAIN t /\ i \in Nat /\ D(i) \in Nat /\ ~ ((i - 1) * MinFrame <= D(i))
    BY <1>1, <1>3
  <2>4. CASE i = 1
    BY <2>3, <2>4, MinFrameFacts
  <2>5. CASE i # 1
    <3>1. i - 1 \in DOMAIN t /\ i - 1 < i /\ i - 1 \in Nat
      BY <1>1, <2>3, <2>5
    <3>2. ((i - 1) - 1) * MinFrame <= D(i - 1) /\ D(i - 1) \in Nat
      BY <1>1, <1>3, <2>2, <3>1
    <3>3. D(i - 1) + MinFrame <= D(i)
      BY <1>4, <2>3, <3>1
    <3> HIDE DEF D
    <3>4. (i - 1) * MinFrame = ((i - 1) - 1) * MinFrame + MinFrame
      BY <3>1, MinFrameFacts
    <3>5. (i - 1) * MinFrame \in Nat /\ ((i - 1) - 1) * MinFrame \in Int
      BY <3>1, MinFrameFacts
    <3> QED
      BY <2>3, <3>2, <3>3, <3>4, <3>5, MinFrameFacts
  <2> QED
    BY <2>4, <2>5
<1>6. D(k) + MinFrame <= SectorSize
  <2>1. t[k] \in V /\ t[k] + f[t[k]].len <= SectorEnd(t[k])
    BY <1>1, <1>2, FrameInSector
  <2>2. SectorEnd(s) = s + SectorSize
    BY SectorStartEnd
  <2>3. t[k] \in Nat /\ s <= t[k] /\ t[k] < SectorEnd(s) /\ SectorEnd(s) - SectorSize <= t[k]
    BY <1>2, <1>3, <2>1, <2>2, ConfigAssumption DEF Span
  <2>4. SectorEnd(t[k]) = SectorEnd(s)
    BY <2>3, SameSector
  <2> QED
    BY <1>3, <2>1, <2>2, <2>3, <2>4, MinFrameFacts, ConfigAssumption DEF RingDist
<1>7. k * MinFrame <= SectorSize
  <2>1. (k - 1) * MinFrame <= D(k) /\ D(k) \in Nat /\ k \in Nat
    BY <1>1, <1>2, <1>3, <1>5
  <2> HIDE DEF D
  <2>2. k * MinFrame = (k - 1) * MinFrame + MinFrame /\ (k - 1) * MinFrame \in Int
    BY <2>1, MinFrameFacts
  <2> QED
    BY <1>6, <2>1, <2>2, MinFrameFacts, ConfigAssumption
<1> QED
  BY <1>2, <1>7, Quotient, MinFrameFacts, ConfigAssumption

\* Frames lost from the sector where the ring is cut are an eviction.
LEMMA StoredEvicts ==
    ASSUME NEW f \in Images, CellsWellPlaced(f), Aged(f, ValidAddrs(f)),
           NEW g, Aged(g, ValidAddrs(g)), Fewer(f, g),
           NEW s \in Addrs, IsSectorStart(s), RingSorted(f, s),
           \A a \in ValidAddrs(f) : a \notin Span(s, SectorSize) => ValidFrameAt(g, a)
    PROVE  \A k \in DOMAIN StoredSeqs(f) : k > SectorSize \div MinFrame =>
             \E i \in DOMAIN StoredSeqs(g) : StoredSeqs(g)[i] = StoredSeqs(f)[k]
<1> SUFFICES ASSUME NEW k \in DOMAIN StoredSeqs(f), k > SectorSize \div MinFrame
             PROVE  \E i \in DOMAIN StoredSeqs(g) : StoredSeqs(g)[i] = StoredSeqs(f)[k]
  OBVIOUS
<1> DEFINE a == ByAge(f)[k]
<1>1. /\ k \in DOMAIN ByAge(f) /\ a \in ValidAddrs(f) /\ StoredSeqs(f)[k] = f[a].seq /\ k \in Nat
  BY StoredFacts
<1>2. a \notin Span(s, SectorSize)
  <2>1. SectorSize \div MinFrame \in Nat
    BY MinFrameFacts, DivMod, ConfigAssumption
  <2> QED
    BY <1>1, <2>1, OldestOfSector
<1>3. a \in ValidAddrs(g) /\ g[a] = f[a]
  BY <1>1, <1>2, FewerFacts DEF ValidAddrs
<1>4. PICK i \in DOMAIN ByAge(g) : ByAge(g)[i] = a
  BY <1>3, StoredFacts DEF InAge
<1>5. i \in DOMAIN StoredSeqs(g) /\ StoredSeqs(g)[i] = g[a].seq
  BY <1>4, StoredFacts
<1> QED
  BY <1>1, <1>3, <1>5

-----------------------------------------------------------------------------
(* The storage implements the event log.                                   *)

\* Between any two flash commands the frames have one order of age.
LEMMA AlwaysAged == RingIndexInv => Aged(flash, ValidAddrs(flash))
<1> SUFFICES ASSUME RingIndexInv PROVE Aged(flash, ValidAddrs(flash))
  OBVIOUS
<1>1. /\ flash \in Images /\ OneWindow(flash) /\ idx.write \in Addrs /\ job.start \in Addrs
      /\ pc \in {"off", "idle", "erase", "program", "commit", "wipe"}
  BY DEF RingIndexInv, IInv, TypeOK, FlashInv, Indexes
<1>2. CutAt(idx.write) \in Addrs /\ WrapAddress(SectorEnd(job.start)) \in Addrs
  BY <1>1, CutFacts, NextSectorType
<1>3. \E e \in Addrs : RingSorted(flash, e)
  BY <1>1, <1>2 DEF RingIndexInv, OrderInv
<1> QED
  BY <1>1, <1>3, RingAged

LEMMA AlwaysAgedNext == RingIndexInv' => Aged(flash', ValidAddrs(flash'))
<1>1. (RingIndexInv => Aged(flash, ValidAddrs(flash)))'
  BY AlwaysAged, PTL
<1> QED
  BY <1>1

\* An erase command of append(), whole or torn, evicts or changes nothing.
LEMMA EraseEvicts ==
    ASSUME RingIndexInv, RingIndexInv', ~ disordered, ~ disordered',
           pc = "erase", (pc = "wipe")' = FALSE,
           flash' \in TornErases(flash, job.start) \cup {EraseCells(flash, job.start)}
    PROVE  \/ StoredSeqs(flash') = StoredSeqs(flash)
           \/ AbstractLog!Evict(StoredSeqs(flash), StoredSeqs(flash'))
<1>1. /\ job.start \in Addrs /\ IsSectorStart(job.start) /\ flash \in Images
      /\ CellsWellPlaced(flash) /\ SectorSorted(flash) /\ OneWindow(flash)
      /\ RingSorted(flash, job.start)
  BY DEF RingIndexInv, IInv, TypeOK, FlashInv, OrderInv
<1>2. Aged(flash, ValidAddrs(flash)) /\ Aged(flash', ValidAddrs(flash'))
  BY AlwaysAged, AlwaysAgedNext
<1>3. /\ Fewer(flash, flash')
      /\ \A a \in ValidAddrs(flash) : a \notin Span(job.start, SectorSize) =>
           ValidFrameAt(flash', a)
  <2>1. CASE flash' \in TornErases(flash, job.start)
    BY <1>1, <2>1, TornEraseFacts
  <2>2. CASE flash' = EraseCells(flash, job.start)
    BY <1>1, <2>2, EraseFacts
  <2> QED
    BY <2>1, <2>2
<1>4. ASSUME StoredSeqs(flash') # StoredSeqs(flash)
      PROVE  AbstractLog!Evict(StoredSeqs(flash), StoredSeqs(flash'))
  <2>1. /\ AbstractLog!PartOf(StoredSeqs(flash'), StoredSeqs(flash))
        /\ Len(StoredSeqs(flash')) < Len(StoredSeqs(flash))
    BY <1>2, <1>3, <1>4, StoredPart
  <2>2. \A k \in DOMAIN StoredSeqs(flash) : k > SectorSize \div MinFrame =>
          \E i \in DOMAIN StoredSeqs(flash') : StoredSeqs(flash')[i] = StoredSeqs(flash)[k]
    BY <1>1, <1>2, <1>3, StoredEvicts
  <2>3. (pc = "wipe")' = (pc = "wipe") /\ (~ disordered)' = (~ disordered)
    OBVIOUS
  <2> QED
    BY <2>1, <2>2, <2>3 DEF AbstractLog!Evict, MinFrame
<1> QED
  BY <1>4

\* A program command of append(), whole or torn, records the event or changes nothing.
LEMMA ProgramRecords ==
    ASSUME RingIndexInv, RingIndexInv', ~ disordered, ~ disordered',
           pc = "program", (pc = "wipe")' = FALSE,
           flash' \in TornPrograms(flash, job, job.start, job.pos, Chunk)
    PROVE  \/ StoredSeqs(flash') = StoredSeqs(flash)
           \/ AbstractLog!Record(StoredSeqs(flash), StoredSeqs(flash'))
<1>1. ProgramStep(flash, job, Chunk) /\ InSeqWindow(flash, job.seq)
      /\ SectorSorted(flash) /\ OneWindow(flash)
  BY ChunkFacts DEF RingIndexInv
<1>2. Aged(flash, ValidAddrs(flash)) /\ Aged(flash', ValidAddrs(flash'))
  BY AlwaysAged, AlwaysAgedNext
<1>3. /\ \A a \in ValidAddrs(flash) : a \in ValidAddrs(flash') /\ flash'[a] = flash[a]
      /\ \A a \in ValidAddrs(flash') : a \notin ValidAddrs(flash) =>
           a = job.start /\ flash'[job.start].seq = job.seq
  <2>1. \A a \in ValidAddrs(flash) : a \in ValidAddrs(flash') /\ flash'[a] = flash[a]
    BY <1>1, TornProgramFacts DEF ValidAddrs
  <2>2. CASE flash' = ProgramCells(flash, job, job.start, job.pos, Chunk)
    <3>1. /\ \A a \in Addrs : a # job.start /\ ValidFrameAt(flash', a) => ValidFrameAt(flash, a)
          /\ ValidFrameAt(flash', job.start) => flash'[job.start].seq = job.seq
      BY <1>1, <2>2, ProgramFacts
    <3> QED
      BY <2>1, <3>1 DEF ValidAddrs
  <2>3. CASE \E T \in SUBSET Span(job.pos, Chunk) : flash' = Smash(flash, T, Junk)
    <3>1. Fewer(flash, flash')
      BY <1>1, <2>3, SmashFacts DEF ProgramStep, ProgramBase
    <3> QED
      BY <2>1, <3>1, FewerFacts
  <2> QED
    BY <2>2, <2>3 DEF TornPrograms
<1>4. CASE job.start \in ValidAddrs(flash) \/ job.start \notin ValidAddrs(flash')
  <2>1. ValidAddrs(flash') = ValidAddrs(flash)
    BY <1>3, <1>4
  <2> QED
    BY <1>2, <1>3, <2>1, StoredSame
<1>5. CASE job.start \notin ValidAddrs(flash) /\ job.start \in ValidAddrs(flash')
  <2>1. ValidAddrs(flash') = ValidAddrs(flash) \cup {job.start}
    BY <1>3, <1>5
  <2>2. \A a \in ValidAddrs(flash) :
          flash'[a] = flash[a] /\ IsSeqNewer(flash'[job.start].seq, flash[a].seq)
    BY <1>1, <1>3, <1>5 DEF InSeqWindow
  <2>3. LET old == StoredSeqs(flash)
            new == StoredSeqs(flash')
        IN  /\ Len(new) = Len(old) + 1 /\ SubSeq(new, 1, Len(old)) = old
            /\ new[Len(new)] \in Seqs
            /\ old # << >> => IsSeqNewer(new[Len(new)], old[Len(old)])
    <3> HIDE DEF Seqs
    <3> QED
      BY <1>2, <1>5, <2>1, <2>2, StoredGrows
  <2>4. (pc = "wipe")' = (pc = "wipe") /\ (~ disordered)' = (~ disordered)
    OBVIOUS
  <2> QED
    BY <2>3, <2>4 DEF AbstractLog!Record
<1> QED
  BY <1>4, <1>5

\* While eraseLogArea runs events disappear, none appears.
LEMMA WipeClears ==
    ASSUME RingIndexInv, RingIndexInv', ~ disordered, ~ disordered', pc = "wipe",
           flash' \in TornErases(flash, job.pos) \cup {EraseCells(flash, job.pos)}
    PROVE  AbstractLog!Clear(StoredSeqs(flash), StoredSeqs(flash'))
<1>1. /\ job.pos \in Addrs /\ IsSectorStart(job.pos) /\ flash \in Images
      /\ CellsWellPlaced(flash) /\ SectorSorted(flash) /\ OneWindow(flash)
  BY DEF RingIndexInv, IInv, TypeOK, FlashInv
<1>2. Aged(flash, ValidAddrs(flash)) /\ Aged(flash', ValidAddrs(flash'))
  BY AlwaysAged, AlwaysAgedNext
<1>3. Fewer(flash, flash')
  <2>1. CASE flash' \in TornErases(flash, job.pos)
    BY <1>1, <2>1, TornEraseFacts
  <2>2. CASE flash' = EraseCells(flash, job.pos)
    BY <1>1, <2>2, EraseFacts
  <2> QED
    BY <2>1, <2>2
<1>4. AbstractLog!PartOf(StoredSeqs(flash'), StoredSeqs(flash))
  BY <1>2, <1>3, StoredPart
<1>5. (pc = "wipe")' \in BOOLEAN /\ (~ disordered)' = (~ disordered)
  OBVIOUS
<1> QED
  BY <1>4, <1>5 DEF AbstractLog!Clear

\* A step between states in order.
LEMMA OrderedImplementsLog ==
    ASSUME RingIndexInv, RingIndexInv', ~ disordered, ~ disordered', [Next]_vars
    PROVE  LET old == StoredSeqs(flash)
               new == StoredSeqs(flash')
           IN  \/ AbstractLog!Record(old, new)
               \/ AbstractLog!Evict(old, new)
               \/ AbstractLog!Clear(old, new)
               \/ (pc = "wipe")' = TRUE /\ new = old
               \/ (pc = "wipe")' = (pc = "wipe") /\ new = old
<1> DEFINE old == StoredSeqs(flash)
           new == StoredSeqs(flash')
           Step == \/ AbstractLog!Record(old, new)
                   \/ AbstractLog!Evict(old, new)
                   \/ AbstractLog!Clear(old, new)
                   \/ (pc = "wipe")' = TRUE /\ new = old
<1>1. SUFFICES Step \/ ((pc = "wipe")' = (pc = "wipe") /\ new = old)
  OBVIOUS
<1>2. pc \in {"off", "idle", "erase", "program", "commit", "wipe"}
  BY DEF RingIndexInv, IInv, TypeOK
<1>3. CASE UNCHANGED vars
  BY <1>3 DEF vars
<1>4. CASE Boot \/ AppendFrame \/ Commit \/ SetNextSeq
  BY <1>4 DEF Boot, AppendFrame, AppendFresh, AppendLate, AppendStart, Commit, SetNextSeq
<1>5. CASE EraseSector
  <2>1. pc = "erase" /\ pc' = "program" /\ flash' = EraseCells(flash, job.start)
    BY <1>5 DEF EraseSector
  <2> QED
    BY <2>1, EraseEvicts
<1>6. CASE ProgramChunk
  <2>1. /\ pc = "program" /\ pc' # "wipe"
        /\ flash' \in TornPrograms(flash, job, job.start, job.pos, Chunk)
    BY <1>6 DEF ProgramChunk, TornPrograms
  <2> QED
    BY <2>1, ProgramRecords
<1>7. CASE AppendFails
  <2>1. pc' = "idle" /\ \/ pc = "erase" /\ flash' \in TornErases(flash, job.start)
                        \/ /\ pc = "program"
                           /\ flash' \in TornPrograms(flash, job, job.start, job.pos, Chunk)
    BY <1>7 DEF AppendFails
  <2> QED
    BY <2>1, EraseEvicts, ProgramRecords
<1>8. CASE EraseAllStart
  BY <1>8 DEF EraseAllStart
<1>9. CASE WipeSector \/ WipeFails
  <2>1. pc = "wipe" /\ flash' \in TornErases(flash, job.pos) \cup {EraseCells(flash, job.pos)}
    BY <1>9 DEF WipeSector, WipeFails
  <2> QED
    BY <2>1, WipeClears
<1>10. CASE Crash
  <2>1. pc' = "off"
    BY <1>10 DEF Crash
  <2>2. CASE pc = "erase"
    BY <1>10, <2>1, <2>2, EraseEvicts DEF Crash
  <2>3. CASE pc = "program"
    BY <1>10, <2>1, <2>3, ProgramRecords DEF Crash
  <2>4. CASE pc = "wipe"
    BY <1>10, <2>4, WipeClears DEF Crash
  <2>5. CASE pc \notin {"erase", "program", "wipe"}
    BY <1>10, <2>1, <2>5 DEF Crash
  <2> QED
    BY <2>2, <2>3, <2>4, <2>5
<1> QED
  BY <1>3, <1>4, <1>5, <1>6, <1>7, <1>8, <1>9, <1>10 DEF Next

LEMMA StoredNone ==
    ASSUME NEW f, ValidAddrs(f) = {}
    PROVE  StoredSeqs(f) = << >>
<1>1. Aged(f, {})
  BY SeqFacts, FS_EmptySet DEF Aged
<1>2. Len(StoredSeqs(f)) = 0 /\ StoredSeqs(f) \in Seq(Seqs)
  BY <1>1, StoredFacts, FS_EmptySet
<1> QED
  BY <1>2

\* The log that the storage stands for.
LogOf == IF disordered THEN << >> ELSE StoredSeqs(flash)

LEMMA StepImplementsLog ==
    ASSUME LogInv, LogInv', [Next]_vars
    PROVE  \/ AbstractLog!Next
           \/ /\ LogOf' = LogOf /\ (pc = "wipe")' = (pc = "wipe")
              /\ (~ disordered)' = (~ disordered)
<1>0. /\ disordered \in BOOLEAN /\ disordered' \in BOOLEAN
      /\ LogOf = (IF disordered THEN << >> ELSE StoredSeqs(flash))
      /\ LogOf' = (IF disordered' THEN << >> ELSE StoredSeqs(flash'))
  BY DEF LogInv, Inv, TInv, TypeOK, LogOf
<1>1. CASE ~ disordered /\ ~ disordered'
  <2>1. LogOf = StoredSeqs(flash) /\ LogOf' = StoredSeqs(flash') /\ (~ disordered)' = (~ disordered)
    BY <1>0, <1>1
  <2>2. \/ AbstractLog!Record(LogOf, LogOf')
        \/ AbstractLog!Evict(LogOf, LogOf')
        \/ AbstractLog!Clear(LogOf, LogOf')
        \/ (pc = "wipe")' = TRUE /\ LogOf' = LogOf
        \/ (pc = "wipe")' = (pc = "wipe") /\ LogOf' = LogOf
    BY <1>1, <2>1, OrderedImplementsLog DEF LogInv
  <2> QED
    BY <2>1, <2>2 DEF AbstractLog!Next, AbstractLog!StartClear, LogOf
<1>2. CASE ~ disordered /\ disordered'
  <2>1. pc = "idle" /\ pc' \in {"erase", "program"}
    BY <1>2 DEF Next, Boot, AppendFrame, AppendFresh, AppendLate, AppendStart, EraseSector,
       ProgramChunk, Commit, AppendFails, EraseAllStart, WipeSector, WipeFails, SetNextSeq,
       Crash, vars, feed
  <2>2. (~ disordered)' = FALSE /\ LogOf' = << >> /\ (pc = "wipe")' = (pc = "wipe")
    BY <1>0, <1>2, <2>1
  <2> QED
    BY <2>2 DEF AbstractLog!Next, AbstractLog!LoseOrder, LogOf
<1>3. CASE disordered /\ ~ disordered'
  <2>1. LastWipe
    BY <1>3, OrderKept
  <2>2. pc = "wipe" /\ pc' = "idle" /\ ValidAddrs(flash') = {}
    BY <2>1, LastWipeInv DEF LastWipe, WipeSector, LogInv, Inv, TInv
  <2>3. LogOf = << >> /\ LogOf' = << >>
    BY <1>0, <1>3, <2>2, StoredNone
  <2>4. AbstractLog!Clear(LogOf, LogOf')
    BY <1>3, <2>2, <2>3 DEF AbstractLog!Clear, AbstractLog!PartOf
  <2> QED
    BY <2>4 DEF AbstractLog!Next, LogOf
<1>4. CASE disordered /\ disordered'
  <2>1. LogOf = << >> /\ LogOf' = << >> /\ (~ disordered)' = (~ disordered)
    BY <1>0, <1>4
  <2>2. CASE pc' = "wipe"
    BY <2>1, <2>2 DEF AbstractLog!Next, AbstractLog!StartClear, LogOf
  <2>3. CASE pc = "wipe" /\ pc' # "wipe"
    <3>1. AbstractLog!Clear(LogOf, LogOf')
      BY <2>1, <2>3 DEF AbstractLog!Clear, AbstractLog!PartOf
    <3> QED
      BY <3>1 DEF AbstractLog!Next, LogOf
  <2>4. CASE pc # "wipe" /\ pc' # "wipe"
    BY <2>1, <2>4
  <2> QED
    BY <2>2, <2>3, <2>4
<1> QED
  BY <1>1, <1>2, <1>3, <1>4

LEMMA InitImplementsLog == Init => AbstractLog!Init
<1> SUFFICES ASSUME Init PROVE AbstractLog!Init
  OBVIOUS
<1>1. ValidAddrs(flash) = {} /\ pc = "off" /\ disordered = FALSE
  BY CellAssumption DEF Init, ValidAddrs, ValidFrameAt
<1>2. StoredSeqs(flash) = << >>
  BY <1>1, StoredNone
<1> QED
  BY <1>1, <1>2 DEF AbstractLog!Init

\* The storage implements the event log: an append adds an event at its end, recycling a
\* sector takes events from its old end only and no more than a sector holds, and only
\* eraseLogArea takes others; until a frame is handed over behind a newer one, and again
\* once the log has been erased, as long as no rebuild skips a sector behind a frame that
\* fills its own.
THEOREM StorageIsAnEventLog == Spec /\ NoSectorSkipped => ImplementsEventLog
<1>1. LogInv /\ LogInv' /\ [Next]_vars =>
        [AbstractLog!Next]_<<LogOf, pc = "wipe", ~ disordered>>
  BY StepImplementsLog
<1>2. Init => AbstractLog!Init
  BY InitImplementsLog
<1> QED
  BY <1>1, <1>2, LogInvInit, LogInvNext, PTL
     DEF Spec, NoSectorSkipped, ImplementsEventLog, AbstractLog!Spec, LogOf

\* With frame sizes that cannot fill a sector exactly it does so without that condition.
THEOREM StorageIsAnEventLogUnfilled ==
    ASSUME NoFramesFillASector
    PROVE  Spec => ImplementsEventLog
<1>1. PICK P \in SUBSET (0 .. SectorSize - 1) : ReachedBy(P)
  BY DEF NoFramesFillASector
<1>2. Spec => NoSectorSkipped
  BY <1>1, NothingSkipped
<1> QED
  BY <1>2, StorageIsAnEventLog, PTL
=============================================================================
