------------------------------ MODULE UnitProofs ------------------------------
(***************************************************************************)
(* Proofs about the parts that run by themselves: the mean that adc_task   *)
(* publishes, the values of the BME280, the line editor and the CRC.       *)
(***************************************************************************)
EXTENDS MovingAverage, Bme280, CommandLine, Crc32, TLAPS, SequenceTheorems, WellFoundedInduction

-----------------------------------------------------------------------------
(* Numbers and sums.                                                       *)

\* The least element of a set of numbers, which stands in for induction.
LEMMA NatMin ==
  ASSUME NEW T, T \subseteq Nat, T # {}
  PROVE  \E x \in T : \A y \in T : x <= y
<1> DEFINE R == {ss \in Nat \X Nat : ss[1] < ss[2]}
<1>1. IsWellFoundedOn(R, Nat)
  BY NatLessThanWellFounded DEF OpToRel
<1>2. PICK x \in T : \A y \in T : ~ (<<y, x>> \in R)
  <2> HIDE DEF R
  <2> QED
    BY <1>1, WFMin, Zenon
<1>3. ASSUME NEW y \in T PROVE x <= y
  <2>1. <<y, x>> \in Nat \X Nat /\ ~ (<<y, x>> \in R)
    BY <1>2
  <2> QED
    BY <2>1
<1> QED
  BY <1>3

\* A loop of n steps has a run, one step after the other.
LEMMA LoopRuns ==
  ASSUME NEW S, NEW first \in S, NEW n \in Nat, NEW step \in [1 .. n -> [S -> S]]
  PROVE  \E f \in [0 .. n -> S] :
            f[0] = first /\ \A i \in 1 .. n : f[i] = step[i][f[i - 1]]
<1> DEFINE Run(k, f) == /\ f \in [0 .. k -> S] /\ f[0] = first
                        /\ \A i \in 1 .. k : f[i] = step[i][f[i - 1]]
           T == {k \in 0 .. n : ~ \E f : Run(k, f)}
<1>1. ASSUME T # {} PROVE FALSE
  <2>1. T \subseteq Nat
    OBVIOUS
  <2>2. PICK k \in T : \A j \in T : k <= j
    <3> HIDE DEF T
    <3> QED
      BY <1>1, <2>1, NatMin
  <2>3. k \in 0 .. n /\ ~ \E f : Run(k, f)
    BY <2>2
  <2>4. k # 0
    <3>1. Run(0, [i \in 0 .. 0 |-> first])
      OBVIOUS
    <3> QED
      BY <2>3, <3>1
  <2>5. k - 1 \in 0 .. n /\ k - 1 \notin T
    <3> HIDE DEF T
    <3> QED
      BY <2>1, <2>2, <2>3, <2>4
  <2>6. PICK f : Run(k - 1, f)
    BY <2>5
  <2> DEFINE g == [i \in 0 .. k |-> IF i = k THEN step[k][f[k - 1]] ELSE f[i]]
  <2>7. f[k - 1] \in S /\ step[k] \in [S -> S] /\ step[k][f[k - 1]] \in S
    <3>1. k \in 1 .. n /\ k - 1 \in 0 .. k - 1
      BY <2>3, <2>4
    <3> QED
      BY <2>6, <3>1
  <2>8. g \in [0 .. k -> S]
    BY <2>3, <2>6, <2>7
  <2>9. g[0] = first
    BY <2>3, <2>4, <2>6
  <2>10. ASSUME NEW i \in 1 .. k PROVE g[i] = step[i][g[i - 1]]
    <3>1. i - 1 \in 0 .. k /\ i - 1 # k /\ g[i - 1] = f[i - 1]
      BY <2>3
    <3>2. CASE i = k
      BY <2>3, <3>1, <3>2
    <3>3. CASE i # k
      <4>1. i \in 1 .. k - 1 /\ g[i] = f[i]
        BY <2>3, <3>3
      <4> QED
        BY <2>6, <3>1, <4>1
    <3> QED
      BY <3>2, <3>3
  <2>11. Run(k, g)
    <3> HIDE DEF g
    <3> QED
      BY <2>8, <2>9, <2>10
  <2> QED
    BY <2>3, <2>11
<1>2. n \notin T
  BY <1>1
<1>3. PICK f : Run(n, f)
  BY <1>2
<1> QED
  BY <1>3

\* A loop that counts up from 0 has a run.
LEMMA CountRuns ==
  ASSUME NEW n \in Nat
  PROVE  \A step \in [1 .. n -> [Nat -> Nat]] :
            \E f \in [0 .. n -> Nat] : f[0] = 0 /\ \A i \in 1 .. n : f[i] = step[i][f[i - 1]]
<1> DEFINE V == Nat
           zero == 0
<1>1. zero \in V
  OBVIOUS
<1> HIDE DEF V, zero
<1>2. ASSUME NEW step \in [1 .. n -> [V -> V]]
      PROVE  \E f \in [0 .. n -> V] : f[0] = zero /\ \A i \in 1 .. n : f[i] = step[i][f[i - 1]]
  BY <1>1, LoopRuns
<1> QED
  BY <1>2 DEF V, zero

LEMMA DivBounds ==
  ASSUME NEW s \in Int, NEW n \in Nat \ {0}
  PROVE  s \div n \in Int /\ (s \div n) * n <= s /\ s < ((s \div n) + 1) * n
  OBVIOUS

\* The equations of the partial sums have a solution, one element after the other.
Sums(s, k, f) == f \in [0 .. k -> Int] /\ f[0] = 0 /\ \A i \in 1 .. k : f[i] = f[i - 1] + s[i]

LEMMA SumsExist ==
  ASSUME NEW s \in Seq(Int)
  PROVE  \E f : Sums(s, Len(s), f)
<1> DEFINE T == {k \in 0 .. Len(s) : ~ \E f : Sums(s, k, f)}
<1>1. ASSUME T # {} PROVE FALSE
  <2>1. T \subseteq Nat
    OBVIOUS
  <2>2. PICK k \in T : \A j \in T : k <= j
    <3> HIDE DEF T
    <3> QED
      BY <1>1, <2>1, NatMin
  <2>3. k \in 0 .. Len(s) /\ ~ \E f : Sums(s, k, f)
    BY <2>2
  <2>4. k # 0
    <3>1. Sums(s, 0, [i \in 0 .. 0 |-> 0])
      BY DEF Sums
    <3> QED
      BY <2>3, <3>1
  <2>5. k - 1 \in 0 .. Len(s) /\ k - 1 \notin T
    <3> HIDE DEF T
    <3> QED
      BY <2>1, <2>2, <2>3, <2>4
  <2>6. PICK f : Sums(s, k - 1, f)
    BY <2>5
  <2> DEFINE g == [i \in 0 .. k |-> IF i < k THEN f[i] ELSE f[k - 1] + s[k]]
  <2>7. k \in Nat \ {0} /\ s[k] \in Int /\ f[k - 1] \in Int
    BY <2>3, <2>4, <2>6 DEF Sums
  <2>8. g \in [0 .. k -> Int] /\ g[0] = 0
    BY <2>6, <2>7 DEF Sums
  <2>9. ASSUME NEW i \in 1 .. k PROVE g[i] = g[i - 1] + s[i]
    BY <2>6, <2>7 DEF Sums
  <2>10. Sums(s, k, g)
    <3> HIDE DEF g
    <3> QED
      BY <2>8, <2>9 DEF Sums
  <2> QED
    BY <2>3, <2>10
<1>2. Len(s) \in 0 .. Len(s) /\ Len(s) \notin T
  <2> HIDE DEF T
  <2> QED
    BY <1>1
<1> QED
  BY <1>2

LEMMA SumsUnique ==
  ASSUME NEW s \in Seq(Int), NEW k \in 0 .. Len(s), NEW f, NEW g, NEW m \in Nat, k <= m,
         Sums(s, k, f), Sums(s, m, g)
  PROVE  f[k] = g[k]
<1> DEFINE T == {j \in 0 .. k : f[j] # g[j]}
<1>1. ASSUME T # {} PROVE FALSE
  <2>1. T \subseteq Nat
    OBVIOUS
  <2>2. PICK j \in T : \A i \in T : j <= i
    <3> HIDE DEF T
    <3> QED
      BY <1>1, <2>1, NatMin
  <2>3. j \in 0 .. k /\ f[j] # g[j]
    BY <2>2
  <2>4. j # 0
    BY <2>3 DEF Sums
  <2>5. j - 1 \in 0 .. k /\ j - 1 \notin T
    <3> HIDE DEF T
    <3> QED
      BY <2>1, <2>2, <2>3, <2>4
  <2>6. f[j - 1] = g[j - 1] /\ j \in 1 .. k /\ j \in 1 .. m
    BY <2>3, <2>4, <2>5
  <2>7. f[j] = f[j - 1] + s[j] /\ g[j] = g[j - 1] + s[j]
    BY <2>6 DEF Sums
  <2> QED
    BY <2>3, <2>6, <2>7
<1>2. k \in 0 .. k /\ k \notin T
  <2> HIDE DEF T
  <2> QED
    BY <1>1
<1> QED
  BY <1>2

LEMMA TotalIsSum ==
  ASSUME NEW s \in Seq(Int), NEW f, Sums(s, Len(s), f)
  PROVE  Total(s) = f[Len(s)] /\ Total(s) \in Int
<1> DEFINE Equation(g) == g = [i \in 0 .. Len(s) |-> IF i = 0 THEN 0 ELSE g[i - 1] + s[i]]
<1>1. Equation(f)
  <2>1. f = [i \in 0 .. Len(s) |-> f[i]]
    BY DEF Sums
  <2>2. \A i \in 0 .. Len(s) : f[i] = IF i = 0 THEN 0 ELSE f[i - 1] + s[i]
    BY DEF Sums
  <2> QED
    BY <2>1, <2>2
<1> DEFINE total == CHOOSE g : Equation(g)
<1>2. Equation(total)
  BY <1>1
<1>3. Total(s) = total[Len(s)]
  BY DEF Total
<1> HIDE DEF total
<1>4. Sums(s, Len(s), total)
  <2>1. Len(s) \in Nat /\ total[0] = 0 /\ \A i \in 1 .. Len(s) : total[i] = total[i - 1] + s[i]
    BY <1>2
  <2> DEFINE T == {j \in 0 .. Len(s) : total[j] \notin Int}
  <2>2. ASSUME T # {} PROVE FALSE
    <3>1. PICK j \in T : \A i \in T : j <= i
      <4>1. T \subseteq Nat
        BY <2>1
      <4> HIDE DEF T
      <4> QED
        BY <2>2, <4>1, NatMin
    <3>2. j \in 0 .. Len(s) /\ total[j] \notin Int
      BY <3>1
    <3>3. j # 0
      BY <2>1, <3>2
    <3>4. j - 1 \in 0 .. Len(s) /\ j - 1 \notin T
      <4> HIDE DEF T
      <4> QED
        BY <2>1, <3>1, <3>2, <3>3
    <3>5. total[j - 1] \in Int /\ total[j] = total[j - 1] + s[j] /\ s[j] \in Int
      BY <2>1, <3>2, <3>3, <3>4
    <3> QED
      BY <3>2, <3>5
  <2>3. \A j \in 0 .. Len(s) : total[j] \in Int
    BY <2>2
  <2>4. total = [i \in 0 .. Len(s) |-> total[i]]
    BY <1>2
  <2>5. total \in [0 .. Len(s) -> Int]
    BY <2>3, <2>4
  <2> QED
    BY <2>1, <2>5 DEF Sums
<1>5. total[Len(s)] = f[Len(s)] /\ total[Len(s)] \in Int
  <2>1. Len(s) \in 0 .. Len(s) /\ Len(s) \in Nat
    OBVIOUS
  <2>2. total[Len(s)] = f[Len(s)]
    BY <1>4, <2>1, SumsUnique
  <2>3. f[Len(s)] \in Int
    BY <2>1 DEF Sums
  <2> QED
    BY <2>2, <2>3
<1> QED
  BY <1>3, <1>5

LEMMA TotalEmpty == Total(<< >>) = 0
<1>1. Sums(<< >>, 0, [i \in 0 .. 0 |-> 0]) /\ << >> \in Seq(Int) /\ Len(<< >>) = 0
  BY DEF Sums
<1> QED
  BY <1>1, TotalIsSum

LEMMA TotalAppend ==
  ASSUME NEW s \in Seq(Int), NEW x \in Int
  PROVE  Total(Append(s, x)) = Total(s) + x
<1> DEFINE t == Append(s, x)
           n == Len(s)
<1>1. /\ t \in Seq(Int) /\ Len(t) = n + 1 /\ n \in Nat
      /\ t[n + 1] = x /\ \A i \in 1 .. n : t[i] = s[i]
  BY AppendProperties
<1> HIDE DEF t
<1>2. PICK g : Sums(t, n + 1, g)
  BY <1>1, SumsExist
<1> DEFINE f == [i \in 0 .. n |-> g[i]]
<1>3. Sums(s, n, f)
  BY <1>1, <1>2 DEF Sums
<1>4. Total(s) = g[n]
  BY <1>1, <1>3, TotalIsSum
<1>5. Total(t) = g[n + 1]
  BY <1>1, <1>2, TotalIsSum
<1>6. g[n + 1] = g[n] + x
  <2>1. n + 1 \in 1 .. n + 1 /\ (n + 1) - 1 = n
    BY <1>1
  <2> QED
    BY <1>1, <1>2, <2>1 DEF Sums
<1> QED
  BY <1>4, <1>5, <1>6 DEF t

LEMMA TotalTail ==
  ASSUME NEW s \in Seq(Int), s # << >>
  PROVE  Total(Tail(s)) = Total(s) - s[1]
<1> DEFINE t == Tail(s)
           n == Len(s)
<1>1. /\ t \in Seq(Int) /\ Len(t) = n - 1 /\ n \in Nat \ {0} /\ s[1] \in Int
      /\ \A i \in 1 .. n - 1 : t[i] = s[i + 1]
  BY HeadTailProperties
<1> HIDE DEF t
<1>2. PICK g : Sums(s, n, g)
  BY SumsExist
<1> DEFINE f == [i \in 0 .. n - 1 |-> g[i + 1] - s[1]]
<1>3. Sums(t, n - 1, f)
  <2>1. f \in [0 .. n - 1 -> Int]
    BY <1>1, <1>2 DEF Sums
  <2>2. 1 \in 1 .. n /\ f[0] = g[1] - s[1] /\ g[1] = g[0] + s[1] /\ g[0] = 0
    BY <1>1, <1>2 DEF Sums
  <2>3. ASSUME NEW i \in 1 .. n - 1 PROVE f[i] = f[i - 1] + t[i]
    <3>1. g[i + 1] = g[(i + 1) - 1] + s[i + 1] /\ (i + 1) - 1 = i /\ (i - 1) + 1 = i
      BY <1>1, <1>2 DEF Sums
    <3>2. g[i] \in Int /\ s[i + 1] \in Int
      <4>1. i \in 0 .. n /\ i + 1 \in 1 .. n
        BY <1>1
      <4>2. g[i] \in Int
        BY <1>2, <4>1 DEF Sums
      <4>3. s[i + 1] \in Int
        BY <4>1
      <4> QED
        BY <4>2, <4>3
    <3>3. f[i] = g[i + 1] - s[1] /\ f[i - 1] = g[i] - s[1]
      BY <1>1, <3>1
    <3> QED
      BY <1>1, <3>1, <3>2, <3>3
  <2> HIDE DEF f
  <2> QED
    BY <1>1, <2>1, <2>2, <2>3 DEF Sums
<1>4. Total(t) = g[n] - s[1]
  <2>1. Total(t) = f[n - 1] /\ (n - 1) + 1 = n /\ n - 1 \in 0 .. n - 1
    <3> HIDE DEF f
    <3> QED
      BY <1>1, <1>3, TotalIsSum
  <2> QED
    BY <2>1
<1>5. Total(s) = g[n]
  BY <1>2, TotalIsSum
<1> QED
  BY <1>4, <1>5 DEF t

-----------------------------------------------------------------------------
(* The moving average.                                                     *)

\* Where the ring has the i-th of the last samples.
Place(i) == IF index_ + i - 1 < count_ THEN index_ - count_ + i - 1 + N
            ELSE index_ - count_ + i - 1

\* The ring holds the last samples, the oldest at index_ when it is full.
RingInv ==
    /\ samples \in Seq(Int) /\ LastSamples \in Seq(Int)
    /\ buffer_ \in [0 .. N - 1 -> Int] /\ sum_ \in Int
    /\ count_ = Len(LastSamples) /\ count_ = (IF Len(samples) < N THEN Len(samples) ELSE N)
    /\ index_ \in 0 .. N - 1 /\ (count_ < N => index_ = count_)
    /\ \A i \in 1 .. count_ : buffer_[Place(i)] = LastSamples[i]
    /\ sum_ = Total(LastSamples)

\* A sample more: the last samples are those before, without the oldest if there
\* were N, and the new one.
LEMMA LastSamplesNext ==
  ASSUME RingInv, NEW raw \in Int, samples' = Append(samples, raw)
  PROVE  LastSamples' = IF count_ < N THEN Append(LastSamples, raw)
                        ELSE Append(Tail(LastSamples), raw)
<1> DEFINE s == samples
           n == Len(samples)
           t == Append(samples, raw)
<1>1. /\ s \in Seq(Int) /\ n \in Nat /\ N \in Nat \ {0}
      /\ t \in Seq(Int) /\ Len(t) = n + 1
      /\ t[n + 1] = raw /\ \A i \in 1 .. n : t[i] = s[i]
  BY AverageAssumption, AppendProperties DEF RingInv
<1> HIDE DEF t
<1>2. LastSamples' = IF n + 1 < N THEN t ELSE SubSeq(t, n + 2 - N, n + 1)
  BY <1>1 DEF LastSamples, t
<1>3. CASE n + 1 < N
  BY <1>1, <1>2, <1>3 DEF RingInv, LastSamples, t
<1>4. CASE n + 1 = N
  <2>1. SubSeq(t, 1, n + 1) = t
    BY <1>1
  <2>2. n + 2 - N = 1 /\ count_ < N /\ LastSamples = s
    BY <1>1, <1>4 DEF RingInv, LastSamples
  <2> QED
    BY <1>1, <1>2, <1>4, <2>1, <2>2 DEF t
<1>5. CASE n >= N
  <2> DEFINE u == SubSeq(t, n + 2 - N, n + 1)
             l == SubSeq(s, n - N + 1, n)
             v == Append(Tail(l), raw)
  <2>1. /\ u \in Seq(Int) /\ Len(u) = N
        /\ \A i \in 1 .. N : u[i] = t[n + 2 - N + i - 1]
    <3>1. n + 2 - N \in 1 .. Len(t) + 1 /\ n + 1 \in (n + 2 - N) - 1 .. Len(t)
      BY <1>1, <1>5
    <3>2. (n + 1) - (n + 2 - N) + 1 = N
      BY <1>1
    <3> QED
      BY <1>1, <3>1, <3>2, SubSeqProperties
  <2>2. /\ l \in Seq(Int) /\ Len(l) = N
        /\ \A i \in 1 .. N : l[i] = s[n - N + 1 + i - 1]
    <3>1. n - N + 1 \in 1 .. Len(s) + 1 /\ n \in (n - N + 1) - 1 .. Len(s)
      BY <1>1, <1>5
    <3>2. n - (n - N + 1) + 1 = N /\ Len(s) = n
      BY <1>1
    <3> HIDE DEF s, n
    <3> QED
      BY <1>1, <3>1, <3>2, SubSeqProperties
  <2> HIDE DEF u, l
  <2>3. l # << >> /\ Tail(l) \in Seq(Int) /\ Len(Tail(l)) = N - 1
        /\ \A i \in 1 .. N - 1 : Tail(l)[i] = l[i + 1]
    BY <1>1, <2>2, HeadTailProperties
  <2>4. /\ v \in Seq(Int) /\ Len(v) = N /\ v[N] = raw
        /\ \A i \in 1 .. N - 1 : v[i] = l[i + 1]
    BY <1>1, <2>3, AppendProperties
  <2> HIDE DEF v
  <2>5. ASSUME NEW i \in 1 .. N PROVE u[i] = v[i]
    <3>1. CASE i = N
      BY <1>1, <2>1, <2>4, <3>1
    <3>2. CASE i # N
      <4>1. i \in 1 .. N - 1 /\ i + 1 \in 1 .. N
        BY <1>1, <3>2
      <4>2. u[i] = t[n + 2 - N + i - 1] /\ v[i] = s[n - N + 1 + (i + 1) - 1]
        BY <2>1, <2>2, <2>4, <4>1
      <4>3. n + 2 - N + i - 1 = n - N + 1 + (i + 1) - 1 /\ n + 2 - N + i - 1 \in 1 .. n
        BY <1>1, <1>5, <4>1
      <4> QED
        BY <1>1, <4>2, <4>3
    <3> QED
      BY <3>1, <3>2
  <2>6. u = v
    BY <2>1, <2>4, <2>5, SeqEqual
  <2>7. ~ count_ < N /\ LastSamples = l /\ ~ n + 1 < N
    <3>1. ~ n < N /\ ~ n + 1 < N
      BY <1>1, <1>5
    <3>2. LastSamples = l
      BY <3>1 DEF LastSamples, l
    <3>3. count_ = N
      BY <3>1 DEF RingInv
    <3> QED
      BY <1>1, <3>1, <3>2, <3>3
  <2> QED
    BY <1>2, <2>6, <2>7 DEF u, v
<1> QED
  BY <1>1, <1>3, <1>4, <1>5

LEMMA RingNext ==
  ASSUME RingInv, NEW raw \in Samples, Sample(raw)
  PROVE  /\ RingInv' /\ count_' \in Nat \ {0}
         /\ LastSamples'[count_'] = raw
<1>1. N \in Nat \ {0} /\ raw \in Int /\ index_ \in 0 .. N - 1 /\ count_ \in 0 .. N
  BY AverageAssumption DEF RingInv
<1> DEFINE w == LastSamples
<1>2. /\ samples' = Append(samples, raw) /\ samples' \in Seq(Int) /\ samples \in Seq(Int)
      /\ Len(samples') = Len(samples) + 1 /\ Len(samples) \in Nat
  BY <1>1, AppendProperties DEF Sample, RingInv
<1>3. w' = IF count_ < N THEN Append(w, raw) ELSE Append(Tail(w), raw)
  BY <1>1, <1>2, LastSamplesNext
<1>4. w \in Seq(Int) /\ Len(w) = count_ /\ sum_ = Total(w) /\ sum_ \in Int
  BY DEF RingInv
<1> HIDE DEF w
<1>5. count_' = IF count_ < N THEN count_ + 1 ELSE count_
  BY DEF Sample
<1>6. index_' = IF index_ + 1 >= N THEN 0 ELSE index_ + 1
  BY DEF Sample, NextIndex
<1>7. buffer_' = [buffer_ EXCEPT ![index_] = raw] /\ buffer_ \in [0 .. N - 1 -> Int]
  BY DEF Sample, RingInv
<1>8. /\ buffer_' \in [0 .. N - 1 -> Int] /\ buffer_'[index_] = raw
      /\ \A k \in 0 .. N - 1 : k # index_ => buffer_'[k] = buffer_[k]
  BY <1>1, <1>7
<1>9. count_' = IF Len(samples') < N THEN Len(samples') ELSE N
  BY <1>1, <1>2, <1>5 DEF RingInv
<1>10. index_' \in 0 .. N - 1 /\ (count_' < N => index_' = count_')
  BY <1>1, <1>5, <1>6 DEF RingInv
<1>11. \A i \in 1 .. count_ : buffer_[Place(i)] = w[i]
  BY DEF RingInv, w
<1>12. CASE count_ < N
  <2>1. index_ = count_
    BY <1>12 DEF RingInv
  <2>2. /\ w' \in Seq(Int) /\ Len(w') = count_ + 1 /\ w'[count_ + 1] = raw
        /\ \A i \in 1 .. count_ : w'[i] = w[i]
    BY <1>1, <1>3, <1>4, <1>12, AppendProperties
  <2>3. Total(w') = Total(w) + raw
    BY <1>1, <1>3, <1>4, <1>12, TotalAppend
  <2>4. sum_' = sum_ + raw
    BY <1>12 DEF Sample, SumLessOldest
  <2>5. ASSUME NEW i \in 1 .. count_' PROVE buffer_'[Place(i)'] = w'[i]
    <3>1. Place(i)' = i - 1
      BY <1>1, <1>5, <1>6, <1>12, <2>1 DEF Place
    <3>2. CASE i = count_ + 1
      BY <1>1, <1>8, <2>1, <2>2, <3>1, <3>2
    <3>3. CASE i # count_ + 1
      <4>1. i \in 1 .. count_ /\ i - 1 \in 0 .. N - 1 /\ i - 1 # index_
        BY <1>1, <1>5, <1>12, <2>1, <3>3
      <4>2. Place(i) = i - 1
        BY <1>1, <2>1, <4>1 DEF Place
      <4> QED
        BY <1>8, <1>11, <2>2, <3>1, <4>1, <4>2
    <3> QED
      BY <3>2, <3>3
  <2>6. count_' = count_ + 1 /\ sum_' = Total(w') /\ sum_' \in Int /\ count_' = Len(w')
    BY <1>1, <1>4, <1>5, <1>12, <2>2, <2>3, <2>4
  <2>7. RingInv'
    BY <1>2, <1>8, <1>9, <1>10, <2>2, <2>5, <2>6 DEF RingInv, w
  <2>8. count_' \in Nat \ {0} /\ w'[count_'] = raw
    BY <1>1, <2>2, <2>6
  <2> QED
    BY <2>7, <2>8 DEF w
<1>13. CASE count_ = N
  <2>1. /\ w # << >> /\ Tail(w) \in Seq(Int) /\ Len(Tail(w)) = N - 1
        /\ \A i \in 1 .. N - 1 : Tail(w)[i] = w[i + 1]
    BY <1>1, <1>4, <1>13, HeadTailProperties
  <2>2. w' = Append(Tail(w), raw)
    BY <1>1, <1>3, <1>13
  <2>3. /\ w' \in Seq(Int) /\ Len(w') = N /\ w'[N] = raw
        /\ \A i \in 1 .. N - 1 : w'[i] = w[i + 1]
    BY <1>1, <2>1, <2>2, AppendProperties
  <2>4. Total(w') = Total(w) - w[1] + raw
    <3>1. Total(Tail(w)) = Total(w) - w[1]
      BY <1>4, <2>1, TotalTail
    <3> QED
      BY <1>1, <2>1, <2>2, <3>1, TotalAppend
  <2>5. 1 \in 1 .. count_ /\ Place(1) = index_ /\ w[1] \in Int
    BY <1>1, <1>4, <1>13 DEF Place
  <2>6. sum_' = sum_ - w[1] + raw
    <3>1. buffer_[index_] = w[1]
      BY <1>11, <2>5
    <3> QED
      BY <1>1, <1>13, <3>1 DEF Sample, SumLessOldest
  <2>7. ASSUME NEW i \in 1 .. count_' PROVE buffer_'[Place(i)'] = w'[i]
    <3>1. count_' = N /\ i \in 1 .. N
      BY <1>1, <1>5, <1>13
    <3>2. CASE i = N
      <4>1. Place(i)' = index_
        BY <1>1, <1>6, <3>1, <3>2 DEF Place
      <4> QED
        BY <1>8, <2>3, <3>2, <4>1
    <3>3. CASE i # N
      <4>1. i \in 1 .. N - 1 /\ i + 1 \in 1 .. count_
        BY <1>1, <1>13, <3>1, <3>3
      <4>2. Place(i)' = Place(i + 1) /\ Place(i + 1) \in 0 .. N - 1 /\ Place(i + 1) # index_
        BY <1>1, <1>6, <1>13, <3>1, <4>1 DEF Place
      <4> QED
        BY <1>8, <1>11, <2>3, <4>1, <4>2
    <3> QED
      BY <3>2, <3>3
  <2>8. count_' = N /\ sum_' = Total(w') /\ sum_' \in Int /\ count_' = Len(w')
    BY <1>1, <1>4, <1>5, <1>13, <2>3, <2>4, <2>5, <2>6
  <2> QED
    BY <1>1, <1>2, <1>8, <1>9, <1>10, <2>3, <2>7, <2>8 DEF RingInv, w
<1> QED
  BY <1>1, <1>12, <1>13

AverageInv == RingInv /\ PublishedIsMean

\* What adc_task publishes is the mean of the last N samples, for every N and any
\* samples: the running sum never drifts from the ring.
THEOREM AverageIsMean == AverageSpec => []PublishedIsMean
<1>1. AverageInit => AverageInv
  <2> SUFFICES ASSUME AverageInit PROVE AverageInv
    OBVIOUS
  <2>1. samples = << >> /\ LastSamples = << >> /\ N \in Nat \ {0} /\ Len(<< >>) = 0
        /\ << >> \in Seq(Int)
    <3>1. N \in Nat \ {0} /\ samples = << >> /\ Len(<< >>) = 0
      BY AverageAssumption DEF AverageInit
    <3> QED
      BY <3>1 DEF LastSamples
  <2>2. buffer_ \in [0 .. N - 1 -> Int] /\ count_ = 0 /\ index_ = 0 /\ sum_ = 0
    BY <2>1 DEF AverageInit
  <2> QED
    BY <2>1, <2>2, TotalEmpty DEF AverageInit, AverageInv, RingInv, PublishedIsMean
<1>2. AverageInv /\ [AverageNext]_average_vars => AverageInv'
  <2> SUFFICES ASSUME AverageInv, [AverageNext]_average_vars PROVE AverageInv'
    OBVIOUS
  <2>1. ASSUME NEW raw \in Samples, Sample(raw) PROVE AverageInv'
    <3>1. /\ RingInv' /\ count_' \in Nat \ {0}
          /\ LastSamples'[count_'] = raw
      BY <2>1, RingNext DEF AverageInv
    <3>2. sum_' = Total(LastSamples)' /\ sum_' \in Int /\ count_' = Len(LastSamples)'
      BY <3>1 DEF RingInv
    <3>3. g_adc_latest' = [raw |-> raw, avg |-> sum_' \div count_', valid |-> TRUE]
      BY <2>1 DEF Sample, Published
    <3>4. PublishedIsMean'
      BY <3>1, <3>2, <3>3, DivBounds DEF PublishedIsMean
    <3> QED
      BY <3>1, <3>4 DEF AverageInv
  <2>2. CASE UNCHANGED average_vars
    BY <2>2 DEF average_vars, AverageInv, RingInv, PublishedIsMean, LastSamples, Place
  <2> QED
    BY <2>1, <2>2 DEF AverageNext
<1>3. AverageInv => PublishedIsMean
  BY DEF AverageInv
<1> QED
  BY <1>1, <1>2, <1>3, PTL DEF AverageSpec

-----------------------------------------------------------------------------
(* The values of the BME280.                                               *)

\* How far init() has brought the chip and the driver, as long as the chip keeps its
\* power; after that only measurements change them.
SetUpInv ==
    /\ power_losses \in Nat /\ next_access \in 1 .. 9
    /\ init_ok => TasksRun
    /\ latest.valid => TasksRun
    /\ power_losses = 0 /\ ~ TasksRun =>
        /\ next_access > 3 => cal_
        /\ next_access > 6 => ctrl_hum
        /\ next_access > 7 => chip_mode = "normal" /\ enabled = Quantities
    /\ power_losses = 0 /\ init_ok =>
        cal_ /\ enabled = Quantities /\ measured = Quantities

ValuesInv == SetUpInv /\ PublishedIsMeasured

LEMMA AccessNames ==
  /\ Len(Accesses) = 8
  /\ Accesses[1] = "id" /\ Accesses[2] = "calib00" /\ Accesses[3] = "calib26"
  /\ Accesses[4] = "reset" /\ Accesses[5] = "config" /\ Accesses[6] = "ctrl_hum"
  /\ Accesses[7] = "ctrl_meas" /\ Accesses[8] = "wait"
  BY DEF Accesses

\* When init() has succeeded and the chip has kept its power, the published values are
\* measurements of all quantities, compensated with the chip's calibration.
THEOREM ValuesAreMeasured == Bme280Spec => []PublishedIsMeasured
<1> USE DEF SetUpInv, PublishedIsMeasured, TasksRun
<1>1. Bme280Init => ValuesInv
  BY AccessNames DEF Bme280Init, ValuesInv
<1>2. ValuesInv /\ [Bme280Next]_bme280_vars => ValuesInv'
  <2> SUFFICES ASSUME SetUpInv, PublishedIsMeasured, [Bme280Next]_bme280_vars
               PROVE  SetUpInv' /\ PublishedIsMeasured'
    BY DEF ValuesInv
  <2>1. CASE PowerLoss
    BY <2>1, AccessNames DEF PowerLoss, driver, environment
  <2>2. CASE PowerUp \/ Measure
    BY <2>2, AccessNames DEF PowerUp, Measure, driver, environment
  <2>3. CASE AccessWorks
    <3>1. next_access \in 1 .. 8 /\ ~ init_ok /\ ~ latest.valid
      BY <2>3, AccessNames DEF AccessWorks
    <3>2. PICK a : a = Accesses[next_access]
      OBVIOUS
    <3>3. /\ a # "wait" /\ next_access' = next_access + 1 /\ cal_' = (cal_ \/ a = "calib26")
          /\ init_ok' = init_ok /\ latest' = latest
          /\ IF a \in Reads THEN UNCHANGED chip ELSE Written(a)
      BY <2>3, <3>2 DEF AccessWorks, environment
    <3>4. power_losses' = power_losses
      BY <3>3 DEF chip, Written
    <3>5. (cal_ => cal_') /\ (a = "calib26" => cal_')
      BY <3>3, Zenon
    <3>6. CASE a \in Reads
      <4>1. next_access \in {1, 2, 3} /\ (next_access = 3 => cal_')
        BY <3>1, <3>2, <3>5, <3>6, AccessNames DEF Reads
      <4> QED
        BY <3>1, <3>3, <3>4, <4>1, AccessNames
    <3>7. CASE a \notin Reads
      <4>1. next_access \in {4, 5, 6, 7} /\ Written(a) /\ (cal_ => cal_')
        BY <3>1, <3>2, <3>3, <3>5, <3>7, AccessNames DEF Reads
      <4>2. CASE next_access \in {4, 5}
        BY <3>1, <3>3, <3>4, <4>1, <4>2, AccessNames
      <4>3. CASE next_access = 6
        <5>1. ctrl_hum' = TRUE
          BY <3>2, <4>1, <4>3, AccessNames DEF Written
        <5> QED
          BY <3>1, <3>3, <3>4, <4>1, <4>3, <5>1, AccessNames
      <4>4. CASE next_access = 7
        <5>1. /\ chip_mode' = "normal" /\ ctrl_hum' = ctrl_hum
              /\ enabled' = IF ctrl_hum THEN Quantities ELSE {"T", "P"}
          BY <3>2, <4>1, <4>4, AccessNames DEF Written
        <5> QED
          BY <3>1, <3>3, <3>4, <4>1, <4>4, <5>1, AccessNames
      <4> QED
        BY <4>1, <4>2, <4>3, <4>4
    <3> QED
      BY <3>6, <3>7
  <2>4. CASE WaitForMeasurement
    <3>1. next_access = 8
      BY <2>4, AccessNames DEF WaitForMeasurement
    <3> QED
      BY <2>4, <3>1, AccessNames DEF WaitForMeasurement, environment
  <2>5. CASE AccessFails
    BY <2>5, AccessNames DEF AccessFails, environment, chip, Written
  <2>6. CASE ReadWorks
    BY <2>6, AccessNames DEF ReadWorks, Computed, chip, driver
  <2>7. CASE ReadFails
    BY <2>7, AccessNames DEF ReadFails, chip, driver
  <2>8. CASE UNCHANGED bme280_vars
    BY <2>8 DEF bme280_vars, chip, driver, environment
  <2> QED
    BY <2>1, <2>2, <2>3, <2>4, <2>5, <2>6, <2>7, <2>8 DEF Bme280Next
<1>3. ValuesInv => PublishedIsMeasured
  BY DEF ValuesInv
<1> QED
  BY <1>1, <1>2, <1>3, PTL DEF Bme280Spec

-----------------------------------------------------------------------------
(* The command line.                                                       *)

\* The equation of what the screen shows after each key has a solution, and one only.
ShownEq(s, k, f) ==
    f = [i \in 0 .. k |-> IF i = 0 THEN << >> ELSE ShownAfter(f[i - 1], s[i])]

LEMMA ShownExists ==
  ASSUME NEW s, NEW n \in Nat
  PROVE  \E f : ShownEq(s, n, f)
<1> DEFINE T == {k \in Nat : ~ \E f : ShownEq(s, k, f)}
<1>1. ASSUME T # {} PROVE FALSE
  <2>1. PICK k \in T : \A j \in T : k <= j
    <3>1. T \subseteq Nat
      OBVIOUS
    <3> HIDE DEF T
    <3> QED
      BY <1>1, <3>1, NatMin
  <2>2. k \in Nat /\ ~ \E f : ShownEq(s, k, f)
    BY <2>1
  <2>3. k # 0
    <3>1. ShownEq(s, 0, [i \in 0 .. 0 |-> << >>])
      BY DEF ShownEq
    <3> QED
      BY <2>2, <3>1
  <2>4. k - 1 \in Nat /\ k - 1 \notin T
    <3>1. k - 1 \in Nat /\ ~ k <= k - 1
      BY <2>2, <2>3
    <3> HIDE DEF T
    <3> QED
      BY <2>1, <3>1
  <2>5. PICK f : ShownEq(s, k - 1, f)
    BY <2>4
  <2> DEFINE g == [i \in 0 .. k |-> IF i < k THEN f[i] ELSE ShownAfter(f[k - 1], s[k])]
  <2>6. ASSUME NEW i \in 0 .. k
        PROVE  g[i] = IF i = 0 THEN << >> ELSE ShownAfter(g[i - 1], s[i])
    <3>1. \A j \in 0 .. k - 1 : f[j] = IF j = 0 THEN << >> ELSE ShownAfter(f[j - 1], s[j])
      BY <2>5 DEF ShownEq
    <3>2. i # 0 => i - 1 \in 0 .. k /\ i - 1 < k
      BY <2>2
    <3>3. i # k => i \in 0 .. k - 1 /\ i < k
      BY <2>2
    <3> QED
      BY <2>2, <2>3, <3>1, <3>2, <3>3
  <2>7. ShownEq(s, k, g)
    <3>1. g = [i \in 0 .. k |-> g[i]]
      OBVIOUS
    <3> HIDE DEF g
    <3> QED
      BY <2>6, <3>1 DEF ShownEq
  <2> QED
    BY <2>2, <2>7
<1> QED
  BY <1>1

LEMMA ShownUnique ==
  ASSUME NEW s, NEW t, NEW n \in Nat, NEW m \in Nat, NEW f, NEW g, n <= m,
         ShownEq(s, n, f), ShownEq(t, m, g), \A i \in 1 .. n : s[i] = t[i]
  PROVE  f[n] = g[n]
<1> DEFINE T == {k \in 0 .. n : f[k] # g[k]}
<1>1. ASSUME T # {} PROVE FALSE
  <2>1. PICK k \in T : \A j \in T : k <= j
    <3>1. T \subseteq Nat
      OBVIOUS
    <3> HIDE DEF T
    <3> QED
      BY <1>1, <3>1, NatMin
  <2>2. k \in 0 .. n /\ k \in 0 .. m /\ f[k] # g[k]
    BY <2>1
  <2>3. /\ f[k] = IF k = 0 THEN << >> ELSE ShownAfter(f[k - 1], s[k])
        /\ g[k] = IF k = 0 THEN << >> ELSE ShownAfter(g[k - 1], t[k])
    BY <2>2 DEF ShownEq
  <2>4. k # 0
    BY <2>2, <2>3
  <2>5. k - 1 \in 0 .. n /\ k - 1 \notin T /\ k \in 1 .. n
    <3>1. k - 1 \in 0 .. n /\ ~ k <= k - 1 /\ k \in 1 .. n
      BY <2>2, <2>4
    <3> HIDE DEF T
    <3> QED
      BY <2>1, <3>1
  <2>6. f[k - 1] = g[k - 1] /\ s[k] = t[k]
    BY <2>5
  <2> QED
    BY <2>2, <2>3, <2>4, <2>6
<1>2. n \in 0 .. n /\ n \notin T
  <2> HIDE DEF T
  <2> QED
    BY <1>1
<1> QED
  BY <1>2

LEMMA OnScreenIsShown ==
  ASSUME NEW s, Len(s) \in Nat
  PROVE  \E f : ShownEq(s, Len(s), f) /\ OnScreen(s) = f[Len(s)]
<1> DEFINE shown == CHOOSE f : ShownEq(s, Len(s), f)
<1>1. ShownEq(s, Len(s), shown)
  BY ShownExists
<1>2. OnScreen(s) = shown[Len(s)]
  BY DEF OnScreen, ShownEq
<1> QED
  BY <1>1, <1>2

LEMMA OnScreenEmpty == OnScreen(<< >>) = << >>
<1>1. Len(<< >>) = 0
  OBVIOUS
<1> QED
  BY <1>1, OnScreenIsShown DEF ShownEq

\* One key more.
LEMMA OnScreenAppend ==
  ASSUME NEW K, NEW s \in Seq(K), NEW key \in K
  PROVE  OnScreen(Append(s, key)) = ShownAfter(OnScreen(s), key)
<1> DEFINE t == Append(s, key)
           n == Len(s)
<1>1. n \in Nat /\ Len(t) = n + 1 /\ t[n + 1] = key /\ \A i \in 1 .. n : s[i] = t[i]
  BY AppendProperties
<1> HIDE DEF t, n
<1>2. PICK f : ShownEq(s, n, f) /\ OnScreen(s) = f[n]
  BY <1>1, OnScreenIsShown DEF n
<1>3. PICK g : ShownEq(t, n + 1, g) /\ OnScreen(t) = g[n + 1]
  BY <1>1, OnScreenIsShown
<1>4. f[n] = g[n]
  BY <1>1, <1>2, <1>3, ShownUnique
<1>5. g[n + 1] = ShownAfter(g[n], key)
  <2>1. n + 1 \in 0 .. n + 1 /\ n + 1 # 0 /\ (n + 1) - 1 = n
    BY <1>1
  <2> QED
    BY <1>1, <1>3, <2>1 DEF ShownEq
<1> QED
  BY <1>2, <1>3, <1>4, <1>5 DEF t

\* What the editor has of the line is what the user sees of it.
Edited == [i \in 1 .. pos |-> cmd_buf[i - 1]]
EditInv ==
    /\ TypeOK
    /\ typed \in Seq(Keys \cup {"BS"})
    /\ Edited \in Seq(Keys) /\ OnScreen(typed) = Edited
LineInv == EditInv /\ RunsWhatWasTyped

LEMMA EditKeys ==
  ASSUME EditInv
  PROVE  /\ OnScreen(Append(typed, "BS")) = IF pos = 0 THEN Edited ELSE Front(Edited)
         /\ \A key \in Keys : OnScreen(Append(typed, key)) = Append(Edited, key)
         /\ Len(Edited) = pos /\ pos \in Nat
<1>1. Len(Edited) = pos /\ pos \in Nat /\ (Edited = << >> <=> pos = 0)
  BY DEF EditInv, TypeOK, Edited
<1>2. OnScreen(Append(typed, "BS")) = ShownAfter(Edited, "BS")
  BY OnScreenAppend DEF EditInv
<1>3. ASSUME NEW key \in Keys PROVE OnScreen(Append(typed, key)) = Append(Edited, key)
  <2>1. key # "BS"
    BY CommandLineAssumption
  <2>2. OnScreen(Append(typed, key)) = ShownAfter(Edited, key)
    BY OnScreenAppend DEF EditInv
  <2> QED
    BY <2>1, <2>2 DEF ShownAfter
<1> QED
  BY <1>1, <1>2, <1>3 DEF ShownAfter

\* The parser gets the line up to the first NUL in it.
LEMMA ParsedIsEdited ==
  ASSUME EditInv
  PROVE  CString(Terminated) = Leading(Edited, LAMBDA c : c # NUL)
<1> DEFINE buf == Terminated
           M == CMD_BUF_SIZE
<1>1. /\ M \in Nat /\ pos \in Nat /\ pos < M /\ buf[pos] = NUL
      /\ \A i \in 1 .. pos : Edited[i] = buf[i - 1]
      /\ Len(Edited) = pos
  <2>1. M \in Nat /\ pos \in 0 .. M - 1
    BY CommandLineAssumption DEF EditInv, TypeOK
  <2>2. cmd_buf \in [0 .. M - 1 -> Keys \cup {NUL, Uninitialized}]
    BY DEF EditInv, TypeOK
  <2>3. buf[pos] = NUL /\ \A i \in 1 .. pos : buf[i - 1] = cmd_buf[i - 1]
    BY <2>1, <2>2 DEF Terminated
  <2>4. Len(Edited) = pos
    BY EditKeys
  <2> QED
    BY <2>1, <2>3, <2>4 DEF Edited
<1> HIDE DEF buf
<1> DEFINE Stops(i) == /\ i = M \/ buf[i] = NUL
                       /\ \A j \in 0 .. i - 1 : buf[j] # NUL
<1>2. \E i \in 0 .. pos : Stops(i)
  <2> DEFINE T == {i \in 0 .. pos : buf[i] = NUL}
  <2>1. T \subseteq Nat /\ pos \in T
    BY <1>1
  <2>2. PICK i \in T : \A j \in T : i <= j
    <3> HIDE DEF T
    <3> QED
      BY <2>1, NatMin
  <2>3. \A j \in 0 .. i - 1 : buf[j] # NUL
    <3> SUFFICES ASSUME NEW j \in 0 .. i - 1, buf[j] = NUL PROVE FALSE
      OBVIOUS
    <3>1. j \in T /\ ~ i <= j
      BY <1>1, <2>2
    <3> HIDE DEF T
    <3> QED
      BY <2>2, <3>1
  <2> QED
    BY <2>2, <2>3
<1>3. PICK e \in 0 .. pos : Stops(e)
  BY <1>2
<1>4. e \in Nat /\ e < M /\ buf[e] = NUL /\ \A j \in 0 .. e - 1 : buf[j] # NUL
  BY <1>1, <1>3
<1>5. \A i \in 0 .. M : Stops(i) => i = e
  <2> SUFFICES ASSUME NEW i \in 0 .. M, Stops(i), i # e PROVE FALSE
    OBVIOUS
  <2>1. CASE i < e
    <3>1. i \in 0 .. e - 1 /\ i # M
      BY <1>4, <2>1
    <3> QED
      BY <1>4, <3>1
  <2>2. CASE e < i
    <3>1. e \in 0 .. i - 1
      BY <1>4, <2>2
    <3> QED
      BY <1>4, <3>1
  <2> QED
    BY <1>4, <2>1, <2>2
<1>6. CString(buf) = [i \in 1 .. e |-> buf[i - 1]]
  <2>1. (CHOOSE i \in 0 .. M : Stops(i)) = e
    <3>1. e \in 0 .. M
      BY <1>1, <1>4
    <3> HIDE DEF Stops
    <3> QED
      BY <1>3, <1>5, <3>1
  <2> QED
    BY <2>1 DEF CString
<1> DEFINE Leads(n) == /\ \A j \in 1 .. n : Edited[j] # NUL
                       /\ n = Len(Edited) \/ ~ (Edited[n + 1] # NUL)
<1>7. Leads(e)
  <2>1. \A j \in 1 .. e : Edited[j] # NUL
    BY <1>1, <1>3, <1>4
  <2>2. e # pos => Edited[e + 1] = buf[e]
    <3>1. e # pos => e + 1 \in 1 .. pos /\ (e + 1) - 1 = e
      BY <1>1, <1>3
    <3> QED
      BY <1>1, <3>1
  <2> QED
    BY <1>1, <1>4, <2>1, <2>2
<1>8. \A n \in 0 .. Len(Edited) : Leads(n) => n = e
  <2> SUFFICES ASSUME NEW n \in 0 .. pos, Leads(n), n # e PROVE FALSE
    BY <1>1
  <2>1. CASE n < e
    <3>1. n + 1 \in 1 .. pos /\ (n + 1) - 1 = n /\ n \in 0 .. e - 1 /\ n # pos
      BY <1>1, <1>3, <2>1
    <3>2. Edited[n + 1] = buf[n] /\ buf[n] # NUL
      BY <1>1, <1>4, <3>1
    <3> QED
      BY <1>1, <3>1, <3>2
  <2>2. CASE e < n
    <3>1. e + 1 \in 1 .. n /\ e + 1 \in 1 .. pos /\ (e + 1) - 1 = e
      BY <1>1, <1>3, <2>2
    <3> QED
      BY <1>1, <1>4, <3>1
  <2> QED
    BY <1>1, <1>3, <2>1, <2>2
<1>9. Leading(Edited, LAMBDA c : c # NUL) = SubSeq(Edited, 1, e)
  <2>1. (CHOOSE n \in 0 .. Len(Edited) : Leads(n)) = e
    <3>1. e \in 0 .. Len(Edited)
      BY <1>1, <1>3
    <3> HIDE DEF Leads
    <3> QED
      BY <1>7, <1>8, <3>1
  <2> QED
    BY <2>1 DEF Leading
<1>10. SubSeq(Edited, 1, e) = [i \in 1 .. e |-> buf[i - 1]]
  <2>1. SubSeq(Edited, 1, e) = [i \in 1 .. e |-> Edited[i]]
    BY <1>4
  <2>2. \A i \in 1 .. e : Edited[i] = buf[i - 1]
    BY <1>1, <1>3
  <2> QED
    BY <2>1, <2>2
<1> QED
  BY <1>6, <1>9, <1>10 DEF buf

LEMMA EditNext ==
  ASSUME EditInv, [CommandLineNext]_command_vars
  PROVE  EditInv'
<1>1. /\ pos \in 0 .. CMD_BUF_SIZE - 1 /\ CMD_BUF_SIZE \in Nat /\ CMD_BUF_SIZE > 1
      /\ cmd_buf \in [0 .. CMD_BUF_SIZE - 1 -> Keys \cup {NUL, Uninitialized}]
      /\ keystrokes \in 0 .. MaxKeys /\ MaxKeys \in Nat /\ typed \in Seq(Keys \cup {"BS"})
  BY CommandLineAssumption DEF EditInv, TypeOK
<1>2. ASSUME keystrokes' \in 0 .. MaxKeys, pos' = 0, typed' = << >>,
             cmd_buf' \in [0 .. CMD_BUF_SIZE - 1 -> Keys \cup {NUL, Uninitialized}]
      PROVE  EditInv'
  <2>1. Edited' = << >>
    BY <1>2 DEF Edited
  <2> QED
    BY <1>1, <1>2, <2>1, OnScreenEmpty DEF EditInv, TypeOK
<1>3. CASE Enter
  <2>1. cmd_buf' \in [0 .. CMD_BUF_SIZE - 1 -> Keys \cup {NUL, Uninitialized}]
    BY <1>1, <1>3 DEF Enter, Terminated
  <2> QED
    BY <1>1, <1>2, <1>3, <2>1 DEF Enter, Press
<1>4. CASE Backspace
  <2>1. /\ cmd_buf' = cmd_buf /\ typed' = Append(typed, "BS") /\ keystrokes' \in 0 .. MaxKeys
        /\ pos' = IF pos > 0 THEN pos - 1 ELSE pos
    BY <1>1, <1>4 DEF Backspace, Press, SomethingToErase
  <2>2. typed' \in Seq(Keys \cup {"BS"})
    BY <1>1, <2>1
  <2>3. Edited' = IF pos = 0 THEN Edited ELSE Front(Edited)
    <3>1. CASE pos = 0
      BY <1>1, <2>1, <3>1 DEF Edited
    <3>2. CASE pos # 0
      <4>1. pos - 1 \in Nat /\ pos' = pos - 1 /\ Len(Edited) = pos
        BY <1>1, <2>1, <3>2, EditKeys
      <4>2. Front(Edited) = [i \in 1 .. pos - 1 |-> Edited[i]]
        BY <4>1 DEF Front
      <4>3. \A i \in 1 .. pos - 1 : Edited[i] = cmd_buf[i - 1]
        BY <1>1 DEF Edited
      <4> QED
        BY <2>1, <3>2, <4>1, <4>2, <4>3 DEF Edited
    <3> QED
      BY <3>1, <3>2
  <2>4. Edited' \in Seq(Keys)
    <3>1. pos # 0 => Front(Edited) \in Seq(Keys)
      <4>1. \A i \in 1 .. Len(Edited) - 1 : Edited[i] \in Keys
        BY DEF EditInv
      <4>2. Len(Edited) \in Nat
        BY EditKeys
      <4> QED
        BY <4>1, <4>2, SubSeqProperties DEF Front
    <3> QED
      BY <2>3, <3>1 DEF EditInv
  <2> QED
    BY <1>1, <2>1, <2>2, <2>3, <2>4, EditKeys DEF EditInv, TypeOK
<1>5. ASSUME NEW key \in Keys, Character(key) PROVE EditInv'
  <2>1. /\ cmd_buf' = [cmd_buf EXCEPT ![pos] = key] /\ typed' = Append(typed, key)
        /\ keystrokes' \in 0 .. MaxKeys /\ pos' = pos + 1 /\ pos' \in 0 .. CMD_BUF_SIZE - 1
    BY <1>1, <1>5 DEF Character, Press, RoomForKey
  <2>2. typed' \in Seq(Keys \cup {"BS"})
        /\ cmd_buf' \in [0 .. CMD_BUF_SIZE - 1 -> Keys \cup {NUL, Uninitialized}]
    BY <1>1, <1>5, <2>1
  <2>3. Edited' = Append(Edited, key)
    <3>1. /\ Append(Edited, key) \in Seq(Keys) /\ Len(Append(Edited, key)) = pos + 1
          /\ Append(Edited, key)[pos + 1] = key
          /\ \A i \in 1 .. pos : Append(Edited, key)[i] = Edited[i]
      BY <1>5, EditKeys, AppendProperties DEF EditInv
    <3>2. Append(Edited, key) = [i \in 1 .. pos + 1 |-> Append(Edited, key)[i]]
      <4>1. PICK t : t = Append(Edited, key)
        OBVIOUS
      <4>2. t \in Seq(Keys) /\ Len(t) = pos + 1
        BY <3>1, <4>1
      <4>3. t = [i \in 1 .. pos + 1 |-> t[i]]
        BY <4>2
      <4> QED
        BY <4>1, <4>3
    <3>3. ASSUME NEW i \in 1 .. pos + 1
          PROVE  Append(Edited, key)[i] = cmd_buf'[i - 1]
      <4>1. CASE i = pos + 1
        BY <1>1, <2>1, <3>1, <4>1
      <4>2. CASE i # pos + 1
        <5>1. i \in 1 .. pos /\ i - 1 \in 0 .. CMD_BUF_SIZE - 1 /\ i - 1 # pos
          BY <1>1, <4>2
        <5>2. Edited[i] = cmd_buf[i - 1]
          BY <5>1 DEF Edited
        <5> QED
          BY <1>1, <2>1, <3>1, <5>1, <5>2
      <4> QED
        BY <4>1, <4>2
    <3>4. Edited' = [i \in 1 .. pos + 1 |-> cmd_buf'[i - 1]]
      BY <2>1 DEF Edited
    <3> QED
      BY <3>2, <3>3, <3>4
  <2>4. Edited' \in Seq(Keys)
    BY <1>5, <2>3 DEF EditInv
  <2> QED
    BY <1>1, <1>5, <2>1, <2>2, <2>3, <2>4, EditKeys DEF EditInv, TypeOK
<1>6. ASSUME NEW key \in Keys, TooLong(key) PROVE EditInv'
  BY <1>1, <1>2, <1>6 DEF TooLong, Press
<1>7. CASE UNCHANGED command_vars
  BY <1>7 DEF command_vars, EditInv, TypeOK, Edited
<1> QED
  BY <1>3, <1>4, <1>5, <1>6, <1>7 DEF CommandLineNext

LEMMA LineInvHolds == CommandLineSpec => []LineInv
<1>1. CommandLineInit => LineInv
  <2> SUFFICES ASSUME CommandLineInit PROVE LineInv
    OBVIOUS
  <2>1. pos = 0 /\ typed = << >> /\ keystrokes = 0 /\ done.command.name = "none"
    BY DEF CommandLineInit
  <2>2. Edited = << >>
    BY <2>1 DEF Edited
  <2>3. TypeOK
    BY <2>1, CommandLineAssumption DEF CommandLineInit, TypeOK
  <2> QED
    BY <2>1, <2>2, <2>3, OnScreenEmpty DEF LineInv, EditInv, RunsWhatWasTyped
<1>2. LineInv /\ [CommandLineNext]_command_vars => LineInv'
  <2> SUFFICES ASSUME LineInv, [CommandLineNext]_command_vars PROVE LineInv'
    OBVIOUS
  <2>1. EditInv'
    BY EditNext DEF LineInv
  <2>2. CASE done' = done
    BY <2>1, <2>2 DEF LineInv, RunsWhatWasTyped
  <2>3. CASE done' # done
    <3>1. Enter /\ done' = [command |-> CommandOf(CString(Terminated)), typed |-> typed]
      BY <2>3 DEF CommandLineNext, Enter, Backspace, Character, TooLong, command_vars
    <3>2. CString(Terminated) = LineOf(typed)
      BY ParsedIsEdited DEF LineInv, EditInv, LineOf
    <3>3. RunsWhatWasTyped'
      BY <3>1, <3>2 DEF RunsWhatWasTyped
    <3> QED
      BY <2>1, <3>3 DEF LineInv
  <2> QED
    BY <2>2, <2>3
<1> QED
  BY <1>1, <1>2, PTL DEF CommandLineSpec

\* The keys never run over the buffer, and the terminator always has a place in it,
\* for any size of the buffer.
THEOREM BufferIsRespected == CommandLineSpec => []TypeOK
<1>1. LineInv => TypeOK
  BY DEF LineInv, EditInv
<1> QED
  BY <1>1, LineInvHolds, PTL

\* A command is made of what the user sees behind the prompt and of nothing else.
THEOREM CommandIsTyped == CommandLineSpec => []RunsWhatWasTyped
<1>1. LineInv => RunsWhatWasTyped
  BY DEF LineInv
<1> QED
  BY <1>1, LineInvHolds, PTL

\* Where the longest beginning ends whose places are all in a set.
LEMMA LeadEnds ==
  ASSUME NEW m \in Nat, NEW S, NEW n \in 0 .. m, \A j \in 1 .. n : j \in S, n = m \/ n + 1 \notin S
  PROVE  \A i \in 0 .. m : (\A j \in 1 .. i : j \in S) /\ (i = m \/ i + 1 \notin S) => i = n
<1> SUFFICES ASSUME NEW i \in 0 .. m, \A j \in 1 .. i : j \in S, i = m \/ i + 1 \notin S, i # n
             PROVE  FALSE
  OBVIOUS
<1>1. CASE i < n
  <2>1. i + 1 \in 1 .. n /\ i # m
    BY <1>1
  <2> QED
    BY <2>1
<1>2. CASE n < i
  <2>1. n + 1 \in 1 .. i /\ n # m
    BY <1>2
  <2> QED
    BY <2>1
<1> QED
  BY <1>1, <1>2

\* A digit is neither a blank nor the end of the line, and it has a value.
LEMMA DigitFacts ==
  ASSUME NEW c, IsDigit(c)
  PROVE  c \notin Blanks /\ c # NUL /\ DigitValue(c) \in 0 .. 9
<1>1. PICK i \in 1 .. 10 : Digits[i] = c
  BY DEF IsDigit
<1>2. DigitValue(c) \in 0 .. 9
  <2> DEFINE V == CHOOSE j \in 1 .. 10 : Digits[j] = c
  <2>1. V \in 1 .. 10
    BY <1>1
  <2>2. DigitValue(c) = V - 1
    BY DEF DigitValue
  <2> HIDE DEF V
  <2> QED
    BY <2>1, <2>2
<1>3. c \in {"0", "1", "2", "3", "4", "5", "6", "7", "8", "9"}
  <2>1. i = 1 \/ i = 2 \/ i = 3 \/ i = 4 \/ i = 5 \/ i = 6 \/ i = 7 \/ i = 8 \/ i = 9 \/ i = 10
    BY <1>1
  <2> QED
    BY <1>1, <2>1 DEF Digits
<1> QED
  BY <1>2, <1>3 DEF Blanks, NUL

\* strtoul of a line of digits is their numeral, or ULONG_MAX if that is more.
LEMMA StrtoulIs ==
  ASSUME NEW S, NEW digits \in Seq(S), \A i \in 1 .. Len(digits) : IsDigit(digits[i])
  PROVE  /\ Leading(digits, IsDigit) = digits
         /\ Numeral(digits) \in Nat
         /\ Strtoul(digits) = Saturated(Numeral(digits))
<1> DEFINE m == Len(digits)
<1>1. m \in Nat
  OBVIOUS
<1>2. Leading(digits, IsDigit) = digits
  <2> DEFINE Leads(n) == /\ \A j \in 1 .. n : IsDigit(digits[j])
                         /\ n = m \/ ~ IsDigit(digits[n + 1])
  <2>1. Leads(m)
    OBVIOUS
  <2>2. \A n \in 0 .. m : Leads(n) => n = m
    <3> DEFINE P == {j \in 1 .. m : IsDigit(digits[j])}
    <3>1. \A j \in 1 .. m : j \in P
      OBVIOUS
    <3>2. \A n \in 0 .. m : n # m => n + 1 \in 1 .. m
      BY <1>1
    <3> QED
      BY <3>2
  <2>3. (CHOOSE n \in 0 .. m : Leads(n)) = m
    <3>1. m \in 0 .. m
      BY <1>1
    <3> HIDE DEF Leads
    <3> QED
      BY <2>1, <2>2, <3>1
  <2>4. Leading(digits, IsDigit) = SubSeq(digits, 1, m)
    BY <2>3 DEF Leading
  <2>5. SubSeq(digits, 1, m) = digits
    OBVIOUS
  <2> QED
    BY <2>4, <2>5
<1> DEFINE d == [i \in 1 .. m |-> DigitValue(digits[i])]
           Plain(g) == [n \in 0 .. m |-> IF n = 0 THEN 0 ELSE 10 * g[n - 1] + DigitValue(digits[n])]
           Cut(g) == [n \in 0 .. m |-> IF n = 0 THEN 0
                                       ELSE Saturated(10 * g[n - 1] + DigitValue(digits[n]))]
           plain == CHOOSE g : g = Plain(g)
           cut == CHOOSE g : g = Cut(g)
<1>3. \A i \in 1 .. m : DigitValue(digits[i]) \in Nat
  BY DigitFacts
<1>4. plain = Plain(plain)
  <2> DEFINE step == [i \in 1 .. m |-> [v \in Nat |-> 10 * v + DigitValue(digits[i])]]
  <2>1. step \in [1 .. m -> [Nat -> Nat]]
    BY <1>3
  <2>2. \A i \in 1 .. m : \A v \in Nat : step[i][v] = 10 * v + DigitValue(digits[i])
    OBVIOUS
  <2> HIDE DEF step
  <2>3. PICK g \in [0 .. m -> Nat] : g[0] = 0 /\ \A i \in 1 .. m : g[i] = step[i][g[i - 1]]
    <3>1. m \in Nat /\ 0 \in Nat
      BY <1>1
    <3> HIDE DEF m
    <3> QED
      BY <2>1, <3>1, CountRuns
  <2>4. \A n \in 0 .. m : g[n] = IF n = 0 THEN 0 ELSE 10 * g[n - 1] + DigitValue(digits[n])
    <3> TAKE n \in 0 .. m
    <3>1. n # 0 => n \in 1 .. m /\ n - 1 \in 0 .. m
      BY <1>1
    <3> QED
      BY <2>2, <2>3, <3>1
  <2>5. g = Plain(g)
    BY <2>4
  <2> QED
    BY <2>5
<1>5. cut = Cut(cut)
  <2> DEFINE step == [i \in 1 .. m |-> [v \in Nat |-> Saturated(10 * v + DigitValue(digits[i]))]]
  <2>1. step \in [1 .. m -> [Nat -> Nat]]
    BY <1>3, CommandLineAssumption DEF Saturated
  <2>2. \A i \in 1 .. m : \A v \in Nat : step[i][v] = Saturated(10 * v + DigitValue(digits[i]))
    OBVIOUS
  <2> HIDE DEF step
  <2>3. PICK g \in [0 .. m -> Nat] : g[0] = 0 /\ \A i \in 1 .. m : g[i] = step[i][g[i - 1]]
    <3>1. m \in Nat /\ 0 \in Nat
      BY <1>1
    <3> HIDE DEF m
    <3> QED
      BY <2>1, <3>1, CountRuns
  <2>4. \A n \in 0 .. m : g[n] = IF n = 0 THEN 0 ELSE Saturated(10 * g[n - 1] + DigitValue(digits[n]))
    <3> TAKE n \in 0 .. m
    <3>1. n # 0 => n \in 1 .. m /\ n - 1 \in 0 .. m
      BY <1>1
    <3> QED
      BY <2>2, <2>3, <3>1
  <2>5. g = Cut(g)
    BY <2>4
  <2> QED
    BY <2>5
<1>6. Numeral(digits) = plain[m]
  BY DEF Numeral
<1>7. Strtoul(digits) = cut[m]
  BY <1>2 DEF Strtoul
<1>8. /\ plain[0] = 0 /\ \A n \in 1 .. m : plain[n] = 10 * plain[n - 1] + DigitValue(digits[n])
      /\ cut[0] = 0 /\ \A n \in 1 .. m : cut[n] = Saturated(10 * cut[n - 1] + DigitValue(digits[n]))
  <2>1. 0 \in 0 .. m /\ \A n \in 1 .. m : n \in 0 .. m /\ n # 0
    BY <1>1
  <2> HIDE DEF plain, cut
  <2> QED
    BY <1>4, <1>5, <2>1
<1> HIDE DEF plain, cut
<1> DEFINE Agree(n) == plain[n] \in Nat /\ cut[n] = Saturated(plain[n])
           T == {n \in Nat : n <= m /\ ~ Agree(n)}
<1>9. ASSUME T # {} PROVE FALSE
  <2>1. PICK n \in T : \A j \in T : n <= j
    <3>1. T \subseteq Nat
      OBVIOUS
    <3> HIDE DEF T
    <3> QED
      BY <1>9, <3>1, NatMin
  <2>2. n \in Nat /\ n <= m /\ ~ Agree(n)
    BY <2>1
  <2>3. n # 0
    <3>1. Agree(0)
      BY <1>8, CommandLineAssumption DEF Saturated
    <3> QED
      BY <2>2, <3>1
  <2>4. n - 1 \in Nat /\ n - 1 <= m /\ ~ (n <= n - 1) /\ n \in 1 .. m
    BY <1>1, <2>2, <2>3
  <2>5. Agree(n - 1)
    <3> HIDE DEF Agree
    <3> QED
      BY <2>1, <2>4
  <2>6. /\ plain[n] = 10 * plain[n - 1] + DigitValue(digits[n])
        /\ cut[n] = Saturated(10 * cut[n - 1] + DigitValue(digits[n]))
        /\ DigitValue(digits[n]) \in Nat
    BY <1>3, <1>8, <2>4
  <2>7. ASSUME NEW p \in Nat, NEW k \in Nat
        PROVE  Saturated(10 * Saturated(p) + k) = Saturated(10 * p + k)
    BY CommandLineAssumption DEF Saturated
  <2>8. Agree(n)
    <3> DEFINE p == plain[n - 1]
               k == DigitValue(digits[n])
    <3>1. p \in Nat /\ k \in Nat /\ cut[n - 1] = Saturated(p)
          /\ plain[n] = 10 * p + k /\ cut[n] = Saturated(10 * cut[n - 1] + k)
      BY <2>5, <2>6
    <3> HIDE DEF p, k
    <3>2. 10 * p + k \in Nat
      BY <3>1
    <3>3. cut[n] = Saturated(10 * p + k)
      BY <2>7, <3>1
    <3> QED
      BY <3>1, <3>2, <3>3
  <2> QED
    BY <2>2, <2>8
<1>10. Agree(m)
  <2>1. m \in Nat /\ m <= m
    BY <1>1
  <2> HIDE DEF Agree
  <2> QED
    BY <1>9, <2>1
<1> QED
  BY <1>2, <1>6, <1>7, <1>10

\* The longest beginning of a line of characters that are no NUL is the line.
LEMMA NoNulIsAll ==
  ASSUME NEW S, NEW line \in Seq(S), \A i \in 1 .. Len(line) : line[i] # NUL
  PROVE  Leading(line, LAMBDA c : c # NUL) = line
<1> DEFINE m == Len(line)
           Leads(n) == /\ \A j \in 1 .. n : line[j] # NUL
                       /\ n = m \/ ~ (line[n + 1] # NUL)
<1>1. m \in Nat /\ m \in 0 .. m /\ Leads(m)
  OBVIOUS
<1>2. \A n \in 0 .. m : Leads(n) => n = m
  <2>1. \A n \in 0 .. m : n # m => n + 1 \in 1 .. m
    BY <1>1
  <2> QED
    BY <2>1
<1>3. (CHOOSE n \in 0 .. m : Leads(n)) = m
  <2> HIDE DEF Leads
  <2> QED
    BY <1>1, <1>2
<1>4. Leading(line, LAMBDA c : c # NUL) = SubSeq(line, 1, m)
  BY <1>3 DEF Leading
<1>5. SubSeq(line, 1, m) = line
  OBVIOUS
<1> QED
  BY <1>4, <1>5

\* Blanks are skipped up to the first digit.
LEMMA BlanksAreSkipped ==
  ASSUME NEW S, NEW line \in Seq(S), NEW k \in 0 .. Len(line) - 1,
         \A i \in 1 .. k : line[i] \in Blanks, IsDigit(line[k + 1])
  PROVE  SkipSpaces(line) = SubSeq(line, k + 1, Len(line))
<1> DEFINE m == Len(line)
           Leads(n) == /\ \A j \in 1 .. n : line[j] \in Blanks
                       /\ n = m \/ ~ (line[n + 1] \in Blanks)
           B == {j \in 1 .. m : line[j] \in Blanks}
<1>1. m \in Nat /\ k \in Nat /\ k \in 0 .. m /\ k + 1 \in 1 .. m
  OBVIOUS
<1>2. line[k + 1] \notin Blanks
  BY DigitFacts
<1>3. Leads(k)
  BY <1>2
<1>4. \A n \in 0 .. m : Leads(n) => n = k
  <2>1. /\ \A j \in 1 .. k : j \in B
        /\ k = m \/ k + 1 \notin B
    BY <1>1, <1>2
  <2>2. \A n \in 0 .. m : Leads(n) => (\A j \in 1 .. n : j \in B) /\ (n = m \/ n + 1 \notin B)
    BY <1>1
  <2> HIDE DEF B, Leads
  <2>3. \A n \in 0 .. m : (\A j \in 1 .. n : j \in B) /\ (n = m \/ n + 1 \notin B) => n = k
    BY <1>1, <2>1, LeadEnds
  <2> QED
    BY <2>2, <2>3
<1>5. (CHOOSE n \in 0 .. m : Leads(n)) = k
  <2> HIDE DEF Leads
  <2> QED
    BY <1>1, <1>3, <1>4
<1>6. Leading(line, LAMBDA c : c \in Blanks) = SubSeq(line, 1, k)
  BY <1>5 DEF Leading
<1>7. Len(SubSeq(line, 1, k)) = k
  BY <1>1
<1> QED
  BY <1>6, <1>7 DEF SkipSpaces

\* The latest command and its count, whatever the line's length.
LEMMA LatestParsed ==
  ASSUME NEW S, NEW line \in Seq(S), NEW blanks \in 0 .. Len(line) - 2,
         NEW digits, digits = SubSeq(line, blanks + 2, Len(line)),
         line[1] = "l", \A i \in 2 .. blanks + 1 : line[i] \in Blanks,
         \A i \in DOMAIN digits : IsDigit(digits[i])
  PROVE  CommandOf(Leading(line, LAMBDA c : c # NUL)) =
           IF Numeral(digits) = 0 THEN [name |-> "unknown", count |-> NoCount]
           ELSE [name |-> "l",
                 count |-> IF Numeral(digits) <= MaxLatest THEN Numeral(digits) ELSE MaxLatest]
<1> DEFINE m == Len(line)
<1>1. m \in Nat /\ blanks \in Nat /\ blanks + 2 <= m
  OBVIOUS
<1>2. /\ digits \in Seq(S) /\ Len(digits) = m - blanks - 1
      /\ \A i \in 1 .. Len(digits) : digits[i] = line[blanks + 1 + i]
  <2>1. blanks + 2 \in 1 .. m /\ m \in 1 .. m
    BY <1>1
  <2>2. /\ SubSeq(line, blanks + 2, m) \in Seq(S)
        /\ Len(SubSeq(line, blanks + 2, m)) = m - (blanks + 2) + 1
        /\ \A i \in 1 .. m - (blanks + 2) + 1 :
              SubSeq(line, blanks + 2, m)[i] = line[blanks + 2 + i - 1]
    BY <1>1, <2>1
  <2> QED
    BY <1>1, <2>2
<1>3. \A i \in 1 .. Len(digits) : IsDigit(digits[i])
  <2>1. DOMAIN digits = 1 .. Len(digits)
    BY <1>2, LenProperties
  <2> QED
    BY <2>1
<1>4. Leading(line, LAMBDA c : c # NUL) = line
  <2>1. ASSUME NEW i \in 1 .. m PROVE line[i] # NUL
    <3>1. CASE i = 1
      BY <3>1 DEF NUL
    <3>2. CASE i \in 2 .. blanks + 1
      BY <3>2 DEF NUL, Blanks
    <3>3. CASE i > blanks + 1
      <4>1. i - blanks - 1 \in 1 .. Len(digits) /\ blanks + 1 + (i - blanks - 1) = i
        BY <1>1, <1>2, <3>3
      <4>2. IsDigit(line[i])
        BY <1>2, <1>3, <4>1
      <4> QED
        BY <4>2, DigitFacts
    <3> QED
      BY <1>1, <3>1, <3>2, <3>3
  <2> QED
    BY <2>1, NoNulIsAll
<1>5. /\ Tail(line) \in Seq(S) /\ Len(Tail(line)) = m - 1
      /\ \A i \in 1 .. m - 1 : Tail(line)[i] = line[i + 1]
  <2>1. line # << >>
    BY <1>1
  <2> QED
    BY <1>1, <2>1
<1>6. SkipSpaces(Tail(line)) = SubSeq(Tail(line), blanks + 1, m - 1)
  <2> DEFINE t == Tail(line)
  <2>1. ASSUME NEW i \in 1 .. blanks PROVE t[i] \in Blanks
    <3>1. i \in 1 .. m - 1 /\ i + 1 \in 2 .. blanks + 1
      BY <1>1
    <3> QED
      BY <1>5, <3>1
  <2>2. IsDigit(t[blanks + 1])
    <3>1. blanks + 1 \in 1 .. m - 1 /\ 1 \in 1 .. Len(digits)
          /\ (blanks + 1) + 1 = blanks + 1 + 1
      BY <1>1, <1>2
    <3>2. t[blanks + 1] = digits[1]
      BY <1>2, <1>5, <3>1
    <3> QED
      BY <1>3, <3>1, <3>2
  <2>3. t \in Seq(S) /\ Len(t) = m - 1 /\ blanks \in 0 .. Len(t) - 1
    BY <1>1, <1>5
  <2> HIDE DEF t
  <2>4. SkipSpaces(t) = SubSeq(t, blanks + 1, Len(t))
    BY <2>1, <2>2, <2>3, BlanksAreSkipped
  <2> QED
    BY <2>3, <2>4 DEF t
<1>7. SubSeq(Tail(line), blanks + 1, m - 1) = digits
  <2> DEFINE t == Tail(line)
             u == SubSeq(t, blanks + 1, m - 1)
  <2>1. blanks + 1 \in 1 .. m - 1 /\ m - 1 \in 1 .. m - 1 /\ t \in Seq(S) /\ Len(t) = m - 1
    BY <1>1, <1>5
  <2> HIDE DEF t
  <2>2. /\ u \in Seq(S) /\ Len(u) = m - 1 - (blanks + 1) + 1
        /\ \A i \in 1 .. m - 1 - (blanks + 1) + 1 : u[i] = t[blanks + 1 + i - 1]
    BY <1>1, <2>1
  <2> HIDE DEF u
  <2>3. Len(u) = Len(digits)
    BY <1>1, <1>2, <2>2
  <2>4. ASSUME NEW i \in 1 .. Len(digits) PROVE u[i] = digits[i]
    <3>1. /\ i \in 1 .. m - 1 - (blanks + 1) + 1 /\ blanks + 1 + i - 1 = blanks + i
          /\ blanks + i \in 1 .. m - 1 /\ (blanks + i) + 1 = blanks + 1 + i
      BY <1>1, <1>2
    <3>2. t[blanks + i] = line[blanks + 1 + i]
      BY <1>5, <3>1 DEF t
    <3> QED
      BY <1>2, <2>2, <3>1, <3>2
  <2>5. u = digits
    BY <1>2, <2>2, <2>3, <2>4, SeqEqual
  <2> QED
    BY <2>5 DEF u, t
<1>8. Numeral(digits) \in Nat /\ Strtoul(digits) = Saturated(Numeral(digits))
  BY <1>2, <1>3, StrtoulIs
<1>9. line # << >> /\ \A c : line # <<c>>
  <2>1. m # 0 /\ m # 1
    BY <1>1
  <2>2. \A c : Len(<<c>>) = 1
    OBVIOUS
  <2> QED
    BY <2>1, <2>2
<1> DEFINE v == Numeral(digits)
<1>10. ParseLatestCount(line) = Capped(Saturated(v))
  BY <1>6, <1>7, <1>8, <1>9 DEF ParseLatestCount
<1> HIDE DEF v
<1>11. Capped(Saturated(v)) = IF v <= MaxLatest THEN v ELSE MaxLatest
  BY <1>8, CommandLineAssumption DEF Capped, Saturated, v
<1>12. Capped(Saturated(v)) = NoCount <=> v = 0
  BY <1>8, <1>11, CommandLineAssumption DEF NoCount, v
<1>13. CommandOf(line) = IF v = 0 THEN [name |-> "unknown", count |-> NoCount]
                         ELSE [name |-> "l", count |-> IF v <= MaxLatest THEN v ELSE MaxLatest]
  <2>1. ~ \E c \in {"h", "s", "p", "r", "a", "e"} : line = <<c>>
    BY <1>9
  <2> QED
    BY <1>10, <1>11, <1>12, <2>1, Zenon DEF CommandOf
<1> QED
  BY <1>4, <1>13 DEF v

\* What is known of the line that ran last.
DoneInv ==
  /\ OnScreen(done.typed) \in Seq(Keys)
  /\ done.command.name = "none" => done.typed = << >>

\* Each step keeps it.
LEMMA DoneNext ==
  ASSUME LineInv, DoneInv, [CommandLineNext]_command_vars
  PROVE  DoneInv'
<1>1. CASE done' = done
  BY <1>1 DEF DoneInv
<1>2. CASE done' # done
  <2>1. done' = [command |-> CommandOf(CString(Terminated)), typed |-> typed]
    BY <1>2 DEF CommandLineNext, Enter, Backspace, Character, TooLong, command_vars
  <2>2. OnScreen(typed) \in Seq(Keys)
    BY DEF LineInv, EditInv
  <2>3. \A line : CommandOf(line).name # "none"
    <3> TAKE line
    <3>1. CASE \E c \in {"h", "s", "p", "r", "a", "e"} : line = <<c>>
      <4>1. PICK c \in {"h", "s", "p", "r", "a", "e"} : line = <<c>>
        BY <3>1
      <4>2. line[1] # "none"
        BY <4>1
      <4> QED
        BY <3>1, <4>2 DEF CommandOf
    <3>2. CASE ~ \E c \in {"h", "s", "p", "r", "a", "e"} : line = <<c>>
      BY <3>2 DEF CommandOf
    <3> QED
      BY <3>1, <3>2
  <2> QED
    BY <2>1, <2>2, <2>3 DEF DoneInv
<1> QED
  BY <1>1, <1>2

\* A line that is l, then blanks or not, then the numeral of N, asks for the last N
\* frames or for MaxLatest, whatever the size of the buffer and wherever strtoul saturates.
THEOREM LatestCountIsTyped == CommandLineSpec => []LatestMeansN
<1>1. CommandLineInit => DoneInv
  <2> SUFFICES ASSUME CommandLineInit PROVE DoneInv
    OBVIOUS
  <2>1. done.typed = << >>
    BY DEF CommandLineInit
  <2>2. << >> \in Seq(Keys)
    OBVIOUS
  <2> QED
    BY <2>1, <2>2, OnScreenEmpty DEF DoneInv
<1>2. LineInv /\ DoneInv /\ [CommandLineNext]_command_vars => DoneInv'
  BY DoneNext
<1>3. LineInv /\ DoneInv => LatestMeansN
  <2> SUFFICES ASSUME LineInv, DoneInv,
                      NEW blanks \in 0 .. Len(OnScreen(done.typed)) - 2,
                      NEW line, line = OnScreen(done.typed),
                      NEW digits, digits = SubSeq(line, blanks + 2, Len(line)),
                      line[1] = "l", \A i \in 2 .. blanks + 1 : line[i] \in Blanks,
                      \A i \in DOMAIN digits : IsDigit(digits[i])
               PROVE  done.command =
                        IF Numeral(digits) = 0 THEN [name |-> "unknown", count |-> NoCount]
                        ELSE [name |-> "l",
                              count |-> IF Numeral(digits) <= MaxLatest THEN Numeral(digits)
                                        ELSE MaxLatest]
    BY DEF LatestMeansN
  <2>1. line \in Seq(Keys)
    BY DEF DoneInv
  <2>2. done.command.name # "none"
    <3>1. Len(line) >= 2
      BY <2>1
    <3>2. line # << >>
      BY <3>1
    <3> QED
      BY <3>2, OnScreenEmpty DEF DoneInv
  <2>3. done.command = CommandOf(Leading(line, LAMBDA c : c # NUL))
    BY <2>2 DEF LineInv, RunsWhatWasTyped, LineOf
  <2> QED
    BY <2>1, <2>3, LatestParsed
<1> QED
  BY <1>1, <1>2, <1>3, LineInvHolds, PTL DEF CommandLineSpec

-----------------------------------------------------------------------------
(* The CRC: words and polynomials are sets of bit numbers.                 *)

\* The words of 32 bits.
Words == SUBSET (0 .. 31)

\* The helpers of the loop, bit by bit.
LEMMA XorIff ==
  ASSUME NEW a, NEW b, NEW x
  PROVE  x \in Xor(a, b) <=> ~ (x \in a <=> x \in b)
  BY DEF Xor

\* The carry sets the highest bit and leaves the lowest alone.
LEMMA PolynomialFacts ==
  Polynomial \in Words /\ 31 \in Polynomial /\ 0 \notin Polynomial
  BY DEF Polynomial, Words

\* A shift moves each bit down by one,
LEMMA ShiftIff ==
  ASSUME NEW a \in SUBSET Nat, NEW x \in Int
  PROVE  /\ x \in ShiftRight(a) <=> x + 1 \in a /\ x \in Nat
         /\ ShiftRight(a) \in SUBSET Nat
  BY DEF ShiftRight

\* and a step adds the carry.
LEMMA StepIff ==
  ASSUME NEW a \in Words, NEW x \in Int
  PROVE  /\ Step(a) \in Words
         /\ x \in Step(a) <=>
              x \in Nat /\ ~ (x + 1 \in a <=> (0 \in a /\ x \in Polynomial))
<1>1. a \in SUBSET Nat
  BY DEF Words
<1>2. \A y \in Int : y \in ShiftRight(a) <=> y + 1 \in a /\ y \in Nat
  BY <1>1, ShiftIff
<1>3. ShiftRight(a) \in SUBSET Nat
  BY <1>1, ShiftIff
<1>4. ShiftRight(a) \in Words
  <2> SUFFICES ASSUME NEW y \in ShiftRight(a) PROVE y \in 0 .. 31
    BY DEF Words
  <2>1. y \in Nat
    BY <1>3
  <2>2. y + 1 \in a
    BY <1>2, <2>1
  <2> QED
    BY <2>1, <2>2 DEF Words
<1>5. CASE 0 \in a
  <2>1. Step(a) = Xor(ShiftRight(a), Polynomial)
    BY <1>5 DEF Step
  <2>2. Step(a) \in Words
    BY <1>4, <2>1, PolynomialFacts DEF Words, Xor
  <2>3. x \in Step(a) <=> ~ (x \in ShiftRight(a) <=> x \in Polynomial)
    BY <2>1, XorIff
  <2>4. x \in Polynomial => x \in Nat
    BY PolynomialFacts DEF Words
  <2> QED
    BY <1>2, <1>5, <2>2, <2>3, <2>4
<1>6. CASE 0 \notin a
  <2>1. Step(a) = ShiftRight(a)
    BY <1>6 DEF Step
  <2> QED
    BY <1>2, <1>4, <1>6, <2>1
<1> QED
  BY <1>5, <1>6

\* The loop over the bits of a byte, as the sequence of its words.
LEMMA AddByteSteps ==
  ASSUME NEW word \in Words, NEW byte \in SUBSET (0 .. 7)
  PROVE  \E a \in [0 .. 8 -> Words] :
           /\ a[0] = Xor(word, byte) /\ \A j \in 1 .. 8 : a[j] = Step(a[j - 1])
           /\ AddByte(word, byte) = a[8]
<1> DEFINE first == Xor(word, byte)
           step == [j \in 1 .. 8 |-> [w \in Words |-> Step(w)]]
           Turn(g) == [j \in 0 .. 8 |-> IF j = 0 THEN first ELSE Step(g[j - 1])]
           h == CHOOSE g : g = Turn(g)
<1>1. first \in Words
  BY DEF Xor, Words
<1>2. \A w \in Words : Step(w) \in Words
  BY StepIff
<1>3. step \in [1 .. 8 -> [Words -> Words]]
  BY <1>2
<1>4. AddByte(word, byte) = h[8]
  BY Zenon DEF AddByte
<1> HIDE DEF first
<1>5. \E g : g = Turn(g)
  <2>1. PICK f \in [0 .. 8 -> Words] :
          f[0] = first /\ \A j \in 1 .. 8 : f[j] = step[j][f[j - 1]]
    <3> DEFINE n == 8
    <3>1. n \in Nat /\ step \in [1 .. n -> [Words -> Words]]
      BY <1>3
    <3> HIDE DEF step, n
    <3>2. \E f \in [0 .. n -> Words] :
            f[0] = first /\ \A j \in 1 .. n : f[j] = step[j][f[j - 1]]
      BY <1>1, <3>1, LoopRuns
    <3> QED
      BY <3>2 DEF n
  <2>2. \A j \in 1 .. 8 : f[j] = Step(f[j - 1])
    <3> TAKE j \in 1 .. 8
    <3>1. j - 1 \in 0 .. 8 /\ f[j - 1] \in Words
      BY <2>1
    <3> QED
      BY <2>1, <3>1
  <2>3. \A j \in 0 .. 8 : f[j] = IF j = 0 THEN first ELSE Step(f[j - 1])
    BY <2>1, <2>2
  <2>4. f = Turn(f)
    BY <2>1, <2>3
  <2> QED
    BY <2>4
<1>6. h = Turn(h)
  BY <1>5, Zenon
<1> HIDE DEF h
<1>7. h[0] = first /\ \A j \in 1 .. 8 : h[j] = Step(h[j - 1])
  BY <1>6
<1>8. \A j \in 0 .. 8 : h[j] \in Words
  <2>1. \A j \in 1 .. 8 : h[j - 1] \in Words => h[j] \in Words
    BY <1>2, <1>7
  <2>2. h[0] \in Words
    BY <1>1, <1>7
  <2>3. h[1] \in Words /\ h[2] \in Words /\ h[3] \in Words /\ h[4] \in Words
        /\ h[5] \in Words /\ h[6] \in Words /\ h[7] \in Words /\ h[8] \in Words
    BY <2>1, <2>2
  <2> QED
    BY <2>2, <2>3
<1>9. h \in [0 .. 8 -> Words]
  BY <1>6, <1>8
<1> QED
  BY <1>4, <1>7, <1>9 DEF first

\* A step is linear.
LEMMA StepLinear ==
  ASSUME NEW a \in Words, NEW b \in Words
  PROVE  Xor(a, b) \in Words /\ Step(Xor(a, b)) = Xor(Step(a), Step(b))
<1>1. Xor(a, b) \in Words
  BY DEF Xor, Words
<1>2. Step(a) \in Words /\ Step(b) \in Words /\ Step(Xor(a, b)) \in Words
  BY <1>1, StepIff
<1>3. ASSUME NEW x \in 0 .. 31
      PROVE  x \in Step(Xor(a, b)) <=> x \in Xor(Step(a), Step(b))
  <2>1. /\ x \in Step(a) <=> ~ (x + 1 \in a <=> (0 \in a /\ x \in Polynomial))
        /\ x \in Step(b) <=> ~ (x + 1 \in b <=> (0 \in b /\ x \in Polynomial))
        /\ x \in Step(Xor(a, b)) <=>
             ~ (x + 1 \in Xor(a, b) <=> (0 \in Xor(a, b) /\ x \in Polynomial))
    BY <1>1, StepIff
  <2>2. /\ x + 1 \in Xor(a, b) <=> ~ (x + 1 \in a <=> x + 1 \in b)
        /\ 0 \in Xor(a, b) <=> ~ (0 \in a <=> 0 \in b)
        /\ x \in Xor(Step(a), Step(b)) <=> ~ (x \in Step(a) <=> x \in Step(b))
    BY XorIff
  <2> QED
    BY <2>1, <2>2
<1>4. Xor(Step(a), Step(b)) \in Words
  BY <1>2 DEF Xor, Words
<1> QED
  BY <1>1, <1>2, <1>3, <1>4 DEF Words

\* What is in the low bits after a step was one bit higher before: a carry would show in
\* the highest bit.
LEMMA StepBack ==
  ASSUME NEW a \in Words, NEW k \in Int, k < 31, NEW m \in Nat,
         Step(a) \subseteq m .. k
  PROVE  a \subseteq m + 1 .. k + 1
<1>1. 0 \notin a
  <2>1. 31 \notin Step(a)
    BY DEF Words
  <2>2. 31 + 1 \notin a
    BY DEF Words
  <2> QED
    BY <2>1, <2>2, StepIff, PolynomialFacts
<1>2. ASSUME NEW x \in a PROVE x \in m + 1 .. k + 1
  <2>1. x \in 1 .. 31
    BY <1>1 DEF Words
  <2>2. x - 1 \in Step(a)
    BY <1>1, <2>1, StepIff
  <2> QED
    BY <2>1, <2>2
<1> QED
  BY <1>2

\* Two words to which a byte each is added differ in the low bits only if they and the
\* bytes, taken together, differ eight bits higher up.
LEMMA AddByteBack ==
  ASSUME NEW c \in Words, NEW d \in Words, NEW b \in SUBSET (0 .. 7), NEW e \in SUBSET (0 .. 7),
         NEW k \in Int, k <= 23, Xor(AddByte(c, b), AddByte(d, e)) \subseteq 0 .. k
  PROVE  Xor(Xor(c, b), Xor(d, e)) \subseteq 8 .. k + 8
<1>1. PICK p \in [0 .. 8 -> Words] :
        /\ p[0] = Xor(c, b) /\ \A j \in 1 .. 8 : p[j] = Step(p[j - 1])
        /\ AddByte(c, b) = p[8]
  BY AddByteSteps
<1>2. PICK q \in [0 .. 8 -> Words] :
        /\ q[0] = Xor(d, e) /\ \A j \in 1 .. 8 : q[j] = Step(q[j - 1])
        /\ AddByte(d, e) = q[8]
  BY AddByteSteps
<1> DEFINE X(j) == Xor(p[j], q[j])
<1>3. ASSUME NEW j \in 1 .. 8, X(j) \subseteq 8 - j .. k + 8 - j
      PROVE  X(j - 1) \subseteq 8 - (j - 1) .. k + 8 - (j - 1)
  <2>1. p[j - 1] \in Words /\ q[j - 1] \in Words /\ p[j] = Step(p[j - 1]) /\ q[j] = Step(q[j - 1])
    BY <1>1, <1>2
  <2>2. X(j - 1) \in Words /\ Step(X(j - 1)) = X(j)
    BY <2>1, StepLinear
  <2> HIDE DEF X
  <2> DEFINE m == 8 - j
             l == k + 8 - j
  <2>3. m \in Nat /\ l \in Int /\ l < 31 /\ Step(X(j - 1)) \subseteq m .. l
    BY <1>3, <2>2
  <2> HIDE DEF m, l
  <2>4. X(j - 1) \subseteq m + 1 .. l + 1
    BY <2>2, <2>3, StepBack
  <2> QED
    BY <2>4 DEF m, l
<1>4. X(8) \subseteq 8 - 8 .. k + 8 - 8
  BY <1>1, <1>2
<1> HIDE DEF X
<1>5. X(7) \subseteq 8 - 7 .. k + 8 - 7
  BY <1>3, <1>4
<1>6. X(6) \subseteq 8 - 6 .. k + 8 - 6
  BY <1>3, <1>5
<1>7. X(5) \subseteq 8 - 5 .. k + 8 - 5
  BY <1>3, <1>6
<1>8. X(4) \subseteq 8 - 4 .. k + 8 - 4
  BY <1>3, <1>7
<1>9. X(3) \subseteq 8 - 3 .. k + 8 - 3
  BY <1>3, <1>8
<1>10. X(2) \subseteq 8 - 2 .. k + 8 - 2
  BY <1>3, <1>9
<1>11. X(1) \subseteq 8 - 1 .. k + 8 - 1
  BY <1>3, <1>10
<1>12. X(0) \subseteq 8 - 0 .. k + 8 - 0
  BY <1>3, <1>11
<1> QED
  BY <1>1, <1>2, <1>12 DEF X

\* The bits in which two bytes differ.
LEMMA BytesDiffer ==
  ASSUME NEW c \in Words, NEW d \in Words, NEW b \in SUBSET (0 .. 7), NEW e \in SUBSET (0 .. 7),
         NEW k \in Int, Xor(Xor(c, b), Xor(d, e)) \subseteq 8 .. k
  PROVE  /\ k >= 7 => Xor(c, d) \subseteq 0 .. k
         /\ b = e => Xor(c, d) \subseteq 0 .. k
         /\ c = d => b = e
<1>1. \A x : x \in Xor(Xor(c, b), Xor(d, e)) <=>
               ~ ((x \in c <=> x \in b) <=> (x \in d <=> x \in e))
  BY DEF Xor
<1>2. \A x : x \in Xor(c, d) <=> ~ (x \in c <=> x \in d)
  BY DEF Xor
<1>3. ASSUME NEW x \in Xor(c, d), k >= 7 \/ b = e PROVE x \in 0 .. k
  <2>1. x \in 0 .. 31
    BY DEF Xor, Words
  <2>2. CASE x \in b <=> x \in e
    BY <1>1, <1>2, <1>3, <2>1, <2>2
  <2>3. CASE ~ (x \in b <=> x \in e)
    <3>1. x \in 0 .. 7 /\ k >= 7
      BY <1>3, <2>3
    <3> QED
      BY <3>1
  <2> QED
    BY <2>2, <2>3
<1>4. ASSUME c = d PROVE b = e
  <2>1. \A x \in 0 .. 7 : x \in b <=> x \in e
    BY <1>1, <1>4
  <2> QED
    BY <2>1
<1> QED
  BY <1>3, <1>4

\* The types of the CRC's variables.
CrcTypes ==
  /\ crc \in Words /\ crc_read \in Words
  /\ written \in Seq(Bytes) /\ read \in Seq(Bytes) /\ Len(read) = Len(written)

\* How many of the four bytes behind byte at are in.
Behind(at) ==
  IF Len(written) <= at THEN 0 ELSE IF Len(written) >= at + 4 THEN 4 ELSE Len(written) - at

\* Damage that has to be noticed yet shows in the higher bits of the two words.
DamageInv ==
  /\ CrcTypes
  /\ written = read => crc = crc_read
  /\ \A at \in Nat :
        SameBut(at) /\ Xor(crc, crc_read) \subseteq 0 .. 31 - 8 * Behind(at) => written = read

\* Each byte, damaged or not, keeps that.
LEMMA DamageNext == DamageInv /\ [CrcNext]_crc_vars => DamageInv'
<1> SUFFICES ASSUME DamageInv, [CrcNext]_crc_vars PROVE DamageInv'
  OBVIOUS
<1>1. CASE UNCHANGED crc_vars
  BY <1>1 DEF crc_vars, DamageInv, CrcTypes, SameBut, Behind
<1>2. CASE CrcNext
  <2>1. PICK b \in Bytes, e \in Bytes :
          /\ crc' = AddByte(crc, b) /\ crc_read' = AddByte(crc_read, e)
          /\ written' = Append(written, b) /\ read' = Append(read, e)
    BY <1>2 DEF CrcNext, NextByte
  <2>2. b \in SUBSET (0 .. 7) /\ e \in SUBSET (0 .. 7)
    BY CrcAssumption
  <2>3. crc' \in Words /\ crc_read' \in Words
    <3>1. 8 \in 0 .. 8
      OBVIOUS
    <3>2. crc \in Words /\ crc_read \in Words
      BY DEF DamageInv, CrcTypes
    <3> QED
      BY <2>1, <2>2, <3>1, <3>2, AddByteSteps
  <2> DEFINE n == Len(written)
  <2>4. /\ n \in Nat /\ Len(read) = n /\ Len(written') = n + 1 /\ Len(read') = n + 1
        /\ \A i \in 1 .. n : written'[i] = written[i] /\ read'[i] = read[i]
        /\ written'[n + 1] = b /\ read'[n + 1] = e
        /\ written' \in Seq(Bytes) /\ read' \in Seq(Bytes)
        /\ DOMAIN written = 1 .. n /\ DOMAIN written' = 1 .. n + 1
    BY <2>1 DEF DamageInv, CrcTypes
  <2>5. written' = read' <=> written = read /\ b = e
    BY <2>1, <2>4 DEF DamageInv, CrcTypes
  <2>6. written' = read' => crc' = crc_read'
    BY <2>1, <2>5 DEF DamageInv
  <2>7. ASSUME NEW at \in Nat, SameBut(at)', Xor(crc', crc_read') \subseteq 0 .. 31 - 8 * Behind(at)'
        PROVE  written' = read'
    <3>1. \A i \in 1 .. n + 1 : i \notin at + 1 .. at + 4 => written'[i] = read'[i]
      BY <2>4, <2>7 DEF SameBut
    <3>2. SameBut(at)
      BY <2>4, <3>1 DEF SameBut
    <3>3. CASE n + 1 <= at
      <4>1. \A i \in 1 .. n + 1 : written'[i] = read'[i]
        BY <2>4, <3>1, <3>3
      <4> QED
        BY <2>4, <4>1
    <3>4. CASE at < n + 1
      <4> DEFINE k == 31 - 8 * Behind(at)'
                 x == Xor(Xor(crc, b), Xor(crc_read, e))
      <4>1. Behind(at)' = IF n + 1 >= at + 4 THEN 4 ELSE n + 1 - at
        BY <2>4, <3>4 DEF Behind
      <4>2. Behind(at) = IF n >= at + 4 THEN 4 ELSE n - at
        BY <2>4, <3>4 DEF Behind
      <4>3. k \in Int /\ k <= 23 /\ Xor(AddByte(crc, b), AddByte(crc_read, e)) \subseteq 0 .. k
        BY <2>1, <2>4, <2>7, <3>4, <4>1
      <4>4. x \subseteq 8 .. k + 8
        <5> HIDE DEF k
        <5> QED
          BY <2>2, <4>3, AddByteBack DEF DamageInv, CrcTypes
      <4>5. CASE n < at + 4
        <5>1. k + 8 = 31 - 8 * Behind(at) /\ k + 8 >= 7
          BY <2>4, <3>4, <4>1, <4>2, <4>5
        <5>2. Xor(crc, crc_read) \subseteq 0 .. k + 8 /\ (crc = crc_read => b = e)
          <6> HIDE DEF k
          <6>1. k + 8 \in Int
            BY <4>3
          <6> QED
            BY <2>2, <4>4, <5>1, <6>1, BytesDiffer DEF DamageInv, CrcTypes
        <5>3. written = read
          BY <3>2, <5>1, <5>2 DEF DamageInv
        <5> QED
          BY <2>5, <5>2, <5>3 DEF DamageInv
      <4>6. CASE n >= at + 4
        <5>1. b = e
          BY <2>4, <3>1, <4>6
        <5>2. k = 31 - 8 * Behind(at) /\ k + 8 = 7 /\ k = -1
          BY <2>4, <4>1, <4>2, <4>6
        <5>3. Xor(crc, crc_read) = {}
          <6>1. x = {}
            BY <4>4, <5>2
          <6>2. \A y : y \in crc <=> y \in crc_read
            BY <5>1, <6>1 DEF Xor
          <6> QED
            BY <6>2 DEF Xor
        <5>4. written = read
          BY <3>2, <5>3 DEF DamageInv
        <5> QED
          BY <2>5, <5>1, <5>4
      <4> QED
        BY <2>4, <4>5, <4>6
    <3> QED
      BY <2>4, <3>3, <3>4
  <2> QED
    BY <2>3, <2>4, <2>6, <2>7 DEF DamageInv, CrcTypes
<1> QED
  BY <1>1, <1>2

\* Before the first byte nothing is damaged.
LEMMA DamageInit == CrcInit => DamageInv
<1> SUFFICES ASSUME CrcInit PROVE DamageInv
  OBVIOUS
<1>1. Ones \in Words /\ << >> \in Seq(Bytes)
  BY DEF Ones, Words
<1> QED
  BY <1>1 DEF CrcInit, DamageInv, CrcTypes

\* Whatever the length of a frame, damage to four bytes in a row changes its CRC.
THEOREM DamageShows == CrcSpec => []DamageIsNoticed
<1>1. DamageInv => DamageIsNoticed
  <2> SUFFICES ASSUME DamageInv, NEW at \in 0 .. MaxLen, SameBut(at), Result(crc) = Result(crc_read)
               PROVE  written = read
    BY DEF DamageIsNoticed
  <2>1. crc = crc_read
    BY DEF DamageInv, CrcTypes, Words, Result, Ones
  <2>2. Xor(crc, crc_read) = {}
    BY <2>1 DEF Xor
  <2>3. at \in Nat
    BY CrcAssumption
  <2> QED
    BY <2>2, <2>3 DEF DamageInv
<1> QED
  BY <1>1, DamageInit, DamageNext, PTL DEF CrcSpec

\* Polynomials over {0, 1} are sets of exponents.
Polys == SUBSET Int
ByteSets == SUBSET (0 .. 7)

\* One division step: the power e + 1 is taken away.
Divide(above, e) ==
  IF e + 1 \in above THEN Xor(above, {e + 1 - 32 + g : g \in Generator}) ELSE above

\* The coefficients after a division step.
LEMMA DivideIff ==
  ASSUME NEW above \in Polys, NEW e \in Int, NEW x \in Int
  PROVE  /\ Divide(above, e) \in Polys
         /\ x \in Divide(above, e) <=>
              ~ (x \in above <=> (e + 1 \in above /\ (x = e + 1 \/ e - x \in Polynomial)))
<1>1. Generator \in Polys
  BY PolynomialFacts DEF Generator, Words, Polys
<1>2. \A y \in Int : y \in {e + 1 - 32 + g : g \in Generator} <=> y = e + 1 \/ e - y \in Polynomial
  <2> TAKE y \in Int
  <2>1. y \in {e + 1 - 32 + g : g \in Generator} <=> y - (e + 1 - 32) \in Generator
    BY <1>1 DEF Polys
  <2>2. y - (e + 1 - 32) \in Generator <=> y - (e + 1 - 32) = 32 \/ 31 - (y - (e + 1 - 32)) \in Polynomial
    <3>1. \A z \in Int : z \in Generator <=> z = 32 \/ 31 - z \in Polynomial
      BY PolynomialFacts DEF Generator, Words
    <3> QED
      BY <3>1
  <2>3. 31 - (y - (e + 1 - 32)) = e - y
    OBVIOUS
  <2> QED
    BY <2>1, <2>2, <2>3
<1>3. {e + 1 - 32 + g : g \in Generator} \in Polys
  BY <1>1 DEF Polys
<1> QED
  BY <1>2, <1>3 DEF Divide, Xor, Polys

\* The function by which Remainder is defined exists and obeys its equations.
LEMMA RemainderSteps ==
  ASSUME NEW dividend \in Polys, NEW n \in Nat
  PROVE  \E r \in [31 .. n + 31 -> Polys] :
           /\ r[n + 31] = dividend
           /\ \A e \in 31 .. n + 30 : r[e] = Divide(r[e + 1], e)
           /\ Remainder(dividend, n + 31) = r[31]
<1> DEFINE degree == n + 31
           step == [i \in 1 .. n |-> [p \in Polys |-> Divide(p, degree - i)]]
           Turn(g) == [e \in 31 .. degree |-> IF e = degree THEN dividend ELSE Divide(g[e + 1], e)]
           h == CHOOSE g : g = Turn(g)
<1>1. \A p \in Polys, e \in Int : Divide(p, e) \in Polys
  BY DivideIff
<1>2. Remainder(dividend, degree) = h[31]
  BY Zenon DEF Remainder, Divide
<1>3. \E g : g = Turn(g)
  <2>1. step \in [1 .. n -> [Polys -> Polys]]
    BY <1>1
  <2>2. PICK f \in [0 .. n -> Polys] :
          f[0] = dividend /\ \A i \in 1 .. n : f[i] = step[i][f[i - 1]]
    <3> HIDE DEF step
    <3> QED
      BY <2>1, LoopRuns
  <2>3. \A i \in 1 .. n : f[i] = Divide(f[i - 1], degree - i)
    <3> TAKE i \in 1 .. n
    <3>1. i - 1 \in 0 .. n /\ f[i - 1] \in Polys
      BY <2>2
    <3> QED
      BY <2>2, <3>1
  <2> DEFINE r == [e \in 31 .. degree |-> f[degree - e]]
  <2>4. ASSUME NEW e \in 31 .. degree
        PROVE  r[e] = IF e = degree THEN dividend ELSE Divide(r[e + 1], e)
    <3>1. CASE e = degree
      BY <2>2, <3>1
    <3>2. CASE e # degree
      <4> DEFINE i == degree - e
      <4>1. i \in 1 .. n /\ degree - i = e /\ e + 1 \in 31 .. degree /\ degree - (e + 1) = i - 1
        BY <3>2
      <4>2. r[e] = f[i] /\ r[e + 1] = f[i - 1]
        BY <4>1
      <4> QED
        BY <2>3, <3>2, <4>1, <4>2
    <3> QED
      BY <3>1, <3>2
  <2>5. r = Turn(r)
    BY <2>4
  <2> QED
    BY <2>5
<1>4. h = Turn(h)
  BY <1>3, Zenon
<1> HIDE DEF h
<1>5. h[degree] = dividend /\ \A e \in 31 .. degree - 1 : h[e] = Divide(h[e + 1], e)
  BY <1>4
<1>6. \A e \in 31 .. degree : h[e] \in Polys
  <2> DEFINE T == {i \in 0 .. n : h[degree - i] \notin Polys}
  <2>1. ASSUME T # {} PROVE FALSE
    <3>1. PICK i \in T : \A j \in T : i <= j
      <4>1. T \subseteq Nat
        OBVIOUS
      <4> HIDE DEF T
      <4> QED
        BY <2>1, <4>1, NatMin
    <3>2. i \in 0 .. n /\ h[degree - i] \notin Polys
      OBVIOUS
    <3>3. i # 0
      BY <1>5, <3>2
    <3>4. i - 1 \notin T /\ i - 1 \in 0 .. n
      BY <3>1, <3>2, <3>3
    <3>5. h[degree - (i - 1)] \in Polys
      BY <3>4
    <3>6. degree - i \in 31 .. degree - 1 /\ degree - (i - 1) = (degree - i) + 1
      BY <3>2, <3>3
    <3>7. h[degree - i] = Divide(h[(degree - i) + 1], degree - i)
      BY <1>5, <3>6
    <3> QED
      BY <1>1, <3>2, <3>5, <3>6, <3>7
  <2>2. ASSUME NEW e \in 31 .. degree PROVE h[e] \in Polys
    <3>1. degree - e \in 0 .. n /\ degree - (degree - e) = e
      OBVIOUS
    <3>2. degree - e \notin T
      BY <2>1
    <3> QED
      BY <3>1, <3>2
  <2> QED
    BY <2>2
<1>7. h \in [31 .. degree -> Polys]
  BY <1>4, <1>6
<1>8. degree - 1 = n + 30
  OBVIOUS
<1> QED
  BY <1>2, <1>5, <1>7, <1>8

\* The coefficients of a message.
LEMMA MessageIff ==
  ASSUME NEW w \in Seq(ByteSets), NEW x \in Int
  PROVE  /\ x \in Message(w) <=> \E i \in 1 .. Len(w) : 8 * (Len(w) - i) + 7 - x \in w[i]
         /\ Message(w) \in SUBSET Nat
<1>1. \A i \in 1 .. Len(w) : w[i] \in SUBSET (0 .. 7)
  BY DEF ByteSets
<1>2. \A i \in 1 .. Len(w) : {8 * (Len(w) - i) + 7 - b : b \in w[i]} \in SUBSET Nat
  <2> TAKE i \in 1 .. Len(w)
  <2>1. Len(w) - i \in Nat
    OBVIOUS
  <2>2. \A b \in w[i] : b \in 0 .. 7
    BY <1>1
  <2> QED
    BY <2>1, <2>2
<1>3. \A i \in 1 .. Len(w) : x \in {8 * (Len(w) - i) + 7 - b : b \in w[i]} <=>
                              8 * (Len(w) - i) + 7 - x \in w[i]
  <2> TAKE i \in 1 .. Len(w)
  <2>1. \A b \in w[i] : b \in Int
    BY <1>1
  <2> QED
    BY <2>1
<1>4. DOMAIN w = 1 .. Len(w)
  OBVIOUS
<1>5. \A y : y \in Message(w) <=>
             \E i \in 1 .. Len(w) : y \in {8 * (Len(w) - i) + 7 - b : b \in w[i]}
  BY <1>4 DEF Message
<1> QED
  BY <1>2, <1>3, <1>5

\* A byte more shifts the message up by eight powers and comes in below.
LEMMA MessageAppend ==
  ASSUME NEW w \in Seq(ByteSets), NEW byte \in ByteSets, NEW x \in Int
  PROVE  x \in Message(Append(w, byte)) <=> x - 8 \in Message(w) \/ 7 - x \in byte
<1> DEFINE v == Append(w, byte)
           n == Len(w)
<1>1. /\ v \in Seq(ByteSets) /\ Len(v) = n + 1 /\ n \in Nat
      /\ \A i \in 1 .. n : v[i] = w[i]
      /\ v[n + 1] = byte
  OBVIOUS
<1> HIDE DEF v
<1>2. x \in Message(v) <=> \E i \in 1 .. n + 1 : 8 * (n + 1 - i) + 7 - x \in v[i]
  <2>1. x \in Message(v) <=> \E i \in 1 .. Len(v) : 8 * (Len(v) - i) + 7 - x \in v[i]
    BY <1>1, MessageIff
  <2> QED
    BY <1>1, <2>1
<1>3. x - 8 \in Message(w) <=> \E i \in 1 .. n : 8 * (n - i) + 7 - (x - 8) \in w[i]
  <2>1. x - 8 \in Int
    OBVIOUS
  <2> QED
    BY <2>1, MessageIff
<1>4. \A i \in 1 .. n : 8 * (n - i) + 7 - (x - 8) = 8 * (n + 1 - i) + 7 - x
  BY <1>1
<1>5. 8 * (n + 1 - (n + 1)) + 7 - x = 7 - x
  BY <1>1
<1>6. 1 .. n + 1 = (1 .. n) \cup {n + 1}
  BY <1>1
<1> QED
  BY <1>1, <1>2, <1>3, <1>4, <1>5, <1>6 DEF v

\* The message with its first 32 bits inverted, shifted up by 32.
Inverted(w) ==
  Xor({e + 32 : e \in Message(w)}, {e + 8 * Len(w) : e \in 0 .. 31})

\* The coefficients of the dividend.
LEMMA InvertedIff ==
  ASSUME NEW w \in Seq(ByteSets), NEW x \in Int
  PROVE  /\ x \in Inverted(w) <=> ~ (x - 32 \in Message(w) <=> x - 8 * Len(w) \in 0 .. 31)
         /\ Inverted(w) \in Polys
<1>1. Message(w) \in SUBSET Nat
  BY MessageIff
<1>2. x \in {e + 32 : e \in Message(w)} <=> x - 32 \in Message(w)
  BY <1>1
<1>3. Len(w) \in Nat
  OBVIOUS
<1>4. x \in {e + 8 * Len(w) : e \in 0 .. 31} <=> x - 8 * Len(w) \in 0 .. 31
  <2> DEFINE m == 8 * Len(w)
  <2>1. m \in Int
    BY <1>3
  <2> HIDE DEF m
  <2>2. ASSUME NEW e \in 0 .. 31, x = e + m PROVE x - m \in 0 .. 31
    BY <2>1, <2>2
  <2>3. ASSUME x - m \in 0 .. 31 PROVE \E e \in 0 .. 31 : x = e + m
    <3>1. x = (x - m) + m
      BY <2>1
    <3> QED
      BY <2>3, <3>1
  <2> QED
    BY <2>2, <2>3 DEF m
<1>5. {e + 32 : e \in Message(w)} \in Polys /\ {e + 8 * Len(w) : e \in 0 .. 31} \in Polys
  <2>1. {e + 32 : e \in Message(w)} \in Polys
    BY <1>1 DEF Polys
  <2>2. \A e \in 0 .. 31 : e + 8 * Len(w) \in Int
    BY <1>3
  <2> QED
    BY <2>1, <2>2 DEF Polys
<1> QED
  BY <1>2, <1>4, <1>5 DEF Inverted, Xor, Polys

\* A byte more shifts the dividend up by eight powers and changes its powers 32 to 39.
LEMMA InvertedAppend ==
  ASSUME NEW w \in Seq(ByteSets), NEW byte \in ByteSets, NEW x \in Int
  PROVE  x \in Inverted(Append(w, byte)) <=> ~ (x - 8 \in Inverted(w) <=> 39 - x \in byte)
<1>1. Append(w, byte) \in Seq(ByteSets) /\ Len(Append(w, byte)) = Len(w) + 1 /\ Len(w) \in Nat
  OBVIOUS
<1>2. x \in Inverted(Append(w, byte)) <=>
        ~ (x - 32 \in Message(Append(w, byte)) <=> x - 8 * (Len(w) + 1) \in 0 .. 31)
  BY <1>1, InvertedIff
<1>3. x - 8 \in Inverted(w) <=> ~ ((x - 8) - 32 \in Message(w) <=> (x - 8) - 8 * Len(w) \in 0 .. 31)
  <2>1. x - 8 \in Int
    OBVIOUS
  <2> QED
    BY <2>1, InvertedIff
<1>4. x - 32 \in Message(Append(w, byte)) <=> (x - 32) - 8 \in Message(w) \/ 7 - (x - 32) \in byte
  BY MessageAppend
<1>5. (x - 32) - 8 = (x - 8) - 32 /\ 7 - (x - 32) = 39 - x
      /\ x - 8 * (Len(w) + 1) = (x - 8) - 8 * Len(w)
  BY <1>1
<1>6. ~ ((x - 8) - 32 \in Message(w) /\ 39 - x \in byte)
  BY MessageIff DEF ByteSets
<1> QED
  BY <1>2, <1>3, <1>4, <1>5, <1>6

\* What is left of the longer message is what is left of the shorter one, eight powers
\* up, and the byte that came in.
Lifted(long, short, byte) ==
  \A x \in Int : x \in long <=> ~ (x - 8 \in short <=> 39 - x \in byte)

\* One step of the longer division is the same step of the shorter one, eight powers up.
LEMMA DivideAbove ==
  ASSUME NEW byte \in ByteSets, NEW long \in Polys, NEW short \in Polys,
         NEW e \in Int, e >= 31, Lifted(long, short, byte)
  PROVE  Lifted(Divide(long, e + 8), Divide(short, e), byte)
<1> DEFINE k == e + 8
<1>1. k \in Int /\ k + 1 \in Int /\ (k + 1) - 8 = e + 1 /\ 39 - (k + 1) < 0
  OBVIOUS
<1>2. k + 1 \in long <=> e + 1 \in short
  <2>1. 39 - (k + 1) \notin byte
    BY <1>1 DEF ByteSets
  <2>2. k + 1 \in long <=> ~ ((k + 1) - 8 \in short <=> 39 - (k + 1) \in byte)
    BY <1>1 DEF Lifted
  <2> QED
    BY <1>1, <2>1, <2>2
<1> SUFFICES ASSUME NEW x \in Int
             PROVE  x \in Divide(long, k) <=> ~ (x - 8 \in Divide(short, e) <=> 39 - x \in byte)
  BY DEF Lifted
<1> DEFINE y == x - 8
<1>3. y \in Int /\ (x = k + 1 <=> y = e + 1) /\ k - x = e - y
  OBVIOUS
<1>4. x \in long <=> ~ (y \in short <=> 39 - x \in byte)
  BY DEF Lifted
<1> HIDE DEF k, y
<1>5. x \in Divide(long, k) <=>
        ~ (x \in long <=> (k + 1 \in long /\ (x = k + 1 \/ k - x \in Polynomial)))
  BY <1>1, DivideIff
<1>6. y \in Divide(short, e) <=>
        ~ (y \in short <=> (e + 1 \in short /\ (y = e + 1 \/ e - y \in Polynomial)))
  BY <1>3, DivideIff
<1>7. x \in Divide(long, k) <=> ~ (y \in Divide(short, e) <=> 39 - x \in byte)
  BY <1>2, <1>3, <1>4, <1>5, <1>6
<1> QED
  BY <1>7 DEF y

\* The division of the longer message goes on where that of the shorter one ends.
LEMMA DivisionGoesOn ==
  ASSUME NEW n \in Nat, NEW byte \in ByteSets,
         NEW r \in [31 .. n + 31 -> Polys], NEW q \in [31 .. n + 39 -> Polys],
         \A e \in 31 .. n + 30 : r[e] = Divide(r[e + 1], e),
         \A e \in 31 .. n + 38 : q[e] = Divide(q[e + 1], e),
         \A x \in Int : x \in q[n + 39] <=> ~ (x - 8 \in r[n + 31] <=> 39 - x \in byte)
  PROVE  \A x \in Int : x \in q[39] <=> ~ (x - 8 \in r[31] <=> 39 - x \in byte)
<1> DEFINE P(k) == Lifted(q[k + 8], r[k], byte)
<1>1. P(n + 31)
  <2>1. (n + 31) + 8 = n + 39
    OBVIOUS
  <2> QED
    BY <2>1 DEF Lifted
<1>2. ASSUME NEW e \in 31 .. n + 30, P(e + 1) PROVE P(e)
  <2>1. /\ e \in Int /\ e >= 31 /\ e + 1 \in 31 .. n + 31 /\ e + 9 \in 31 .. n + 39
        /\ e + 8 \in 31 .. n + 38 /\ (e + 8) + 1 = e + 9 /\ (e + 1) + 8 = e + 9
    OBVIOUS
  <2>2. r[e + 1] \in Polys
    BY <2>1
  <2>3. q[e + 9] \in Polys
    BY <2>1
  <2>4. r[e] = Divide(r[e + 1], e)
    OBVIOUS
  <2>5. q[e + 8] = Divide(q[e + 9], e + 8)
    BY <2>1
  <2>6. Lifted(q[e + 9], r[e + 1], byte)
    BY <1>2, <2>1
  <2>7. Lifted(Divide(q[e + 9], e + 8), Divide(r[e + 1], e), byte)
    BY <2>1, <2>2, <2>3, <2>6, DivideAbove
  <2> QED
    BY <2>4, <2>5, <2>7
<1> DEFINE T == {i \in Nat : i <= n /\ ~ P((n + 31) - i)}
<1> HIDE DEF P
<1>3. ASSUME T # {} PROVE FALSE
  <2>1. PICK i \in T : \A j \in T : i <= j
    <3>1. T \subseteq Nat
      OBVIOUS
    <3> HIDE DEF T
    <3> QED
      BY <1>3, <3>1, NatMin
  <2>2. i \in Nat /\ i <= n /\ ~ P((n + 31) - i)
    BY <2>1
  <2>3. i # 0
    <3>1. (n + 31) - 0 = n + 31
      OBVIOUS
    <3> QED
      BY <1>1, <2>2, <3>1
  <2>4. i - 1 \in Nat /\ i - 1 <= n /\ ~ (i <= i - 1)
    BY <2>2, <2>3
  <2>5. P((n + 31) - (i - 1))
    BY <2>1, <2>4
  <2>6. (n + 31) - i \in 31 .. n + 30 /\ (n + 31) - (i - 1) = ((n + 31) - i) + 1
    BY <2>2, <2>3
  <2> QED
    BY <1>2, <2>2, <2>5, <2>6
<1>4. P(31)
  <2>1. (n + 31) - n = 31 /\ n <= n
    OBVIOUS
  <2> QED
    BY <1>3, <2>1
<1>5. 31 + 8 = 39
  OBVIOUS
<1> QED
  BY <1>4, <1>5 DEF P, Lifted

\* One turn of the loop is one step of the division.
LEMMA TurnDivides ==
  ASSUME NEW above \in Polys, NEW before \in Words, NEW e \in Int,
         \A z \in Int : z \in above <=> (e + 1) - z \in before
  PROVE  \A x \in Int : x \in Divide(above, e) <=> e - x \in Step(before)
<1> SUFFICES ASSUME NEW x \in Int PROVE x \in Divide(above, e) <=> e - x \in Step(before)
  OBVIOUS
<1> DEFINE y == e - x
<1>1. y \in Int /\ y + 1 = (e + 1) - x /\ (x = e + 1 <=> y = -1)
  OBVIOUS
<1>2. e + 1 \in above <=> 0 \in before
  <2>1. e + 1 \in Int /\ (e + 1) - (e + 1) = 0
    OBVIOUS
  <2> QED
    BY <2>1
<1> HIDE DEF y
<1>3. x \in above <=> y + 1 \in before
  BY <1>1
<1>4. x \in Divide(above, e) <=>
        ~ (x \in above <=> (e + 1 \in above /\ (x = e + 1 \/ y \in Polynomial)))
  BY DivideIff DEF y
<1>5. y \in Step(before) <=> y \in Nat /\ ~ (y + 1 \in before <=> (0 \in before /\ y \in Polynomial))
  BY <1>1, StepIff
<1>6. y \in Polynomial => y \in Nat
  BY PolynomialFacts DEF Words
<1>7. CASE y \in Nat
  <2>1. y # -1
    BY <1>7
  <2> QED
    BY <1>1, <1>2, <1>3, <1>4, <1>5, <1>7, <2>1 DEF y
<1>8. CASE y = -1
  <2>1. y + 1 = 0 /\ y \notin Nat
    BY <1>8
  <2> QED
    BY <1>1, <1>2, <1>3, <1>4, <1>5, <1>6, <1>8, <2>1 DEF y
<1>9. CASE y \notin Nat /\ y # -1
  <2>1. y + 1 < 0
    BY <1>1, <1>9
  <2>2. y + 1 \notin 0 .. 31 /\ before \subseteq 0 .. 31
    BY <2>1 DEF Words
  <2> QED
    BY <1>1, <1>2, <1>3, <1>4, <1>5, <1>6, <1>9, <2>2 DEF y
<1> QED
  BY <1>7, <1>8, <1>9

\* Its last eight steps are the loop over the bits of the byte.
LEMMA LoopDivides ==
  ASSUME NEW word \in Words, NEW byte \in ByteSets, NEW n \in Nat, NEW q \in [31 .. n + 39 -> Polys],
         \A e \in 31 .. n + 38 : q[e] = Divide(q[e + 1], e),
         \A x \in Int : x \in q[39] <=> 39 - x \in Xor(word, byte)
  PROVE  \A x \in Int : x \in q[31] <=> 31 - x \in AddByte(word, byte)
<1>1. PICK a \in [0 .. 8 -> Words] :
        /\ a[0] = Xor(word, byte) /\ \A j \in 1 .. 8 : a[j] = Step(a[j - 1])
        /\ AddByte(word, byte) = a[8]
  BY AddByteSteps DEF ByteSets
<1> DEFINE Q(j) == \A x \in Int : x \in q[39 - j] <=> (39 - j) - x \in a[j]
<1>2. Q(0)
  BY <1>1
<1>3. ASSUME NEW j \in 1 .. 8, Q(j - 1) PROVE Q(j)
  <2> DEFINE e == 39 - j
  <2>1. /\ e \in 31 .. n + 38 /\ e + 1 \in 31 .. n + 39 /\ j - 1 \in 0 .. 8
        /\ 39 - (j - 1) = e + 1 /\ e \in Int
    OBVIOUS
  <2>2. \A z \in Int : z \in q[e + 1] <=> (e + 1) - z \in a[j - 1]
    BY <1>3, <2>1
  <2> HIDE DEF e
  <2>3. q[e + 1] \in Polys
    BY <2>1
  <2>4. a[j - 1] \in Words
    BY <2>1
  <2>5. \A x \in Int : x \in Divide(q[e + 1], e) <=> e - x \in Step(a[j - 1])
    BY <2>1, <2>2, <2>3, <2>4, TurnDivides
  <2>6. q[e] = Divide(q[e + 1], e) /\ a[j] = Step(a[j - 1])
    BY <1>1, <2>1
  <2>7. \A x \in Int : x \in q[e] <=> e - x \in a[j]
    BY <2>5, <2>6
  <2> QED
    BY <2>7 DEF e
<1>20. 31 = 39 - 8
  OBVIOUS
<1> HIDE DEF Q
<1>4. Q(1)
  BY <1>2, <1>3
<1>5. Q(2)
  BY <1>3, <1>4
<1>6. Q(3)
  BY <1>3, <1>5
<1>7. Q(4)
  BY <1>3, <1>6
<1>8. Q(5)
  BY <1>3, <1>7
<1>9. Q(6)
  BY <1>3, <1>8
<1>10. Q(7)
  BY <1>3, <1>9
<1>11. Q(8)
  BY <1>3, <1>10
<1> QED
  BY <1>1, <1>11 DEF Q

\* A frame's bytes are among the sets of bits 0 to 7.
LEMMA FrameIsBytes == ASSUME NEW w \in Seq(Bytes) PROVE w \in Seq(ByteSets)
<1>1. Bytes \subseteq ByteSets
  BY CrcAssumption DEF ByteSets
<1> HIDE DEF ByteSets
<1>2. \A i \in 1 .. Len(w) : w[i] \in ByteSets
  BY <1>1
<1>3. Len(w) \in Nat /\ w = [i \in 1 .. Len(w) |-> w[i]]
  OBVIOUS
<1> QED
  BY <1>2, <1>3, IsASeq

\* The word, its lowest bit the highest power, is what is left of the bytes so far.
RemainderInv ==
  /\ CrcTypes
  /\ \A x \in Int :
        x \in Remainder(Inverted(written), 8 * Len(written) + 31) <=> 31 - x \in crc

\* A byte more keeps the word and the remainder together,
LEMMA RemainderNext ==
  ASSUME NEW w \in Seq(ByteSets), NEW word \in Words, NEW byte \in ByteSets,
         \A x \in Int : x \in Remainder(Inverted(w), 8 * Len(w) + 31) <=> 31 - x \in word
  PROVE  \A x \in Int : x \in Remainder(Inverted(Append(w, byte)), 8 * (Len(w) + 1) + 31) <=>
                        31 - x \in AddByte(word, byte)
<1> DEFINE n == 8 * Len(w)
           d == Inverted(w)
           c == Inverted(Append(w, byte))
<1>1. n \in Nat /\ n + 8 \in Nat /\ 8 * (Len(w) + 1) + 31 = (n + 8) + 31 /\ Append(w, byte) \in Seq(ByteSets)
  OBVIOUS
<1>2. d \in Polys /\ c \in Polys
  <2>1. 0 \in Int
    OBVIOUS
  <2> QED
    BY <1>1, <2>1, InvertedIff
<1>3. \A x \in Int : x \in c <=> ~ (x - 8 \in d <=> 39 - x \in byte)
  BY InvertedAppend
<1> HIDE DEF n, d, c
<1>4. PICK r \in [31 .. n + 31 -> Polys] :
        /\ r[n + 31] = d /\ \A e \in 31 .. n + 30 : r[e] = Divide(r[e + 1], e)
        /\ Remainder(d, n + 31) = r[31]
  BY <1>1, <1>2, RemainderSteps
<1>5. PICK q \in [31 .. n + 39 -> Polys] :
        /\ q[n + 39] = c /\ \A e \in 31 .. n + 38 : q[e] = Divide(q[e + 1], e)
        /\ Remainder(c, (n + 8) + 31) = q[31]
  <2>1. (n + 8) + 31 = n + 39 /\ (n + 8) + 30 = n + 38
    BY <1>1
  <2>2. \E q \in [31 .. (n + 8) + 31 -> Polys] :
           /\ q[(n + 8) + 31] = c
           /\ \A e \in 31 .. (n + 8) + 30 : q[e] = Divide(q[e + 1], e)
           /\ Remainder(c, (n + 8) + 31) = q[31]
    BY <1>1, <1>2, RemainderSteps
  <2> QED
    BY <2>1, <2>2
<1>6. \A x \in Int : x \in q[39] <=> ~ (x - 8 \in r[31] <=> 39 - x \in byte)
  BY <1>1, <1>3, <1>4, <1>5, DivisionGoesOn
<1>7. \A x \in Int : x \in r[31] <=> 31 - x \in word
  BY <1>4 DEF n, d
<1>8. ASSUME NEW x \in Int PROVE x \in q[39] <=> 39 - x \in Xor(word, byte)
  <2>1. x - 8 \in Int /\ 31 - (x - 8) = 39 - x
    OBVIOUS
  <2>2. x - 8 \in r[31] <=> 31 - (x - 8) \in word
    BY <1>7, <2>1
  <2>3. x \in q[39] <=> ~ (x - 8 \in r[31] <=> 39 - x \in byte)
    BY <1>6
  <2>4. x \in q[39] <=> ~ (39 - x \in word <=> 39 - x \in byte)
    BY <2>1, <2>2, <2>3
  <2>5. 39 - x \in Xor(word, byte) <=> ~ (39 - x \in word <=> 39 - x \in byte)
    BY XorIff
  <2> QED
    BY <2>4, <2>5
<1>9. \A x \in Int : x \in q[31] <=> 31 - x \in AddByte(word, byte)
  BY <1>1, <1>5, <1>8, LoopDivides
<1> QED
  BY <1>1, <1>5, <1>9 DEF n, c

\* and so does each step of the specification.
LEMMA RemainderStep == RemainderInv /\ CrcTypes' /\ [CrcNext]_crc_vars => RemainderInv'
<1> SUFFICES ASSUME RemainderInv, CrcTypes', [CrcNext]_crc_vars PROVE RemainderInv'
  OBVIOUS
<1>1. CASE UNCHANGED crc_vars
  BY <1>1 DEF crc_vars, RemainderInv, CrcTypes
<1>2. CASE CrcNext
  <2>1. PICK b \in Bytes : crc' = AddByte(crc, b) /\ written' = Append(written, b)
    BY <1>2 DEF CrcNext, NextByte
  <2>2. b \in ByteSets /\ written \in Seq(Bytes) /\ crc \in Words
    BY CrcAssumption DEF ByteSets, RemainderInv, CrcTypes
  <2>3. written \in Seq(ByteSets) /\ Len(written') = Len(written) + 1
    BY <2>1, <2>2, FrameIsBytes
  <2>4. \A x \in Int : x \in Remainder(Inverted(Append(written, b)), 8 * (Len(written) + 1) + 31)
                         <=> 31 - x \in AddByte(crc, b)
    BY <2>2, <2>3, RemainderNext DEF RemainderInv
  <2> QED
    BY <2>1, <2>3, <2>4 DEF RemainderInv
<1> QED
  BY <1>1, <1>2

\* Without a byte the dividend is its own remainder: 32 bits that are 1.
LEMMA RemainderInit == CrcInit => RemainderInv
<1> SUFFICES ASSUME CrcInit PROVE RemainderInv
  OBVIOUS
<1>1. CrcTypes /\ crc = 0 .. 31 /\ written = << >>
  BY DEF CrcInit, CrcTypes, Ones, Words
<1>2. Len(written) = 0 /\ written \in Seq(ByteSets)
  BY <1>1
<1>3. Message(written) = {}
  BY <1>1 DEF Message
<1>4. ASSUME NEW x \in Int PROVE x \in Inverted(written) <=> x \in 0 .. 31
  <2>1. x - 8 * Len(written) = x
    BY <1>2
  <2>2. x \in Inverted(written) <=>
          ~ (x - 32 \in Message(written) <=> x - 8 * Len(written) \in 0 .. 31)
    BY <1>2, InvertedIff
  <2> QED
    BY <1>3, <2>1, <2>2
<1>5. Inverted(written) \in Polys
  <2>1. 0 \in Int
    OBVIOUS
  <2> QED
    BY <1>2, <2>1, InvertedIff
<1>6. Remainder(Inverted(written), 31) = Inverted(written)
  <2> DEFINE n == 0
  <2>1. n \in Nat /\ n + 31 = 31
    OBVIOUS
  <2> HIDE DEF n
  <2> QED
    BY <1>5, <2>1, RemainderSteps
<1>7. 8 * Len(written) + 31 = 31
  BY <1>2
<1>8. \A x \in Int : x \in 0 .. 31 <=> 31 - x \in 0 .. 31
  OBVIOUS
<1> QED
  BY <1>1, <1>4, <1>6, <1>7, <1>8 DEF RemainderInv

\* The loop of shifts computes the CRC-32 of frames of any length.
THEOREM CrcIsCrc32 == CrcSpec => []CrcIsRemainder
<1>1. RemainderInv => CrcIsRemainder
  <2> SUFFICES ASSUME RemainderInv
               PROVE  Ones \ crc =
                        Ones \ {31 - e : e \in Remainder(Inverted(written), 8 * Len(written) + 31)}
    BY DEF CrcIsRemainder, Result, Inverted
  <2> DEFINE rem == Remainder(Inverted(written), 8 * Len(written) + 31)
  <2>1. \A x \in Int : x \in rem <=> 31 - x \in crc
    BY DEF RemainderInv
  <2>2. rem \in Polys
    <3>1. written \in Seq(ByteSets) /\ 8 * Len(written) \in Nat
      BY FrameIsBytes DEF RemainderInv, CrcTypes
    <3>2. Inverted(written) \in Polys
      <4>1. 0 \in Int
        OBVIOUS
      <4> QED
        BY <3>1, <4>1, InvertedIff
    <3> QED
      BY <3>1, <3>2, RemainderSteps
  <2> HIDE DEF rem
  <2>3. \A y \in Ones : y \in {31 - e : e \in rem} <=> y \in crc
    <3> TAKE y \in Ones
    <3>1. y \in Int /\ 31 - y \in Int /\ 31 - (31 - y) = y
      BY DEF Ones
    <3>2. y \in {31 - e : e \in rem} <=> 31 - y \in rem
      BY <2>2, <3>1 DEF Polys
    <3> QED
      BY <2>1, <3>1, <3>2
  <2> QED
    BY <2>3 DEF rem
<1>2. DamageInv => CrcTypes
  BY DEF DamageInv
<1>3. CrcInit => DamageInv
  BY DamageInit
<1> QED
  BY <1>1, <1>2, <1>3, RemainderInit, RemainderStep, DamageNext, PTL DEF CrcSpec

=============================================================================
