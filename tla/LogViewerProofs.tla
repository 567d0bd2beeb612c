--------------------------- MODULE LogViewerProofs ---------------------------
(***************************************************************************)
(* Proofs about LogViewer: on a line that damages nothing the viewer finds  *)
(* every frame and its statistics say what the firmware did, and a damaged  *)
(* byte costs few frames, for all payloads, magics, checksums and numbers.  *)
(***************************************************************************)
EXTENDS LogViewer, TLAPS, SequenceTheorems, FiniteSetTheorems

\* A frame as the firmware builds it: the second byte is the length of the rest.
Framed(c) == c \in Seq(Nat) /\ Len(c) >= 2 /\ Len(c) = 2 + c[2]

\* What is left of a frame on the line when n bytes of its content were read.
Rest(c, crc, n) ==
    [i \in 1 .. Len(c) - n + 1 |-> IF i <= Len(c) - n THEN Cell(c[n + i])
                                   ELSE [byte |-> crc, fits |-> c]]

\* The viewer is where the frame c is: what it has read and what is still on the line
\* make up the frame.
InAir(c, crc) ==
    \/ mode = "magic" /\ got = << >> /\ line = Cells(c, crc)
    \/ mode = "magic" /\ prev = MAGIC0 /\ got = << >> /\ line = Tail(Cells(c, crc))
    \/ \E n \in 0 .. Len(c) :
        /\ mode = IF n < 2 THEN "header" ELSE IF n < Len(c) THEN "payload" ELSE "crc"
        /\ prev = -1 /\ got = [i \in 1 .. n |-> c[i]] /\ line = Rest(c, crc, n)

Idle == mode = "magic" /\ prev = -1 /\ got = << >> /\ line = << >>

\* Numbers skipped between two frames that came in order.
Gaps(all, in_order, expected) == {n \in all : n < expected /\ \E r \in in_order : r < n}
Missed == pending \cup overtaken
InOrder == received \ overtaken

StatsType == [ok : Nat, crc_ng : Nat, gap : Nat, late : Nat, dup : Nat, expected : Nat \cup {-1}]

\* What the firmware keeps, whatever the numbers are.
DeviceInv ==
    /\ seq \in Nat /\ dumped \in Nat /\ sent \in Nat
    /\ pending \subseteq Nat /\ old \subseteq Nat
    /\ stored \subseteq frames /\ \A c \in frames : Framed(c)

\* The frames sent are counted, but for the one on the line, if any.
Counts(waiting) == stats \in StatsType /\ stats.crc_ng = 0 /\ stats.ok + waiting = sent

\* The numbers given out so far, by what became of their events; a is the number of
\* the frame on the line, or -1.
Numbers(a) ==
    /\ old = {} /\ frames = stored /\ IsFiniteSet(pending) /\ IsFiniteSet(overtaken)
    /\ received \subseteq 0 .. seq - 1 /\ pending \subseteq 0 .. seq - 1 /\ a \in -1 .. seq - 1
    /\ a \notin pending /\ received \cap pending = {}
    /\ 0 .. seq - 1 \subseteq pending \cup received \cup {a}
    /\ {c[1] : c \in stored} = (received \cup {a}) \ {-1}
    /\ overtaken \subseteq (received \cup {a}) \ {-1}
    /\ a \notin received /\ a # -1 =>
        IF a \in overtaken THEN \E r \in received : r > a ELSE \A r \in received : r < a

\* What the statistics say of them; the frame on the line is not counted yet.  The
\* greatest number received was not overtaken.
Books(a) ==
    /\ stats.late + stats.dup + (IF a \in received \cup overtaken THEN 1 ELSE 0)
        = dumped + Cardinality(overtaken)
    /\ received = {} => stats.expected = -1
    /\ received # {} => stats.expected - 1 \in InOrder
    /\ \A r \in received : r < stats.expected
    /\ stats.gap = Cardinality(Gaps(Missed, InOrder, stats.expected))

InBooks(a) == ~ restarted => Numbers(a) /\ Books(a)

ViewerInv ==
    /\ DeviceInv
    /\ \/ Idle /\ Counts(0) /\ InBooks(-1)
       \/ \E c \in frames : \E crc \in CrcBytes : InAir(c, crc) /\ Counts(1) /\ InBooks(c[1])

\* No damage is undone.
StatsInv == damaged \in Nat /\ (damaged = 0 => ViewerInv)

-----------------------------------------------------------------------------
(* The frame on the line.                                                  *)

LEMMA RestFacts ==
  ASSUME NEW c, Framed(c), NEW crc, NEW n \in 0 .. Len(c)
  PROVE  /\ Rest(c, crc, n) # << >>
         /\ n < Len(c) => /\ Head(Rest(c, crc, n)) = Cell(c[n + 1])
                          /\ Tail(Rest(c, crc, n)) = Rest(c, crc, n + 1)
         /\ n = Len(c) => /\ Head(Rest(c, crc, n)) = [byte |-> crc, fits |-> c]
                          /\ Tail(Rest(c, crc, n)) = << >>
<1> DEFINE S == {Cell(c[i]) : i \in 1 .. Len(c)} \cup {[byte |-> crc, fits |-> c]}
           r == Rest(c, crc, n)
<1>1. Len(c) \in Nat
  BY DEF Framed
<1>2. /\ r \in Seq(S) /\ Len(r) = Len(c) - n + 1
      /\ \A i \in 1 .. Len(c) - n + 1 : r[i] = IF i <= Len(c) - n THEN Cell(c[n + i])
                                               ELSE [byte |-> crc, fits |-> c]
  <2>1. \A i \in 1 .. Len(c) - n + 1 : (IF i <= Len(c) - n THEN Cell(c[n + i])
                                        ELSE [byte |-> crc, fits |-> c]) \in S
    BY <1>1
  <2> HIDE DEF S
  <2>2. Len(c) - n + 1 \in Nat
    BY <1>1
  <2> QED
    BY <2>1, <2>2 DEF Rest
<1> HIDE DEF S, r
<1>3. r # << >>
  BY <1>1, <1>2
<1>4. /\ Head(r) = r[1] /\ Tail(r) \in Seq(S) /\ Len(Tail(r)) = Len(c) - n
      /\ \A i \in 1 .. Len(c) - n : Tail(r)[i] = r[i + 1]
  BY <1>1, <1>2, <1>3, HeadTailProperties
<1>5. ASSUME n < Len(c)
      PROVE  Head(r) = Cell(c[n + 1]) /\ Tail(r) = Rest(c, crc, n + 1)
  <2>1. Head(r) = Cell(c[n + 1])
    BY <1>1, <1>2, <1>4, <1>5
  <2>2. ASSUME NEW i \in 1 .. Len(c) - n
        PROVE  Tail(r)[i] = IF i <= Len(c) - (n + 1) THEN Cell(c[(n + 1) + i])
                            ELSE [byte |-> crc, fits |-> c]
    <3>1. i + 1 \in 1 .. Len(c) - n + 1 /\ n + (i + 1) = (n + 1) + i
          /\ (i + 1 <= Len(c) - n <=> i <= Len(c) - (n + 1))
      BY <1>1
    <3> QED
      BY <1>2, <1>4, <3>1
  <2>3. Tail(r) = [i \in 1 .. Len(c) - n |-> Tail(r)[i]]
    <3> DEFINE w == Tail(r)
    <3>1. w \in Seq(S) /\ Len(w) = Len(c) - n
      BY <1>4
    <3> HIDE DEF w
    <3>2. w = [i \in 1 .. Len(w) |-> w[i]]
      BY <3>1
    <3> QED
      BY <3>1, <3>2 DEF w
  <2>4. Len(c) - (n + 1) + 1 = Len(c) - n
    BY <1>1
  <2> QED
    BY <2>1, <2>2, <2>3, <2>4 DEF Rest
<1>6. ASSUME n = Len(c)
      PROVE  Head(r) = [byte |-> crc, fits |-> c] /\ Tail(r) = << >>
  <2>1. Len(Tail(r)) = 0 /\ Len(c) - n + 1 = 1 /\ ~ (1 <= Len(c) - n)
    BY <1>1, <1>4, <1>6
  <2>2. Tail(r) = << >>
    BY <1>4, <2>1, EmptySeq
  <2>3. r[1] = [byte |-> crc, fits |-> c]
    BY <1>2, <2>1
  <2> QED
    BY <1>4, <2>2, <2>3
<1> QED
  BY <1>3, <1>5, <1>6 DEF r

\* The cells of a frame, by their places.
LEMMA CellsAre ==
  ASSUME NEW c, Framed(c), NEW crc
  PROVE  \E S : /\ Cells(c, crc) \in Seq(S) /\ Len(Cells(c, crc)) = Len(c) + 3
               /\ Cells(c, crc)[1] = Cell(MAGIC0) /\ Cells(c, crc)[2] = Cell(MAGIC1)
               /\ \A i \in 1 .. Len(c) + 1 :
                     Cells(c, crc)[i + 2] = IF i <= Len(c) THEN Cell(c[i])
                                            ELSE [byte |-> crc, fits |-> c]
<1> DEFINE S == {Cell(c[i]) : i \in 1 .. Len(c)}
                \cup {[byte |-> crc, fits |-> c], Cell(MAGIC0), Cell(MAGIC1)}
           start == <<Cell(MAGIC0), Cell(MAGIC1)>>
           body == [i \in DOMAIN c |-> Cell(c[i])]
           end == <<[byte |-> crc, fits |-> c]>>
           all == Cells(c, crc)
<1>1. Len(c) \in Nat /\ DOMAIN c = 1 .. Len(c)
  BY DEF Framed
<1>2. /\ start \in Seq(S) /\ Len(start) = 2 /\ start[1] = Cell(MAGIC0) /\ start[2] = Cell(MAGIC1)
      /\ body \in Seq(S) /\ Len(body) = Len(c) /\ \A i \in 1 .. Len(c) : body[i] = Cell(c[i])
      /\ end \in Seq(S) /\ Len(end) = 1 /\ end[1] = [byte |-> crc, fits |-> c]
  <2>1. \A i \in 1 .. Len(c) : Cell(c[i]) \in S
    OBVIOUS
  <2>2. Cell(MAGIC0) \in S /\ Cell(MAGIC1) \in S /\ [byte |-> crc, fits |-> c] \in S
    OBVIOUS
  <2> HIDE DEF S
  <2> QED
    BY <1>1, <2>1, <2>2
<1>3. all = start \o body \o end
  BY DEF Cells
<1> HIDE DEF S, start, body, end, all
<1>4. /\ start \o body \in Seq(S) /\ Len(start \o body) = 2 + Len(c)
      /\ \A i \in 1 .. 2 + Len(c) :
            (start \o body)[i] = IF i <= 2 THEN start[i] ELSE body[i - 2]
  <2>1. /\ start \o body \in Seq(S) /\ Len(start \o body) = Len(start) + Len(body)
        /\ \A i \in 1 .. Len(start) + Len(body) :
              (start \o body)[i] = IF i <= Len(start) THEN start[i] ELSE body[i - Len(start)]
    <3>1. start \in Seq(S) /\ body \in Seq(S)
      BY <1>2
    <3> QED
      BY <3>1, ConcatProperties
  <2> QED
    BY <1>1, <1>2, <2>1
<1>5. /\ all \in Seq(S) /\ Len(all) = Len(c) + 3
      /\ \A i \in 1 .. Len(c) + 3 :
            all[i] = IF i <= Len(c) + 2 THEN (start \o body)[i] ELSE end[i - (Len(c) + 2)]
  <2> DEFINE sb == start \o body
  <2>1. sb \in Seq(S) /\ Len(sb) = Len(c) + 2 /\ Len(c) + 2 \in Nat
    BY <1>1, <1>4
  <2> HIDE DEF sb
  <2>2. /\ sb \o end \in Seq(S) /\ Len(sb \o end) = Len(sb) + Len(end)
        /\ \A i \in 1 .. Len(sb) + Len(end) :
              (sb \o end)[i] = IF i <= Len(sb) THEN sb[i] ELSE end[i - Len(sb)]
    <3>1. end \in Seq(S)
      BY <1>2
    <3> QED
      BY <2>1, <3>1, ConcatProperties
  <2>3. Len(sb) + Len(end) = Len(c) + 3
    BY <1>1, <1>2, <2>1
  <2>4. /\ all \in Seq(S) /\ Len(all) = Len(c) + 3
        /\ \A i \in 1 .. Len(c) + 3 :
              all[i] = IF i <= Len(c) + 2 THEN sb[i] ELSE end[i - (Len(c) + 2)]
    <3>1. all = sb \o end
      BY <1>3 DEF sb
    <3>2. Len(sb) = Len(c) + 2
      BY <2>1
    <3> QED
      BY <2>2, <2>3, <3>1, <3>2
  <2> QED
    BY <2>4 DEF sb
<1>6. all[1] = Cell(MAGIC0) /\ all[2] = Cell(MAGIC1)
  BY <1>1, <1>2, <1>4, <1>5
<1>7. ASSUME NEW i \in 1 .. Len(c) + 1
      PROVE  all[i + 2] = IF i <= Len(c) THEN Cell(c[i]) ELSE [byte |-> crc, fits |-> c]
  <2>1. i + 2 \in 1 .. Len(c) + 3 /\ ~ (i + 2 <= 2) /\ (i + 2) - 2 = i
    BY <1>1
  <2>2. CASE i <= Len(c)
    <3>1. i + 2 \in 1 .. Len(c) + 2 /\ i \in 1 .. Len(c)
      BY <1>1, <2>2
    <3> QED
      BY <1>2, <1>4, <1>5, <2>1, <2>2, <3>1
  <2>3. CASE i = Len(c) + 1
    <3>1. (i + 2) - (Len(c) + 2) = 1 /\ ~ (i + 2 <= Len(c) + 2)
      BY <1>1, <2>3
    <3> QED
      BY <1>1, <1>2, <1>5, <2>1, <2>3, <3>1
  <2> QED
    BY <1>1, <2>2, <2>3
<1> QED
  BY <1>5, <1>6, <1>7 DEF all

LEMMA CellsFacts ==
  ASSUME NEW c, Framed(c), NEW crc
  PROVE  /\ Cells(c, crc) # << >> /\ Head(Cells(c, crc)) = Cell(MAGIC0)
         /\ Tail(Cells(c, crc)) # << >> /\ Head(Tail(Cells(c, crc))) = Cell(MAGIC1)
         /\ Tail(Tail(Cells(c, crc))) = Rest(c, crc, 0)
<1> DEFINE all == Cells(c, crc)
<1>1. Len(c) \in Nat
  BY DEF Framed
<1>5. PICK S : /\ all \in Seq(S) /\ Len(all) = Len(c) + 3
               /\ all[1] = Cell(MAGIC0) /\ all[2] = Cell(MAGIC1)
               /\ \A i \in 1 .. Len(c) + 1 :
                     all[i + 2] = IF i <= Len(c) THEN Cell(c[i]) ELSE [byte |-> crc, fits |-> c]
  BY CellsAre
<1> HIDE DEF all
<1> DEFINE t == Tail(all)
<1>8. /\ all # << >> /\ Head(all) = Cell(MAGIC0)
      /\ t \in Seq(S) /\ Len(t) = Len(c) + 2 /\ \A i \in 1 .. Len(c) + 2 : t[i] = all[i + 1]
  BY <1>1, <1>5, HeadTailProperties
<1> HIDE DEF t
<1> DEFINE u == Tail(t)
<1>9. /\ t # << >> /\ Head(t) = Cell(MAGIC1)
      /\ u \in Seq(S) /\ Len(u) = Len(c) + 1 /\ \A i \in 1 .. Len(c) + 1 : u[i] = t[i + 1]
  BY <1>1, <1>5, <1>8, HeadTailProperties
<1> HIDE DEF u
<1>10. u = Rest(c, crc, 0)
  <2>1. ASSUME NEW i \in 1 .. Len(c) + 1
        PROVE  u[i] = IF i <= Len(c) THEN Cell(c[i]) ELSE [byte |-> crc, fits |-> c]
    <3>1. i + 1 \in 1 .. Len(c) + 2 /\ (i + 1) + 1 = i + 2
      BY <1>1
    <3> QED
      BY <1>5, <1>8, <1>9, <3>1
  <2>2. u = [i \in 1 .. Len(c) + 1 |-> u[i]]
    BY <1>9
  <2>3. Len(c) - 0 + 1 = Len(c) + 1 /\ Len(c) - 0 = Len(c)
    BY <1>1
  <2>4. \A i \in 1 .. Len(c) + 1 : c[0 + i] = c[i]
    BY <1>1
  <2> QED
    BY <2>1, <2>2, <2>3, <2>4 DEF Rest
<1> QED
  BY <1>8, <1>9, <1>10 DEF all, t, u

LEMMA ContentFramed ==
  ASSUME NEW s \in Nat, NEW payload \in Payloads
  PROVE  Framed(Content(s, payload)) /\ Content(s, payload)[1] = s
<1>1. payload \in Seq(Nat) /\ Len(payload) \in Nat
  BY ViewerAssumption DEF Byte
<1>2. <<s, Len(payload)>> \in Seq(Nat) /\ Len(<<s, Len(payload)>>) = 2
  BY <1>1
<1> DEFINE h == <<s, Len(payload)>>
<1>3. h[1] = s /\ h[2] = Len(payload)
  OBVIOUS
<1> HIDE DEF h
<1>4. /\ h \o payload \in Seq(Nat) /\ Len(h \o payload) = 2 + Len(payload)
      /\ \A i \in 1 .. 2 + Len(payload) :
            (h \o payload)[i] = IF i <= 2 THEN h[i] ELSE payload[i - 2]
  <2>1. h \in Seq(Nat) /\ Len(h) = 2
    BY <1>2 DEF h
  <2>2. /\ h \o payload \in Seq(Nat) /\ Len(h \o payload) = Len(h) + Len(payload)
        /\ \A i \in 1 .. Len(h) + Len(payload) :
              (h \o payload)[i] = IF i <= Len(h) THEN h[i] ELSE payload[i - Len(h)]
    BY <1>1, <2>1, ConcatProperties
  <2> QED
    BY <1>1, <2>1, <2>2
<1>5. (h \o payload)[1] = s /\ (h \o payload)[2] = Len(payload)
  BY <1>1, <1>3, <1>4
<1>6. Content(s, payload) = h \o payload
  BY DEF Content, h
<1> QED
  BY <1>1, <1>4, <1>5, <1>6 DEF Framed

\* A frame on the line is not over.
LEMMA AirIsBusy ==
  ASSUME NEW c, Framed(c), NEW crc, InAir(c, crc)
  PROVE  line # << >>
  BY CellsFacts, RestFacts DEF InAir

\* Reading a byte goes on with the frame, or ends it with its content in hand.
LEMMA ReadGoesOn ==
  ASSUME NEW c, Framed(c), NEW crc, InAir(c, crc), Read
  PROVE  \/ InAir(c, crc)' /\ UNCHANGED <<stats, received>>
         \/ Idle' /\ got = c /\ Frame([byte |-> crc, fits |-> c])
<1>0. MAGIC0 # -1 /\ MAGIC0 # MAGIC1 /\ Len(c) \in Nat /\ Len(c) >= 2 /\ Len(c) = 2 + c[2]
  BY ViewerAssumption DEF Framed, Byte
<1>1. CASE mode = "magic" /\ got = << >> /\ line = Cells(c, crc)
  <2>1. line' = Tail(Cells(c, crc)) /\ Sync(MAGIC0) /\ UNCHANGED <<got, stats, received>>
    BY <1>1, CellsFacts DEF Read, Cell
  <2>2. mode' = "magic" /\ prev' = MAGIC0
    BY <1>0, <1>1, <2>1 DEF Sync
  <2> QED
    BY <1>1, <2>1, <2>2 DEF InAir
<1>2. CASE mode = "magic" /\ prev = MAGIC0 /\ got = << >> /\ line = Tail(Cells(c, crc))
  <2>1. line' = Rest(c, crc, 0) /\ Sync(MAGIC1) /\ UNCHANGED <<got, stats, received>>
    BY <1>2, CellsFacts DEF Read, Cell
  <2>2. mode' = "header" /\ prev' = -1
    BY <1>2, <2>1 DEF Sync
  <2>3. got' = [i \in 1 .. 0 |-> c[i]]
    BY <1>2, <2>1
  <2>4. 0 \in 0 .. Len(c)
    BY <1>0
  <2> QED
    BY <2>1, <2>2, <2>3, <2>4 DEF InAir
<1>3. ASSUME NEW n \in 0 .. Len(c),
             mode = IF n < 2 THEN "header" ELSE IF n < Len(c) THEN "payload" ELSE "crc",
             prev = -1, got = [i \in 1 .. n |-> c[i]], line = Rest(c, crc, n)
      PROVE  \/ InAir(c, crc)' /\ UNCHANGED <<stats, received>>
             \/ Idle' /\ got = c /\ Frame([byte |-> crc, fits |-> c])
  <2>0. c = [i \in 1 .. Len(c) |-> c[i]] /\ \A i \in 1 .. Len(c) : c[i] \in Nat
    BY DEF Framed
  <2>1. CASE n < Len(c)
    <3>1. line' = Rest(c, crc, n + 1) /\ Head(line).byte = c[n + 1]
      BY <1>3, <2>1, RestFacts DEF Read, Cell
    <3>2. mode \in {"header", "payload"}
      BY <1>3, <2>1
    <3>3. Body(c[n + 1]) /\ UNCHANGED <<prev, stats, received>>
      BY <3>1, <3>2 DEF Read
    <3>4. /\ got' = [i \in 1 .. n + 1 |-> c[i]] /\ Len(got') = n + 1
          /\ n + 1 \in 0 .. Len(c)
      <4>1. got \in Seq(Nat) /\ Len(got) = n /\ c[n + 1] \in Nat
        <5>1. \A i \in 1 .. n : c[i] \in Nat
          BY <1>0, <2>0
        <5>2. n \in Nat /\ n + 1 \in 1 .. Len(c)
          BY <1>0, <2>1
        <5> QED
          BY <1>3, <2>0, <5>1, <5>2
      <4>2. /\ got' \in Seq(Nat) /\ Len(got') = n + 1
            /\ \A i \in 1 .. n : got'[i] = got[i] /\ got'[n + 1] = c[n + 1]
        BY <3>3, <4>1, AppendProperties DEF Body
      <4>3. \A i \in 1 .. n : got[i] = c[i]
        BY <1>3
      <4>4. got'[n + 1] = c[n + 1]
        BY <3>3, <4>1, AppendProperties DEF Body
      <4>5. \A i \in 1 .. n + 1 : got'[i] = c[i]
        BY <4>2, <4>3, <4>4
      <4>6. got' = [i \in 1 .. n + 1 |-> got'[i]]
        BY <4>2
      <4> QED
        BY <1>0, <2>1, <4>2, <4>5, <4>6
    <3>5. mode' = IF n + 1 < 2 THEN "header"
                  ELSE IF n + 1 < Len(c) THEN "payload" ELSE "crc"
      <4>1. n + 1 >= 2 => got'[2] = c[2]
        BY <3>4
      <4>2. mode' = IF n + 1 < 2 THEN "header"
                    ELSE IF n + 1 < 2 + got'[2] THEN "payload" ELSE "crc"
        BY <3>3, <3>4 DEF Body
      <4> QED
        BY <1>0, <4>1, <4>2
    <3> QED
      BY <1>3, <3>1, <3>3, <3>4, <3>5 DEF InAir
  <2>2. CASE n = Len(c)
    <3>1. mode = "crc" /\ got = c
      BY <1>0, <1>3, <2>0, <2>2
    <3>2. line' = << >> /\ Head(line) = [byte |-> crc, fits |-> c]
      BY <1>3, <2>2, RestFacts DEF Read
    <3>3. Frame(Head(line)) /\ Restart
      BY <3>1 DEF Read
    <3> QED
      BY <3>1, <3>2, <3>3 DEF Idle, Restart
  <2> QED
    BY <1>0, <2>1, <2>2
<1> QED
  BY <1>1, <1>2, <1>3 DEF InAir

-----------------------------------------------------------------------------
(* The statistics.                                                         *)

\* What update_seq_stats does with a number that is expected or beyond it, and with
\* one that came before.
LEMMA NewNumber ==
  ASSUME stats \in StatsType, NEW s \in Nat, s >= stats.expected,
         stats' = UpdateSeqStats(s)
  PROVE  /\ stats' \in StatsType /\ stats'.ok = stats.ok + 1 /\ stats'.crc_ng = stats.crc_ng
         /\ stats'.late = stats.late /\ stats'.dup = stats.dup /\ stats'.expected = s + 1
         /\ stats'.gap = IF stats.expected = -1 THEN stats.gap
                         ELSE stats.gap + (s - stats.expected)
<1> DEFINE e == stats.expected
           counted == [stats EXCEPT !.ok = @ + 1]
<1>1. /\ counted \in StatsType /\ counted.ok = stats.ok + 1 /\ counted.crc_ng = stats.crc_ng
      /\ counted.late = stats.late /\ counted.dup = stats.dup /\ counted.gap = stats.gap
      /\ counted.expected = e
  BY DEF StatsType
<1>2. e \in Nat \cup {-1}
  BY DEF StatsType
<1>3. stats' = IF e = -1 \/ s = e THEN [counted EXCEPT !.expected = s + 1]
               ELSE [counted EXCEPT !.gap = @ + s - e, !.expected = s + 1]
  BY <1>2 DEF UpdateSeqStats
<1> HIDE DEF counted, e
<1>4. CASE e = -1 \/ s = e
  <2>1. stats' = [counted EXCEPT !.expected = s + 1]
    BY <1>3, <1>4
  <2>2. /\ stats' \in StatsType /\ stats'.ok = counted.ok /\ stats'.crc_ng = counted.crc_ng
        /\ stats'.late = counted.late /\ stats'.dup = counted.dup
        /\ stats'.gap = counted.gap /\ stats'.expected = s + 1
    BY <1>1, <2>1 DEF StatsType
  <2>3. stats.gap \in Nat
    BY DEF StatsType
  <2> QED
    BY <1>1, <1>2, <1>4, <2>2, <2>3 DEF e
<1>5. CASE ~ (e = -1 \/ s = e)
  <2>1. stats' = [counted EXCEPT !.gap = @ + s - e, !.expected = s + 1]
    BY <1>3, <1>5
  <2>2. counted.gap + s - e \in Nat /\ counted.gap + s - e = counted.gap + (s - e)
    <3>1. counted.gap \in Nat /\ e \in Nat /\ s >= e
      BY <1>1, <1>2, <1>5 DEF StatsType, e
    <3> QED
      BY <3>1
  <2>3. /\ stats' \in StatsType /\ stats'.ok = counted.ok /\ stats'.crc_ng = counted.crc_ng
        /\ stats'.late = counted.late /\ stats'.dup = counted.dup
        /\ stats'.gap = counted.gap + s - e /\ stats'.expected = s + 1
    <3> DEFINE x == counted.gap + s - e
    <3>1. stats' = [counted EXCEPT !.gap = x, !.expected = s + 1] /\ x \in Nat
      BY <2>1, <2>2
    <3> HIDE DEF x
    <3>2. /\ stats' \in StatsType /\ stats'.ok = counted.ok /\ stats'.crc_ng = counted.crc_ng
          /\ stats'.late = counted.late /\ stats'.dup = counted.dup
          /\ stats'.gap = x /\ stats'.expected = s + 1
      <4>1. PICK first : first = [counted EXCEPT !.gap = x]
        OBVIOUS
      <4>2. /\ first \in StatsType /\ first.ok = counted.ok /\ first.crc_ng = counted.crc_ng
            /\ first.late = counted.late /\ first.dup = counted.dup
            /\ first.gap = x
        BY <1>1, <3>1, <4>1 DEF StatsType
      <4>3. stats' = [first EXCEPT !.expected = s + 1]
        BY <1>1, <3>1, <4>1 DEF StatsType
      <4> QED
        BY <4>2, <4>3 DEF StatsType
    <3> QED
      BY <3>2 DEF x
  <2> QED
    BY <1>1, <1>5, <2>2, <2>3 DEF e
<1> QED
  BY <1>4, <1>5

LEMMA OldNumber ==
  ASSUME stats \in StatsType, NEW s \in Nat, s < stats.expected,
         stats' = UpdateSeqStats(s)
  PROVE  /\ stats' \in StatsType /\ stats'.ok = stats.ok + 1 /\ stats'.crc_ng = stats.crc_ng
         /\ stats'.late + stats'.dup = stats.late + stats.dup + 1
         /\ stats'.gap = stats.gap /\ stats'.expected = stats.expected
<1> DEFINE e == stats.expected
           counted == [stats EXCEPT !.ok = @ + 1]
<1>1. /\ counted \in StatsType /\ counted.ok = stats.ok + 1 /\ counted.crc_ng = stats.crc_ng
      /\ counted.late = stats.late /\ counted.dup = stats.dup /\ counted.gap = stats.gap
      /\ counted.expected = e
  BY DEF StatsType
<1>2. e \in Nat /\ s < e /\ e # -1 /\ s # e /\ ~ (s > e)
  BY DEF StatsType
<1>3. stats' = IF s = e - 1 THEN [counted EXCEPT !.dup = @ + 1]
               ELSE [counted EXCEPT !.late = @ + 1]
  BY <1>2 DEF UpdateSeqStats
<1>4. stats.late \in Nat /\ stats.dup \in Nat
  BY DEF StatsType
<1> HIDE DEF counted, e
<1>5. CASE s = e - 1
  <2>1. stats' = [counted EXCEPT !.dup = @ + 1]
    BY <1>3, <1>5
  <2>2. /\ stats' \in StatsType /\ stats'.ok = counted.ok /\ stats'.crc_ng = counted.crc_ng
        /\ stats'.late = counted.late /\ stats'.dup = counted.dup + 1
        /\ stats'.gap = counted.gap /\ stats'.expected = counted.expected
    BY <1>1, <2>1 DEF StatsType
  <2> QED
    BY <1>1, <1>4, <2>2 DEF e
<1>6. CASE s # e - 1
  <2>1. stats' = [counted EXCEPT !.late = @ + 1]
    BY <1>3, <1>6
  <2>2. /\ stats' \in StatsType /\ stats'.ok = counted.ok /\ stats'.crc_ng = counted.crc_ng
        /\ stats'.late = counted.late + 1 /\ stats'.dup = counted.dup
        /\ stats'.gap = counted.gap /\ stats'.expected = counted.expected
    BY <1>1, <2>1 DEF StatsType
  <2> QED
    BY <1>1, <1>4, <2>2 DEF e
<1> QED
  BY <1>5, <1>6

\* Every frame found is counted, whatever its number is.
LEMMA CountsOn ==
  ASSUME Counts(1), NEW s \in Nat, stats' = UpdateSeqStats(s), sent' = sent, sent \in Nat
  PROVE  Counts(0)'
<1>1. stats \in StatsType /\ stats.expected \in Nat \cup {-1} /\ stats.ok \in Nat
  BY DEF Counts, StatsType
<1>2. stats' \in StatsType /\ stats'.ok = stats.ok + 1 /\ stats'.crc_ng = stats.crc_ng
  <2>1. CASE s >= stats.expected
    BY <1>1, <2>1, NewNumber
  <2>2. CASE s < stats.expected
    BY <1>1, <2>2, OldNumber
  <2> QED
    BY <1>1, <2>1, <2>2
<1> QED
  BY <1>1, <1>2 DEF Counts

\* A number that was received before, or overtaken, is counted as late or twice.
LEMMA BooksOfOld ==
  ASSUME DeviceInv, NEW a \in Nat, Numbers(a), Books(a), stats \in StatsType,
         a \in received \cup overtaken,
         stats' = UpdateSeqStats(a), received' = received \cup {a}, UNCHANGED device
  PROVE  Numbers(-1)' /\ Books(-1)'
<1>1. /\ dumped \in Nat /\ UNCHANGED <<seq, pending, old, stored, overtaken, frames, dumped>>
      /\ received \subseteq 0 .. seq - 1 /\ a \in 0 .. seq - 1 /\ seq \in Nat
  BY DEF DeviceInv, Numbers, device, numbers
<1>2. received # {} /\ a < stats.expected
  <2>1. CASE a \in received
    BY <2>1 DEF Books
  <2>2. CASE a \notin received
    <3>1. PICK r \in received : r > a
      BY <2>2 DEF Numbers
    <3>2. r < stats.expected /\ r \in Int /\ stats.expected \in Int
      BY <1>1 DEF Books, StatsType
    <3> QED
      BY <3>1, <3>2
  <2> QED
    BY <2>1, <2>2
<1>3. /\ stats' \in StatsType /\ stats'.late + stats'.dup = stats.late + stats.dup + 1
      /\ stats'.gap = stats.gap /\ stats'.expected = stats.expected
  BY <1>2, OldNumber
<1>4. InOrder' = InOrder /\ Missed' = Missed
  BY <1>1 DEF InOrder, Missed, Numbers
<1>5. Numbers(-1)'
  <2>1. (received' \cup {-1}) \ {-1} = (received \cup {a}) \ {-1} /\ -1 \notin pending
    BY <1>1 DEF Numbers
  <2> QED
    BY <1>1, <2>1 DEF Numbers
<1>6. -1 \notin received' \cup overtaken'
  BY <1>1 DEF Numbers
<1>7. stats'.late + stats'.dup = dumped + Cardinality(overtaken)
  <2>1. IsFiniteSet(overtaken) /\ Cardinality(overtaken) \in Nat
    BY FS_CardinalityType DEF Numbers
  <2> QED
    BY <1>1, <1>3, <2>1 DEF Books
<1>8. \A r \in received' : r < stats'.expected
  BY <1>2, <1>3 DEF Books
<1>9. Gaps(Missed, InOrder, stats.expected)' = Gaps(Missed, InOrder, stats.expected)
  BY <1>3, <1>4 DEF Gaps
<1>10. stats'.late + stats'.dup \in Nat
  BY <1>3 DEF StatsType
<1>11. Books(-1)'
  BY <1>1, <1>2, <1>3, <1>4, <1>6, <1>7, <1>8, <1>9, <1>10 DEF Books
<1> QED
  BY <1>5, <1>11

\* A new one moves the expectation past it; all between are numbers of events that
\* have not come.
LEMMA BooksOfNew ==
  ASSUME DeviceInv, NEW a \in Nat, Numbers(a), Books(a), stats \in StatsType,
         a \notin received \cup overtaken,
         stats' = UpdateSeqStats(a), received' = received \cup {a}, UNCHANGED device
  PROVE  Numbers(-1)' /\ Books(-1)'
<1> DEFINE e == stats.expected
           before == Gaps(Missed, InOrder, e)
           after == Gaps(Missed, InOrder \cup {a}, a + 1)
<1>1. /\ dumped \in Nat /\ seq \in Nat /\ a \in 0 .. seq - 1
      /\ e \in Nat \cup {-1} /\ received \subseteq 0 .. seq - 1
      /\ Missed \subseteq 0 .. seq - 1 /\ IsFiniteSet(Missed) /\ a \notin Missed
      /\ UNCHANGED <<seq, pending, old, stored, overtaken, frames, dumped>>
      /\ \A r \in received : r < a
  <2>1. IsFiniteSet(Missed)
    BY FS_Union DEF Numbers, Missed
  <2> QED
    BY <2>1 DEF DeviceInv, Numbers, device, numbers, StatsType, Missed
<1>2. received # {} => e - 1 \in InOrder /\ e <= a
  BY <1>1 DEF Books, InOrder
<1>3. e <= a /\ (received = {} <=> e = -1)
  <2>1. CASE received = {}
    BY <1>1, <2>1 DEF Books
  <2>2. CASE received # {}
    BY <1>1, <1>2, <2>2 DEF InOrder
  <2> QED
    BY <2>1, <2>2
<1>4. /\ stats' \in StatsType
      /\ stats'.late = stats.late /\ stats'.dup = stats.dup /\ stats'.expected = a + 1
      /\ stats'.gap = IF e = -1 THEN stats.gap ELSE stats.gap + (a - e)
  BY <1>1, <1>3, NewNumber
<1>5. Numbers(-1)'
  <2>1. (received' \cup {-1}) \ {-1} = (received \cup {a}) \ {-1} /\ -1 \notin pending
    BY <1>1 DEF Numbers
  <2> QED
    BY <1>1, <2>1 DEF Numbers
<1>6. Cardinality(after) = IF e = -1 THEN Cardinality(before) ELSE Cardinality(before) + (a - e)
  <2>1. CASE e = -1
    <3>1. InOrder = {} /\ InOrder \cup {a} = {a} /\ Missed \subseteq Int
      <4>1. received = {}
        BY <1>3, <2>1
      <4>2. Missed \subseteq Int
        BY <1>1
      <4> QED
        BY <4>1, <4>2 DEF InOrder
    <3>2. after = {}
      <4>1. ASSUME NEW k \in after PROVE FALSE
        <5>1. k \in Int /\ k < a + 1 /\ a < k
          BY <3>1 DEF Gaps
        <5> QED
          BY <5>1
      <4> HIDE DEF after
      <4> QED
        BY <4>1
    <3>3. before = {}
      BY <3>1 DEF Gaps
    <3> HIDE DEF after, before
    <3> QED
      BY <2>1, <3>2, <3>3
  <2>2. CASE e # -1
    <3> DEFINE between == e .. a - 1
    <3>1. between \subseteq Missed
      <4>1. ASSUME NEW k \in between PROVE k \in Missed
        <5>1. k \in 0 .. seq - 1 /\ k # a /\ k \notin received
          BY <1>1, <2>2 DEF Books
        <5>2. 0 .. seq - 1 \subseteq pending \cup received \cup {a}
          BY DEF Numbers
        <5> QED
          BY <5>1, <5>2 DEF Missed
      <4> QED
        BY <4>1
    <3>2. after = before \cup between
      <4>1. e - 1 \in InOrder
        BY <1>2, <1>3, <2>2
      <4>2. ASSUME NEW k \in Missed PROVE k \in after <=> k \in before \/ k \in between
        <5>1. k \in Nat /\ k # a /\ e \in Nat /\ a \in Nat
          BY <1>1, <2>2
        <5>2. \A r \in InOrder : r \in Nat /\ r < e
          BY <1>1 DEF Books, InOrder
        <5>3. CASE k < e
          BY <1>1, <1>3, <5>1, <5>2, <5>3 DEF Gaps
        <5>4. CASE k >= e
          BY <1>1, <4>1, <5>1, <5>2, <5>4 DEF Gaps
        <5> QED
          BY <5>1, <5>3, <5>4
      <4>3. after \subseteq Missed /\ before \subseteq Missed
        BY DEF Gaps
      <4> HIDE DEF after, before, between
      <4> QED
        BY <3>1, <4>2, <4>3
    <3>3. before \cap between = {}
      BY <1>1, <2>2 DEF Gaps
    <3>4. IsFiniteSet(before) /\ IsFiniteSet(between)
      <4>1. before \subseteq Missed
        BY DEF Gaps
      <4> HIDE DEF before, between
      <4> QED
        BY <1>1, <3>1, <4>1, FS_Subset
    <3>5. Cardinality(between) = a - e
      <4>1. e \in Int /\ a - 1 \in Int
        BY <1>1, <2>2
      <4>2. Cardinality(between) = IF e > a - 1 THEN 0 ELSE (a - 1) - e + 1
        BY <4>1, FS_Interval
      <4> HIDE DEF between
      <4> QED
        BY <1>1, <1>3, <2>2, <4>2
    <3> HIDE DEF before, after, between
    <3>6. Cardinality(after)
            = Cardinality(before) + Cardinality(between) - Cardinality(before \cap between)
      BY <3>2, <3>4, FS_Union
    <3>7. Cardinality(before) \in Nat /\ Cardinality(before \cap between) = 0
      BY <3>3, <3>4, FS_CardinalityType, FS_EmptySet
    <3> QED
      BY <1>1, <1>3, <2>2, <3>5, <3>6, <3>7
  <2> QED
    BY <2>1, <2>2
<1>7. InOrder' = InOrder \cup {a} /\ Missed' = Missed
  BY <1>1 DEF InOrder, Missed
<1>8. Gaps(Missed, InOrder, stats.expected)' = after
  BY <1>4, <1>7 DEF Gaps
<1>9. stats.gap = Cardinality(before) /\ stats'.late + stats'.dup \in Nat
      /\ stats'.late + stats'.dup = dumped + Cardinality(overtaken)
  <2>1. IsFiniteSet(overtaken) /\ Cardinality(overtaken) \in Nat
    BY FS_CardinalityType DEF Numbers
  <2>2. stats'.late + stats'.dup \in Nat
    BY <1>4 DEF StatsType
  <2> QED
    BY <1>1, <1>4, <2>1, <2>2 DEF Books
<1>10. /\ -1 \notin received' \cup overtaken' /\ received' # {} /\ stats'.expected - 1 \in InOrder'
       /\ \A r \in received' : r < stats'.expected
  <2>1. -1 \notin overtaken
    BY DEF Numbers
  <2>2. \A r \in received \cup {a} : r < a + 1
    BY <1>1
  <2> QED
    BY <1>1, <1>4, <1>7, <2>1, <2>2
<1> HIDE DEF after, before, e
<1>11. stats'.gap = Cardinality(Gaps(Missed, InOrder, stats.expected)')
  BY <1>4, <1>6, <1>8, <1>9
<1>12. Books(-1)'
  BY <1>1, <1>9, <1>10, <1>11 DEF Books
<1> QED
  BY <1>5, <1>12

-----------------------------------------------------------------------------
(* The steps of the firmware and of the viewer.                            *)

\* The firmware gives a number to an event.
LEMMA TakeKeepsBooks ==
  ASSUME DeviceInv, NEW a, Numbers(a), Books(a), stats \in StatsType, TakeNumber
  PROVE  Numbers(a)' /\ Books(a)'
<1>1. /\ seq \in Nat /\ IsFiniteSet(pending) /\ a \in Int
      /\ pending \subseteq 0 .. seq - 1 /\ received \subseteq 0 .. seq - 1 /\ a \in -1 .. seq - 1
  BY DEF DeviceInv, Numbers
<1>2. /\ seq' = seq + 1 /\ pending' = pending \cup {seq}
      /\ UNCHANGED <<old, stored, overtaken, frames, dumped, stats, received>>
  BY DEF TakeNumber, viewer
<1>3. seq \notin pending /\ seq \notin received /\ seq # a
  BY <1>1
<1>4. IsFiniteSet(pending')
  BY <1>1, <1>2, FS_AddElement
<1>5. Numbers(a)'
  <2>1. 0 .. seq' - 1 \subseteq pending' \cup received' \cup {a}
    BY <1>1, <1>2 DEF Numbers
  <2>2. received' \subseteq 0 .. seq' - 1 /\ pending' \subseteq 0 .. seq' - 1 /\ a \in -1 .. seq' - 1
    BY <1>1, <1>2
  <2>3. a \notin pending' /\ received' \cap pending' = {}
    BY <1>2, <1>3 DEF Numbers
  <2> QED
    BY <1>2, <1>4, <2>1, <2>2, <2>3 DEF Numbers
<1>6. Gaps(Missed, InOrder, stats.expected)' = Gaps(Missed, InOrder, stats.expected)
  <2>1. ~ (seq < stats.expected) \/ InOrder = {}
    BY <1>1 DEF Books, StatsType, InOrder
  <2>2. Missed' = Missed \cup {seq} /\ InOrder' = InOrder
    BY <1>2 DEF Missed, InOrder
  <2> QED
    BY <1>2, <2>1, <2>2 DEF Gaps
<1>7. Books(a)'
  BY <1>2, <1>6 DEF Books, InOrder
<1> QED
  BY <1>5, <1>7

\* An event leaves the firmware, in order or overtaken.
LEMMA LiveBooks ==
  ASSUME DeviceInv, Numbers(-1), Books(-1), stats \in StatsType,
         NEW a \in pending, NEW payload \in Payloads, NEW crc \in CrcBytes,
         SendLive(a, payload, crc)
  PROVE  Numbers(a)' /\ Books(a)'
<1> DEFINE c == Content(a, payload)
<1>1. /\ a \in Nat /\ seq \in Nat /\ a \in 0 .. seq - 1 /\ IsFiniteSet(pending)
      /\ IsFiniteSet(overtaken) /\ pending \subseteq 0 .. seq - 1 /\ received \subseteq 0 .. seq - 1
      /\ a \notin received /\ -1 \notin received /\ old = {} /\ a # -1
      /\ overtaken \subseteq received /\ a \notin overtaken /\ dumped \in Nat
      /\ frames = stored
  BY DEF DeviceInv, Numbers
<1>2. c[1] = a
  BY <1>1, ContentFramed
<1> HIDE DEF c
<1>3. /\ pending' = pending \ {a} /\ stored' = stored \cup {c} /\ frames' = frames \cup {c}
      /\ UNCHANGED <<seq, old, dumped, stats, received>>
      /\ overtaken' = IF \E content \in stored : content[1] > a
                      THEN overtaken \cup {a} ELSE overtaken
  BY <1>1 DEF SendLive, OnLine, viewer, c
<1>4. {d[1] : d \in stored} = received
  BY <1>1 DEF Numbers
<1>5. \/ overtaken' = overtaken \cup {a} /\ \E r \in received : r > a
      \/ overtaken' = overtaken /\ \A r \in received : r < a
  <2>1. CASE \E r \in received : r > a
    BY <1>3, <1>4, <2>1
  <2>2. CASE ~ (\E r \in received : r > a)
    <3>1. \A r \in received : r \in Int /\ r # a
      BY <1>1
    <3>2. ~ (\E content \in stored : content[1] > a)
      BY <1>4, <2>2
    <3> QED
      BY <1>1, <1>3, <2>2, <3>1, <3>2
  <2> QED
    BY <2>1, <2>2
<1>6. IsFiniteSet(pending') /\ IsFiniteSet(overtaken')
  BY <1>1, <1>3, <1>5, FS_Subset, FS_AddElement
<1>7. Numbers(a)'
  <2>1. 0 .. seq' - 1 \subseteq pending' \cup received' \cup {a}
    BY <1>1, <1>3 DEF Numbers
  <2>2. {d[1] : d \in stored'} = received \cup {a}
    BY <1>2, <1>3, <1>4
  <2>3. (received' \cup {a}) \ {-1} = received \cup {a}
    BY <1>1, <1>3
  <2>4. received' \cap pending' = {} /\ pending' \subseteq 0 .. seq' - 1
    BY <1>1, <1>3 DEF Numbers
  <2>5. overtaken' \subseteq received \cup {a}
    BY <1>1, <1>5
  <2>6. IF a \in overtaken' THEN \E r \in received' : r > a ELSE \A r \in received' : r < a
    BY <1>1, <1>3, <1>5
  <2>7. /\ old' = {} /\ frames' = stored' /\ received' \subseteq 0 .. seq' - 1
        /\ a \in -1 .. seq' - 1 /\ a \notin pending'
    BY <1>1, <1>3
  <2> QED
    BY <1>6, <2>1, <2>2, <2>3, <2>4, <2>5, <2>6, <2>7 DEF Numbers
<1>8. InOrder' = InOrder
  BY <1>1, <1>3, <1>5 DEF InOrder
<1>9. Gaps(Missed, InOrder, stats.expected)' = Gaps(Missed, InOrder, stats.expected)
  <2>1. CASE overtaken' = overtaken \cup {a}
    <3>1. Missed' = Missed
      BY <1>3, <2>1 DEF Missed
    <3> QED
      BY <1>3, <1>8, <3>1 DEF Gaps
  <2>2. CASE overtaken' = overtaken /\ \A r \in received : r < a
    <3>1. Missed' = Missed \ {a}
      BY <1>1, <1>3, <2>2 DEF Missed
    <3>2. ~ (a < stats.expected) \/ InOrder = {}
      <4>1. CASE received = {}
        BY <4>1 DEF InOrder
      <4>2. CASE received # {}
        <5>1. stats.expected - 1 \in received /\ stats.expected \in Int
          BY <4>2 DEF Books, InOrder, StatsType
        <5> QED
          BY <1>1, <2>2, <5>1
      <4> QED
        BY <4>1, <4>2
    <3> QED
      BY <1>3, <1>8, <3>1, <3>2 DEF Gaps
  <2> QED
    BY <1>5, <2>1, <2>2
<1>10. stats'.late + stats'.dup + (IF a \in received' \cup overtaken' THEN 1 ELSE 0)
         = dumped' + Cardinality(overtaken')
  <2>1. Cardinality(overtaken) \in Nat /\ Cardinality(overtaken \cup {a}) = Cardinality(overtaken) + 1
    BY <1>1, FS_CardinalityType, FS_AddElement
  <2>2. stats.late + stats.dup = dumped + Cardinality(overtaken) /\ stats.late + stats.dup \in Nat
    <3>1. -1 \notin received \cup overtaken
      BY <1>1
    <3> QED
      BY <1>1, <2>1, <3>1 DEF Books, StatsType
  <2>3. CASE overtaken' = overtaken \cup {a}
    BY <1>1, <1>3, <2>1, <2>2, <2>3
  <2>4. CASE overtaken' = overtaken
    BY <1>1, <1>3, <2>1, <2>2, <2>4
  <2> QED
    BY <1>5, <2>3, <2>4
<1>11. Books(a)'
  BY <1>3, <1>8, <1>9, <1>10 DEF Books
<1> QED
  BY <1>7, <1>11

LEMMA SendsLive ==
  ASSUME DeviceInv, Idle, Counts(0), InBooks(-1),
         NEW a \in pending \cup old, NEW payload \in Payloads, NEW crc \in CrcBytes,
         SendLive(a, payload, crc)
  PROVE  ViewerInv'
<1>1. PICK c : c = Content(a, payload)
  OBVIOUS
<1>2. a \in Nat /\ sent \in Nat
  BY DEF DeviceInv
<1>3. Framed(c) /\ c[1] = a
  BY <1>1, <1>2, ContentFramed
<1>4. /\ line' = Cells(c, crc) /\ stored' = stored \cup {c} /\ frames' = frames \cup {c}
      /\ sent' = sent + 1
      /\ UNCHANGED <<seq, dumped, restarted, mode, prev, got, stats, received>>
      /\ pending' \subseteq pending /\ old' \subseteq old
  BY <1>1 DEF SendLive, OnLine, viewer
<1>5. InAir(c, crc)'
  <2>1. mode' = "magic" /\ prev' = -1 /\ got' = << >>
    BY <1>4 DEF Idle
  <2> QED
    BY <1>4, <2>1 DEF InAir, Cells, Cell
<1>6. DeviceInv'
  BY <1>3, <1>4 DEF DeviceInv
<1>7. Counts(1)'
  BY <1>2, <1>4 DEF Counts, StatsType
<1>8. InBooks(a)'
  <2>1. SUFFICES ASSUME ~ restarted PROVE Numbers(a)' /\ Books(a)'
    BY <1>4 DEF InBooks
  <2>2. Numbers(-1) /\ Books(-1) /\ stats \in StatsType
    BY <2>1 DEF InBooks, Counts
  <2>3. a \in pending
    BY <2>2 DEF Numbers
  <2> QED
    BY <2>2, <2>3, LiveBooks
<1> QED
  BY <1>3, <1>4, <1>5, <1>6, <1>7, <1>8 DEF ViewerInv

LEMMA SendsStored ==
  ASSUME DeviceInv, Idle, Counts(0), InBooks(-1), NEW c \in stored, NEW crc \in CrcBytes,
         SendStored(c, crc)
  PROVE  ViewerInv'
<1>1. /\ line' = Cells(c, crc) /\ dumped' = dumped + 1 /\ sent' = sent + 1
      /\ frames' = frames \cup {c}
      /\ UNCHANGED <<seq, pending, old, stored, overtaken, restarted>>
      /\ UNCHANGED <<mode, prev, got, stats, received>>
  BY DEF SendStored, OnLine, viewer, numbers
<1>2. frames' = frames /\ c \in frames
  BY <1>1 DEF DeviceInv
<1>3. InAir(c, crc)'
  <2>1. mode' = "magic" /\ prev' = -1 /\ got' = << >>
    BY <1>1 DEF Idle
  <2> QED
    BY <1>1, <2>1 DEF InAir, Cells, Cell
<1>4. DeviceInv'
  BY <1>1, <1>2 DEF DeviceInv
<1>5. Counts(1)'
  BY <1>1 DEF Counts, StatsType, DeviceInv
<1>6. PICK a : a = c[1]
  OBVIOUS
<1>7. InBooks(a)'
  <2>1. SUFFICES ASSUME ~ restarted PROVE Numbers(a)' /\ Books(a)'
    BY <1>1 DEF InBooks
  <2>2. Numbers(-1) /\ Books(-1) /\ stats \in StatsType
    BY <2>1 DEF InBooks, Counts
  <2>3. a \in received /\ a # -1 /\ -1 \notin received
    BY <1>6, <2>2 DEF Numbers
  <2>4. Numbers(a)'
    <3>1. (received \cup {a}) \ {-1} = (received \cup {-1}) \ {-1} /\ a \in 0 .. seq - 1
          /\ a \notin pending /\ 0 .. seq - 1 \subseteq pending \cup received \cup {a}
      BY <2>2, <2>3 DEF Numbers, DeviceInv
    <3> QED
      BY <1>1, <1>2, <2>2, <2>3, <3>1 DEF Numbers
  <2>5. Gaps(Missed, InOrder, stats.expected)' = Gaps(Missed, InOrder, stats.expected)
    BY <1>1 DEF Gaps, Missed, InOrder
  <2>6. stats'.late + stats'.dup + (IF a \in received' \cup overtaken' THEN 1 ELSE 0)
          = dumped' + Cardinality(overtaken')
    <3>1. -1 \notin received \cup overtaken
      BY <2>2, <2>3 DEF Numbers
    <3>2. Cardinality(overtaken) \in Nat
      BY <2>2, FS_CardinalityType DEF Numbers
    <3>3. stats.late + stats.dup = dumped + Cardinality(overtaken) /\ stats.late + stats.dup \in Nat
      BY <2>2, <3>1, <3>2 DEF Books, StatsType, DeviceInv
    <3>4. a \in received' \cup overtaken' /\ dumped \in Nat
      BY <1>1, <2>3 DEF DeviceInv
    <3> QED
      BY <1>1, <3>2, <3>3, <3>4
  <2>7. Books(a)'
    BY <1>1, <2>2, <2>5, <2>6 DEF Books, InOrder
  <2> QED
    BY <2>4, <2>7
<1> QED
  BY <1>2, <1>3, <1>4, <1>5, <1>6, <1>7 DEF ViewerInv

LEMMA ReadsOn ==
  ASSUME DeviceInv, NEW c \in frames, NEW crc \in CrcBytes,
         InAir(c, crc), Counts(1), InBooks(c[1]), Read
  PROVE  ViewerInv'
<1>1. Framed(c) /\ c[1] \in Nat
  BY DEF DeviceInv, Framed
<1>2. /\ UNCHANGED <<seq, pending, old, stored, overtaken, restarted, frames, sent, dumped>>
      /\ UNCHANGED device
  BY DEF Read, device, numbers
<1>3. DeviceInv'
  BY <1>2 DEF DeviceInv
<1>4. CASE InAir(c, crc)' /\ UNCHANGED <<stats, received>>
  <2>1. Counts(1)'
    BY <1>2, <1>4 DEF Counts
  <2>2. InBooks(c[1])'
    BY <1>2, <1>4 DEF InBooks, Numbers, Books, Gaps, Missed, InOrder
  <2> QED
    BY <1>2, <1>3, <1>4, <2>1, <2>2 DEF ViewerInv
<1>5. CASE Idle' /\ got = c /\ Frame([byte |-> crc, fits |-> c])
  <2>1. stats' = UpdateSeqStats(c[1]) /\ received' = received \cup {c[1]}
    BY <1>5 DEF Frame
  <2>2. Counts(0)'
    BY <1>1, <1>2, <2>1, CountsOn DEF DeviceInv
  <2>3. InBooks(-1)'
    <3>1. SUFFICES ASSUME ~ restarted PROVE Numbers(-1)' /\ Books(-1)'
      BY <1>2 DEF InBooks
    <3>2. Numbers(c[1]) /\ Books(c[1]) /\ stats \in StatsType
      BY <3>1 DEF InBooks, Counts
    <3> QED
      BY <1>1, <1>2, <2>1, <3>2, BooksOfOld, BooksOfNew
  <2> QED
    BY <1>3, <1>5, <2>2, <2>3 DEF ViewerInv
<1> QED
  BY <1>1, <1>4, <1>5, ReadGoesOn

\* Giving out numbers leaves the line and the viewer alone.
LEMMA NumbersKeepAir ==
  ASSUME ViewerInv, TakeNumber \/ RestartNumbers \/ UNCHANGED vars
  PROVE  ViewerInv'
<1>1. UNCHANGED <<line, mode, prev, got, stats, received, frames, sent, dumped>>
  BY DEF TakeNumber, RestartNumbers, vars, device, viewer
<1>2. DeviceInv /\ DeviceInv'
  <2>1. DeviceInv
    BY DEF ViewerInv
  <2>2. CASE TakeNumber
    BY <2>1, <2>2 DEF TakeNumber, DeviceInv
  <2>3. CASE RestartNumbers
    BY <2>1, <2>3 DEF RestartNumbers, DeviceInv
  <2>4. CASE UNCHANGED vars
    BY <2>1, <2>4 DEF vars, device, numbers, DeviceInv
  <2> QED
    BY <2>1, <2>2, <2>3, <2>4
<1>3. ASSUME NEW a, InBooks(a), stats \in StatsType PROVE InBooks(a)'
  <2>1. CASE TakeNumber
    BY <1>2, <1>3, <2>1, TakeKeepsBooks DEF InBooks, TakeNumber
  <2>2. CASE RestartNumbers
    BY <2>2 DEF InBooks, RestartNumbers
  <2>3. CASE UNCHANGED vars
    BY <1>3, <2>3 DEF InBooks, Numbers, Books, Gaps, Missed, InOrder, vars, device, numbers, viewer
  <2> QED
    BY <2>1, <2>2, <2>3
<1>4. \A k : Counts(k) => Counts(k)' /\ stats \in StatsType
  BY <1>1 DEF Counts
<1>5. CASE Idle /\ Counts(0) /\ InBooks(-1)
  <2>1. Idle'
    BY <1>1, <1>5 DEF Idle
  <2> QED
    BY <1>2, <1>3, <1>4, <1>5, <2>1 DEF ViewerInv
<1>6. ASSUME NEW c \in frames, NEW crc \in CrcBytes, InAir(c, crc), Counts(1), InBooks(c[1])
      PROVE  ViewerInv'
  <2>1. InAir(c, crc)' /\ c \in frames'
    BY <1>1, <1>6 DEF InAir
  <2> QED
    BY <1>2, <1>3, <1>4, <1>6, <2>1 DEF ViewerInv
<1> QED
  BY <1>5, <1>6 DEF ViewerInv

LEMMA StatsStep == StatsInv /\ [Next]_vars => StatsInv'
<1> SUFFICES ASSUME StatsInv, [Next]_vars PROVE StatsInv'
  OBVIOUS
<1>1. damaged' = damaged \/ damaged' = damaged + 1
  BY DEF Next, SendLive, SendStored, TakeNumber, RestartNumbers, Damage, Read, ReadTimeout, vars
<1>2. damaged \in Nat /\ damaged' \in Nat
  BY <1>1 DEF StatsInv
<1>3. ASSUME damaged' = 0 PROVE ViewerInv'
  <2>0. damaged = 0 /\ ViewerInv /\ DeviceInv
    BY <1>1, <1>2, <1>3 DEF StatsInv, ViewerInv
  <2>1. line = << >> => Idle /\ Counts(0) /\ InBooks(-1)
    <3>1. ASSUME NEW c \in frames, NEW crc \in CrcBytes, InAir(c, crc)
          PROVE  line # << >>
      BY <2>0, <3>1, AirIsBusy DEF DeviceInv
    <3> QED
      BY <2>0, <3>1 DEF ViewerInv
  <2>2. ASSUME NEW n \in pending \cup old, NEW payload \in Payloads, NEW crc \in CrcBytes,
               SendLive(n, payload, crc)
        PROVE  ViewerInv'
    BY <2>0, <2>1, <2>2, SendsLive DEF SendLive, OnLine
  <2>3. ASSUME NEW c \in stored, NEW crc \in CrcBytes, SendStored(c, crc)
        PROVE  ViewerInv'
    BY <2>0, <2>1, <2>3, SendsStored DEF SendStored, OnLine
  <2>4. CASE TakeNumber \/ RestartNumbers \/ UNCHANGED vars
    BY <2>0, <2>4, NumbersKeepAir
  <2>5. ~ Damage
    BY <1>2, <1>3, <2>0 DEF Damage
  <2>6. CASE Read
    <3>1. line # << >>
      BY <2>6 DEF Read
    <3>2. PICK c \in frames, crc \in CrcBytes : InAir(c, crc) /\ Counts(1) /\ InBooks(c[1])
      BY <2>0, <3>1 DEF ViewerInv, Idle
    <3> QED
      BY <2>0, <2>6, <3>2, ReadsOn
  <2>7. ~ ReadTimeout
    BY <2>1 DEF ReadTimeout, Idle
  <2> QED
    BY <2>2, <2>3, <2>4, <2>5, <2>6, <2>7 DEF Next
<1> QED
  BY <1>2, <1>3 DEF StatsInv

\* On a line that damages nothing the viewer finds every frame, whatever bytes it
\* holds and in whatever order the numbers come, restarted or not.  Until they are
\* restarted its gaps are the events that had not come when a newer one did, dropped or
\* overtaken, and its late and double frames those sent again and those overtaken.
THEOREM StatsAreTrue == Spec => []StatsMatchFirmware
<1>1. Init => StatsInv
  <2> SUFFICES ASSUME Init PROVE StatsInv
    OBVIOUS
  <2>1. /\ Idle /\ damaged = 0 /\ seq = 0 /\ pending = {} /\ old = {} /\ stored = {}
        /\ overtaken = {} /\ frames = {} /\ sent = 0 /\ dumped = 0 /\ received = {}
        /\ stats = NoStats
    BY DEF Init, Idle
  <2>2. IsFiniteSet({}) /\ Cardinality({}) = 0
    BY FS_EmptySet
  <2>3. Numbers(-1)
    BY <2>1, <2>2 DEF Numbers
  <2>4. Gaps(Missed, InOrder, stats.expected) = {}
    BY <2>1 DEF Gaps, Missed
  <2>5. stats = [ok |-> 0, crc_ng |-> 0, gap |-> 0, late |-> 0, dup |-> 0, expected |-> -1]
    BY <2>1 DEF NoStats
  <2>6. Books(-1)
    BY <2>1, <2>2, <2>4, <2>5 DEF Books
  <2>7. Counts(0) /\ DeviceInv
    BY <2>1, <2>5 DEF Counts, StatsType, DeviceInv
  <2> QED
    BY <2>1, <2>3, <2>6, <2>7 DEF StatsInv, ViewerInv, InBooks
<1>2. StatsInv => StatsMatchFirmware
  <2> SUFFICES ASSUME StatsInv, damaged = 0, Quiet
               PROVE  /\ stats.ok = sent /\ stats.crc_ng = 0
                      /\ ~ restarted =>
                          /\ stats.gap = Cardinality(Gaps(Missed, InOrder, stats.expected))
                          /\ stats.late + stats.dup = dumped + Cardinality(overtaken)
    BY DEF StatsMatchFirmware, Gaps, Missed, InOrder
  <2>1. DeviceInv /\ Counts(0) /\ InBooks(-1)
    <3>1. ASSUME NEW c \in frames, NEW crc \in CrcBytes, InAir(c, crc), DeviceInv
          PROVE  FALSE
      BY <3>1, AirIsBusy DEF DeviceInv, Quiet
    <3> QED
      BY <3>1 DEF StatsInv, ViewerInv
  <2>2. stats.ok = sent /\ stats.crc_ng = 0
    BY <2>1 DEF Counts, StatsType, DeviceInv
  <2>3. ASSUME ~ restarted
        PROVE  /\ stats.gap = Cardinality(Gaps(Missed, InOrder, stats.expected))
               /\ stats.late + stats.dup = dumped + Cardinality(overtaken)
    <3>1. Numbers(-1) /\ Books(-1)
      BY <2>1, <2>3 DEF InBooks
    <3>2. -1 \notin received \cup overtaken /\ stats.late + stats.dup \in Nat
      BY <2>1, <3>1 DEF Numbers, Counts, StatsType
    <3> QED
      BY <3>1, <3>2 DEF Books
  <2> QED
    BY <2>2, <2>3
<1> QED
  BY <1>1, <1>2, StatsStep, PTL DEF Spec

-----------------------------------------------------------------------------
(* What damage costs.  A viewer that has lost its place eats a known number *)
(* of cells before it looks for the magic again; the frames these may hit    *)
(* are charged to the damage when it is done.                              *)

\* Frames sent and not found, and what the damage pays for.
Loss == sent - stats.ok
Paid == damaged * FramesPerDamage

\* Two bytes that sync_to_magic takes for the start of a frame.
IsMagic(a, b) == a = MAGIC0 /\ b = MAGIC1

\* Frames that k cells in a row may hit.
Hit(k) == IF k <= 0 THEN 0 ELSE (k + 4) \div 5

\* The cells the viewer eats at most before it looks for the magic again.
Hunger ==
    CASE mode = "header" -> 2 - Len(got) + MaxByte + 1
      [] mode = "payload" -> 2 + got[2] - Len(got) + 1
      [] OTHER -> 1

\* The frames a magic hits that the viewer will find where none was sent.
MagicCost ==
    IF line # << >> /\ IsMagic(prev, line[1].byte) THEN Hit(MaxByte + 4 - Len(line))
    ELSE IF Len(line) >= 2 /\ IsMagic(line[1].byte, line[2].byte) THEN Hit(MaxByte + 5 - Len(line))
    ELSE 0

\* Only the first cell of the line may have been damaged: the rest shows no magic.
Clean == \A i \in 2 .. Len(line) - 1 : ~ IsMagic(line[i].byte, line[i + 1].byte)

\* Some frame is on its way undamaged, and the viewer is where it is.
FrameInAir == \E c \in frames : \E crc \in CrcBytes : InAir(c, crc)

\* The frames lost, and those that will be, are paid for.
Budget ==
    \/ FrameInAir /\ Loss - 1 <= Paid
    \/ mode = "magic" /\ Loss + MagicCost <= Paid
    \/ mode # "magic" /\ Loss + Hit(Hunger - Len(line)) <= Paid

CellType == [byte : Byte, fits : Seq(Nat)]
CountType == [ok : Nat, crc_ng : Int, gap : Int, late : Int, dup : Int, expected : Int]

\* Types, and where in a frame the viewer is.
Shape ==
    /\ line \in Seq(CellType) /\ got \in Seq(Byte) /\ prev \in Byte \cup {-1}
    /\ mode \in {"magic", "header", "payload", "crc"}
    /\ mode = "magic" => got = << >>
    /\ mode = "header" => Len(got) < 2
    /\ mode = "payload" => Len(got) >= 2 /\ Len(got) < 2 + got[2]
    /\ mode = "crc" => Len(got) >= 2
    /\ seq \in Nat /\ pending \subseteq Byte /\ old \subseteq Byte
    /\ sent \in Nat /\ damaged \in Nat /\ stats \in CountType /\ stored \subseteq frames
    /\ \A c \in frames : Framed(c) /\ c \in Seq(Byte)

\* The inductive invariant.
ResyncInv == Shape /\ (NoMagicInside => Clean /\ Budget)

\* k cells in a row hit every fifth cell a frame more, and one or two cells more at most one.
LEMMA HitFacts ==
  ASSUME NEW k \in Int, NEW j \in Int
  PROVE  /\ Hit(k) \in Nat
         /\ k <= j => Hit(k) <= Hit(j)
         /\ k <= 0 => Hit(k) = 0
         /\ k >= 1 => Hit(k - 5) + 1 <= Hit(k)
         /\ Hit(k + 1) <= Hit(k) + 1
         /\ Hit(k + 2) <= Hit(k) + 1
  BY DEF Hit

\* FramesPerDamage is the damaged frame and what a false length swallows.
LEMMA FramesFacts ==
  /\ MaxByte \in Nat /\ FramesPerDamage \in Nat
  /\ FramesPerDamage = 1 + Hit(MaxByte + 1) /\ Hit(MaxByte + 3) <= FramesPerDamage
  /\ Hit(MaxByte + 1) >= 1
<1>1. MaxByte \in Nat
  BY ViewerAssumption
<1>2. Hit(MaxByte + 1) = (MaxByte + 5) \div 5 /\ Hit(MaxByte + 1) >= 1
  BY <1>1 DEF Hit
<1>3. (MaxByte + 1) + 2 = MaxByte + 3
  BY <1>1
<1>4. Hit((MaxByte + 1) + 2) <= Hit(MaxByte + 1) + 1 /\ Hit(MaxByte + 1) \in Nat
  BY <1>1, HitFacts
<1> QED
  BY <1>1, <1>2, <1>3, <1>4 DEF FramesPerDamage

\* The account is kept in integers.
LEMMA LossFacts ==
  ASSUME Shape
  PROVE  /\ Loss \in Int /\ Paid \in Int /\ sent \in Int
         /\ (damaged + 1) * FramesPerDamage = Paid + FramesPerDamage
<1>2. stats.ok \in Nat
  BY DEF Shape, CountType
<1>3. damaged \in Nat /\ FramesPerDamage \in Nat
  BY FramesFacts DEF Shape
<1>4. (damaged + 1) * FramesPerDamage = damaged * FramesPerDamage + FramesPerDamage
      /\ damaged * FramesPerDamage \in Nat
  BY <1>3
<1> QED
  BY <1>2, <1>4 DEF Shape, Loss, Paid

\* In a frame the viewer eats at least one cell more.
LEMMA HungerFacts ==
  ASSUME Shape, mode # "magic"
  PROVE  Hunger \in Nat /\ Hunger >= 1
<1>1. MaxByte \in Nat /\ Len(got) \in Nat
  BY ViewerAssumption DEF Shape
<1>2. CASE mode = "header"
  BY <1>1, <1>2 DEF Hunger, Shape
<1>3. CASE mode = "payload"
  <2>1. got[2] \in Nat
    BY <1>1, <1>3 DEF Shape, Byte
  <2> QED
    BY <1>1, <1>3, <2>1 DEF Hunger, Shape
<1>4. CASE mode = "crc"
  BY <1>4 DEF Hunger
<1> QED
  BY <1>2, <1>3, <1>4 DEF Shape

\* What a magic may cost, at most, and nothing on a silent line.
LEMMA MagicCostFacts ==
  ASSUME Shape
  PROVE  /\ MagicCost \in Nat /\ MagicCost <= Hit(MaxByte + 3)
         /\ line = << >> => MagicCost = 0
<1>1. MaxByte \in Nat /\ Len(line) \in Nat /\ (line # << >> => Len(line) >= 1)
  BY ViewerAssumption DEF Shape
<1> DEFINE m == MaxByte + 3
<1>2. ASSUME NEW k \in Int, k <= m PROVE Hit(k) \in Nat /\ Hit(k) <= Hit(m)
  <2>1. m \in Int
    BY <1>1
  <2> HIDE DEF m
  <2> QED
    BY <1>2, <2>1, HitFacts
<1>3. Hit(m) \in Nat
  <2>1. m \in Int /\ m <= m
    BY <1>1
  <2> QED
    BY <1>2, <2>1
<1>4. line # << >> => MaxByte + 4 - Len(line) \in Int /\ MaxByte + 4 - Len(line) <= MaxByte + 3
  BY <1>1
<1>5. Len(line) >= 2 => MaxByte + 5 - Len(line) \in Int /\ MaxByte + 5 - Len(line) <= MaxByte + 3
  BY <1>1
<1>6. line = << >> => ~ Len(line) >= 2
  BY <1>1
<1> QED
  BY <1>2, <1>3, <1>4, <1>5, <1>6 DEF MagicCost

\* A frame in the air has at least five cells, none of them damaged, and no magic but
\* at its start.
LEMMA CellsAreClean ==
  ASSUME NEW c, Framed(c), c \in Seq(Byte), NEW crc \in CrcBytes
  PROVE  /\ Cells(c, crc) \in Seq(CellType) /\ Len(Cells(c, crc)) = Len(c) + 3 /\ Len(c) >= 2
         /\ Cells(c, crc)[1].byte = MAGIC0 /\ Cells(c, crc)[2].byte = MAGIC1
         /\ Cells(c, crc)[3].byte = c[1] /\ Cells(c, crc)[4].byte = c[2]
         /\ (\A i \in 2 .. Len(c) : c[i] \notin {MAGIC0, MAGIC1}) =>
               \A i \in 2 .. Len(c) + 2 :
                  ~ IsMagic(Cells(c, crc)[i].byte, Cells(c, crc)[i + 1].byte)
<1> DEFINE s == Cells(c, crc)
<1>1. Len(c) \in Nat /\ Len(c) >= 2 /\ c \in Seq(Nat)
  BY DEF Framed
<1>2. PICK S : /\ s \in Seq(S) /\ Len(s) = Len(c) + 3
               /\ s[1] = Cell(MAGIC0) /\ s[2] = Cell(MAGIC1)
               /\ \A i \in 1 .. Len(c) + 1 :
                     s[i + 2] = IF i <= Len(c) THEN Cell(c[i]) ELSE [byte |-> crc, fits |-> c]
  BY CellsAre
<1> HIDE DEF s
<1>3. \A b \in Byte : Cell(b) \in CellType /\ Cell(b).byte = b
  BY DEF Cell, CellType, NoFrame
<1>4. [byte |-> crc, fits |-> c] \in CellType
  BY <1>1, ViewerAssumption DEF CellType
<1>5. MAGIC0 \in Byte /\ MAGIC1 \in Byte /\ MAGIC0 # MAGIC1
  BY ViewerAssumption
<1>6. ASSUME NEW i \in 1 .. Len(c) + 3 PROVE s[i] \in CellType
  <2>1. CASE i = 1
    BY <1>2, <1>3, <1>5, <2>1
  <2>2. CASE i = 2
    BY <1>2, <1>3, <1>5, <2>2
  <2>3. CASE i > 2
    <3>1. i - 2 \in 1 .. Len(c) + 1 /\ (i - 2) + 2 = i
      BY <1>1, <2>3
    <3>2. i - 2 <= Len(c) => c[i - 2] \in Byte
      BY <1>1, <3>1
    <3> QED
      BY <1>2, <1>3, <1>4, <3>1, <3>2
  <2> QED
    BY <1>1, <2>1, <2>2, <2>3
<1>7. s \in Seq(CellType)
  <2>1. s = [i \in 1 .. Len(s) |-> s[i]] /\ Len(s) \in Nat
    BY <1>1, <1>2
  <2> HIDE DEF CellType
  <2> QED
    BY <1>2, <1>6, <2>1, IsASeq
<1>8. \A i \in 1 .. Len(c) : s[i + 2].byte = c[i]
  <2> TAKE i \in 1 .. Len(c)
  <2>1. i \in 1 .. Len(c) + 1 /\ c[i] \in Byte
    BY <1>1
  <2> QED
    BY <1>2, <1>3, <2>1
<1>9. s[3].byte = c[1] /\ s[4].byte = c[2]
  <2>1. 1 \in 1 .. Len(c) /\ 2 \in 1 .. Len(c) /\ 1 + 2 = 3 /\ 2 + 2 = 4
    BY <1>1
  <2> QED
    BY <1>8, <2>1
<1>10. ASSUME \A i \in 2 .. Len(c) : c[i] \notin {MAGIC0, MAGIC1}, NEW i \in 2 .. Len(c) + 2
       PROVE  ~ IsMagic(s[i].byte, s[i + 1].byte)
  <2>1. CASE i = 2
    BY <1>2, <1>3, <1>5, <2>1 DEF IsMagic
  <2>2. CASE i = 3
    <3>1. s[i + 1].byte = c[2] /\ 2 \in 2 .. Len(c)
      BY <1>1, <1>9, <2>2
    <3> QED
      BY <1>10, <3>1 DEF IsMagic
  <2>3. CASE i > 3
    <3>1. i - 2 \in 2 .. Len(c) /\ i - 2 \in 1 .. Len(c) /\ (i - 2) + 2 = i
      BY <1>1, <2>3
    <3> QED
      BY <1>8, <1>10, <3>1 DEF IsMagic
  <2> QED
    BY <1>1, <2>1, <2>2, <2>3
<1> QED
  BY <1>1, <1>2, <1>3, <1>5, <1>7, <1>9, <1>10 DEF s

\* The two ways a cell leaves the front of the line or changes there.
LEMMA FrontCell ==
  ASSUME Shape, line # << >>
  PROVE  /\ Len(line) \in Nat /\ Len(line) >= 1
         /\ Head(line) = line[1] /\ line[1] \in CellType /\ line[1].byte \in Byte
         /\ Tail(line) \in Seq(CellType) /\ Len(Tail(line)) = Len(line) - 1
         /\ \A i \in 1 .. Len(line) - 1 : Tail(line)[i] = line[i + 1]
<1>1. line \in Seq(CellType)
  BY DEF Shape
<1> HIDE DEF CellType
<1>2. Len(line) \in Nat /\ Len(line) >= 1 /\ line[1] \in CellType
  BY <1>1
<1>3. /\ Head(line) = line[1] /\ Tail(line) \in Seq(CellType) /\ Len(Tail(line)) = Len(line) - 1
      /\ \A i \in 1 .. Len(line) - 1 : Tail(line)[i] = line[i + 1]
  BY <1>1, <1>2, HeadTailProperties
<1>4. line[1].byte \in Byte
  BY <1>2 DEF CellType
<1> QED
  BY <1>2, <1>3, <1>4

LEMMA FrontChanged ==
  ASSUME Shape, line # << >>, NEW b \in Byte
  PROVE  LET changed == <<Cell(b)>> \o Tail(line)
         IN  /\ changed \in Seq(CellType) /\ Len(changed) = Len(line)
             /\ changed[1].byte = b /\ \A i \in 2 .. Len(line) : changed[i] = line[i]
<1> DEFINE one == <<Cell(b)>>
           t == Tail(line)
<1>1. Cell(b) \in CellType /\ Cell(b).byte = b
  BY DEF Cell, CellType, NoFrame
<1>2. one \in Seq(CellType) /\ Len(one) = 1 /\ one[1] = Cell(b)
  <2> HIDE DEF CellType
  <2> QED
    BY <1>1
<1>3. /\ Len(line) \in Nat /\ Len(line) >= 1 /\ t \in Seq(CellType) /\ Len(t) = Len(line) - 1
      /\ \A i \in 1 .. Len(line) - 1 : t[i] = line[i + 1]
  BY FrontCell
<1> HIDE DEF one, t
<1>4. /\ one \o t \in Seq(CellType) /\ Len(one \o t) = Len(one) + Len(t)
      /\ \A i \in 1 .. Len(one) + Len(t) :
            (one \o t)[i] = IF i <= Len(one) THEN one[i] ELSE t[i - Len(one)]
  BY <1>2, <1>3, ConcatProperties
<1>5. Len(one) + Len(t) = Len(line)
  BY <1>2, <1>3
<1>6. (one \o t)[1] = Cell(b)
  <2>1. 1 \in 1 .. Len(line) /\ 1 <= Len(one)
    BY <1>2, <1>3
  <2> QED
    BY <1>2, <1>4, <1>5, <2>1
<1>7. ASSUME NEW i \in 2 .. Len(line) PROVE (one \o t)[i] = line[i]
  <2>1. i \in 1 .. Len(line) /\ ~ (i <= Len(one)) /\ i - Len(one) = i - 1
        /\ i - 1 \in 1 .. Len(line) - 1 /\ (i - 1) + 1 = i
    BY <1>2, <1>3
  <2> QED
    BY <1>3, <1>4, <1>5, <2>1
<1> QED
  BY <1>1, <1>4, <1>5, <1>6, <1>7 DEF one, t

\* The rest of the line stays clean.
LEMMA CleanTail ==
  ASSUME Shape, Clean, line # << >>
  PROVE  /\ line' = Tail(line) => Clean'
         /\ \A b \in Byte : line' = <<Cell(b)>> \o Tail(line) => Clean'
<1>1. /\ Len(line) \in Nat /\ Len(line) >= 1 /\ Len(Tail(line)) = Len(line) - 1
      /\ \A i \in 1 .. Len(line) - 1 : Tail(line)[i] = line[i + 1]
  BY FrontCell
<1>2. ASSUME line' = Tail(line) PROVE Clean'
  <2> SUFFICES ASSUME NEW i \in 2 .. Len(line') - 1
               PROVE  ~ IsMagic(line'[i].byte, line'[i + 1].byte)
    BY DEF Clean, IsMagic
  <2>1. i \in 1 .. Len(line) - 1 /\ i + 1 \in 1 .. Len(line) - 1 /\ i + 1 \in 2 .. Len(line) - 1
    BY <1>1, <1>2
  <2>2. line'[i] = line[i + 1] /\ line'[i + 1] = line[(i + 1) + 1]
    BY <1>1, <1>2, <2>1
  <2> QED
    BY <2>1, <2>2 DEF Clean
<1>3. ASSUME NEW b \in Byte, line' = <<Cell(b)>> \o Tail(line) PROVE Clean'
  <2>1. Len(line') = Len(line) /\ \A i \in 2 .. Len(line) : line'[i] = line[i]
    BY <1>3, FrontChanged
  <2> SUFFICES ASSUME NEW i \in 2 .. Len(line) - 1
               PROVE  ~ IsMagic(line'[i].byte, line'[i + 1].byte)
    BY <2>1 DEF Clean, IsMagic
  <2>2. i \in 2 .. Len(line) /\ i + 1 \in 2 .. Len(line)
    BY <1>1
  <2> QED
    BY <2>1, <2>2 DEF Clean
<1> QED
  BY <1>2, <1>3

\* What the firmware sends is made of bytes.
LEMMA ContentBytes ==
  ASSUME NEW s \in Byte, NEW payload \in Payloads
  PROVE  Content(s, payload) \in Seq(Byte) /\ Framed(Content(s, payload))
<1>1. payload \in Seq(Byte) /\ Len(payload) \in Byte
  BY ViewerAssumption
<1>2. s \in Nat
  BY ViewerAssumption DEF Byte
<1>3. Framed(Content(s, payload))
  BY <1>2, ContentFramed
<1> HIDE DEF Byte
<1>4. <<s, Len(payload)>> \in Seq(Byte)
  BY <1>1
<1>5. Content(s, payload) \in Seq(Byte)
  BY <1>1, <1>4, ConcatProperties DEF Content
<1> QED
  BY <1>3, <1>5

\* The statistics of a good and of a bad frame.
LEMMA StatsCount ==
  ASSUME stats \in CountType, NEW s \in Int
  PROVE  /\ UpdateSeqStats(s) \in CountType /\ UpdateSeqStats(s).ok = stats.ok + 1
         /\ [stats EXCEPT !.crc_ng = @ + 1, !.expected = -1] \in CountType
         /\ [stats EXCEPT !.crc_ng = @ + 1, !.expected = -1].ok = stats.ok
<1> DEFINE e == stats.expected
           counted == [stats EXCEPT !.ok = @ + 1]
<1>1. stats.ok \in Nat /\ stats.crc_ng \in Int /\ stats.gap \in Int /\ stats.late \in Int
      /\ stats.dup \in Int /\ e \in Int
  BY DEF CountType
<1>2. counted \in CountType /\ counted.ok = stats.ok + 1 /\ counted.gap = stats.gap
      /\ counted.dup = stats.dup /\ counted.late = stats.late
  BY <1>1 DEF CountType
<1> HIDE DEF counted, e
<1>3. \A x \in Int : [counted EXCEPT !.expected = x] \in CountType
                    /\ [counted EXCEPT !.expected = x].ok = stats.ok + 1
  BY <1>2 DEF CountType
<1>4. \A x, y \in Int : [counted EXCEPT !.gap = x, !.expected = y] \in CountType
                       /\ [counted EXCEPT !.gap = x, !.expected = y].ok = stats.ok + 1
  BY <1>2 DEF CountType
<1>5. \A x \in Int : /\ [counted EXCEPT !.dup = x] \in CountType
                    /\ [counted EXCEPT !.dup = x].ok = stats.ok + 1
                    /\ [counted EXCEPT !.late = x] \in CountType
                    /\ [counted EXCEPT !.late = x].ok = stats.ok + 1
  BY <1>2 DEF CountType
<1>6. s + 1 \in Int /\ counted.gap + s - e \in Int /\ counted.dup + 1 \in Int /\ counted.late + 1 \in Int
  BY <1>1, <1>2
<1>7. \/ UpdateSeqStats(s) = [counted EXCEPT !.expected = s + 1]
      \/ UpdateSeqStats(s) = [counted EXCEPT !.gap = counted.gap + s - e, !.expected = s + 1]
      \/ UpdateSeqStats(s) = [counted EXCEPT !.dup = counted.dup + 1]
      \/ UpdateSeqStats(s) = [counted EXCEPT !.late = counted.late + 1]
  BY DEF UpdateSeqStats, counted, e
<1>8. UpdateSeqStats(s) \in CountType /\ UpdateSeqStats(s).ok = stats.ok + 1
  <2>1. CASE UpdateSeqStats(s) = [counted EXCEPT !.expected = s + 1]
    BY <1>3, <1>6, <2>1
  <2>2. CASE UpdateSeqStats(s) = [counted EXCEPT !.gap = counted.gap + s - e, !.expected = s + 1]
    BY <1>4, <1>6, <2>2
  <2>3. CASE UpdateSeqStats(s) = [counted EXCEPT !.dup = counted.dup + 1]
    BY <1>5, <1>6, <2>3
  <2>4. CASE UpdateSeqStats(s) = [counted EXCEPT !.late = counted.late + 1]
    BY <1>5, <1>6, <2>4
  <2> QED
    BY <1>7, <2>1, <2>2, <2>3, <2>4
<1>9. /\ [stats EXCEPT !.crc_ng = @ + 1, !.expected = -1] \in CountType
      /\ [stats EXCEPT !.crc_ng = @ + 1, !.expected = -1].ok = stats.ok
  <2>1. \A x, y \in Int : [stats EXCEPT !.crc_ng = x, !.expected = y] \in CountType
                          /\ [stats EXCEPT !.crc_ng = x, !.expected = y].ok = stats.ok
    BY DEF CountType
  <2>2. stats.crc_ng + 1 \in Int /\ -1 \in Int
    BY <1>1
  <2>3. [stats EXCEPT !.crc_ng = @ + 1, !.expected = -1]
          = [stats EXCEPT !.crc_ng = stats.crc_ng + 1, !.expected = -1]
    OBVIOUS
  <2> QED
    BY <2>1, <2>2, <2>3
<1> QED
  BY <1>8, <1>9

\* With its CRC to come a frame has a number.
LEMMA GotNumber == ASSUME Shape, mode = "crc" PROVE got[1] \in Int
<1>1. got \in Seq(Byte) /\ Len(got) >= 2
  BY DEF Shape
<1> HIDE DEF Byte
<1>2. got[1] \in Byte
  BY <1>1
<1> QED
  BY <1>2 DEF Byte

\* The types and the places of the viewer in a frame are kept by every step.
LEMMA ShapeNext == Shape /\ [Next]_vars => Shape'
<1> SUFFICES ASSUME Shape, [Next]_vars PROVE Shape'
  OBVIOUS
<1>1. ASSUME NEW n \in pending \cup old, NEW payload \in Payloads, NEW crc \in CrcBytes,
             SendLive(n, payload, crc)
      PROVE  Shape'
  <2> DEFINE c == Content(n, payload)
  <2>1. n \in Byte
    BY DEF Shape
  <2>2. c \in Seq(Byte) /\ Framed(c)
    BY <2>1, ContentBytes
  <2> HIDE DEF c
  <2>3. /\ line' = Cells(c, crc) /\ frames' = frames \cup {c} /\ sent' = sent + 1
        /\ stored' = stored \cup {c} /\ pending' \subseteq pending /\ old' \subseteq old
        /\ UNCHANGED <<seq, mode, prev, got, stats, damaged>>
    BY <1>1 DEF SendLive, OnLine, viewer, c
  <2>4. line' \in Seq(CellType)
    BY <2>2, <2>3, CellsAreClean
  <2>5. stored' \subseteq frames' /\ \A d \in frames' : Framed(d) /\ d \in Seq(Byte)
    BY <2>2, <2>3 DEF Shape
  <2> QED
    BY <2>3, <2>4, <2>5 DEF Shape
<1>2. ASSUME NEW c \in stored, NEW crc \in CrcBytes, SendStored(c, crc) PROVE Shape'
  <2>1. /\ line' = Cells(c, crc) /\ sent' = sent + 1 /\ frames' = frames \cup {c}
        /\ UNCHANGED <<seq, pending, old, stored, mode, prev, got, stats, damaged>>
    BY <1>2 DEF SendStored, OnLine, numbers, viewer
  <2>2. line' \in Seq(CellType)
    BY <2>1, CellsAreClean DEF Shape
  <2> QED
    BY <2>1, <2>2 DEF Shape
<1>3. CASE TakeNumber
  <2>1. seq' = seq + 1 /\ pending' = pending \cup {seq} /\ seq <= MaxSeq
        /\ UNCHANGED <<old, stored, frames, sent, line, mode, prev, got, stats, damaged>>
    BY <1>3 DEF TakeNumber, viewer
  <2>2. seq \in Byte
    BY <2>1, ViewerAssumption DEF Shape, Byte
  <2> QED
    BY <2>1, <2>2 DEF Shape
<1>8. CASE RestartNumbers
  <2>1. /\ seq' = 0 /\ pending' = {} /\ old' = pending /\ stored' = {}
        /\ UNCHANGED <<frames, sent, line, mode, prev, got, stats, damaged>>
    BY <1>8 DEF RestartNumbers, viewer
  <2> QED
    BY <2>1 DEF Shape
<1>4. CASE Damage
  <2>1. damaged' = damaged + 1 /\ line # << >>
        /\ UNCHANGED <<seq, pending, old, stored, frames, sent, mode, prev, got, stats>>
    BY <1>4 DEF Damage, device, numbers, viewer
  <2>2. line' = Tail(line) \/ \E b \in Byte : line' = <<Cell(b)>> \o Tail(line)
    BY <1>4 DEF Damage
  <2>3. line' \in Seq(CellType)
    BY <2>1, <2>2, FrontCell, FrontChanged
  <2> QED
    BY <2>1, <2>3 DEF Shape
<1>5. CASE Read
  <2> DEFINE b == Head(line).byte
  <2>1. line # << >> /\ line' = Tail(line) /\ UNCHANGED <<seq, pending, old, stored, frames, sent, damaged>>
    BY <1>5 DEF Read, device, numbers
  <2>2. b \in Byte /\ line' \in Seq(CellType)
    BY <2>1, FrontCell
  <2>3. CASE mode = "magic" /\ Sync(b) /\ UNCHANGED <<got, stats, received>>
    <3>1. got' = << >> /\ mode' \in {"magic", "header"} /\ prev' \in Byte \cup {-1}
      BY <2>2, <2>3 DEF Sync, Shape
    <3>2. got' \in Seq(Byte) /\ Len(got') = 0
      BY <3>1
    <3> QED
      BY <2>1, <2>2, <2>3, <3>1, <3>2 DEF Shape
  <2>4. CASE mode \in {"header", "payload"} /\ Body(b) /\ UNCHANGED <<prev, stats, received>>
    <3>1. /\ got' \in Seq(Byte) /\ Len(got') = Len(got) + 1 /\ Len(got) \in Nat
          /\ \A i \in 1 .. Len(got) : got'[i] = got[i]
      <4> HIDE DEF b
      <4>1. got \in Seq(Byte) /\ got' = Append(got, b) /\ b \in Byte
        BY <2>2, <2>4 DEF Shape, Body
      <4> HIDE DEF Byte
      <4> QED
        BY <4>1, AppendProperties
    <3>2. mode' = IF Len(got') < 2 THEN "header"
                  ELSE IF Len(got') < 2 + got'[2] THEN "payload" ELSE "crc"
      BY <2>4 DEF Body
    <3>3. mode' # "magic" /\ mode' \in {"header", "payload", "crc"}
          /\ (mode' = "header" => Len(got') < 2)
          /\ (mode' = "payload" => Len(got') >= 2 /\ Len(got') < 2 + got'[2])
          /\ (mode' = "crc" => Len(got') >= 2)
      BY <3>1, <3>2
    <3> QED
      BY <2>1, <2>2, <2>4, <3>1, <3>3 DEF Shape
  <2>5. CASE mode = "crc" /\ Frame(Head(line)) /\ Restart
    <3>1. stats' \in CountType
      <4>1. got[1] \in Int /\ stats \in CountType
        BY <2>5, GotNumber DEF Shape
      <4>2. stats' = UpdateSeqStats(got[1])
            \/ stats' = [stats EXCEPT !.crc_ng = @ + 1, !.expected = -1]
        BY <2>5 DEF Frame
      <4> QED
        BY <4>1, <4>2, StatsCount
    <3>2. mode' = "magic" /\ prev' = -1 /\ got' = << >> /\ got' \in Seq(Byte)
      BY <2>5 DEF Restart
    <3> QED
      BY <2>1, <2>2, <3>1, <3>2 DEF Shape
  <2> QED
    BY <1>5, <2>3, <2>4, <2>5 DEF Read
<1>6. CASE ReadTimeout
  <2>1. mode' = "magic" /\ prev' = -1 /\ got' = << >> /\ got' \in Seq(Byte)
        /\ UNCHANGED <<seq, pending, old, stored, frames, sent, line, stats, damaged>>
    BY <1>6 DEF ReadTimeout, Restart, device, numbers
  <2> QED
    BY <2>1 DEF Shape
<1>7. CASE UNCHANGED vars
  BY <1>7 DEF vars, device, numbers, viewer, Shape
<1> QED
  BY <1>1, <1>2, <1>3, <1>4, <1>5, <1>6, <1>7, <1>8 DEF Next

\* On a silent line no frame is in the air.
LEMMA SilentBudget ==
  ASSUME Shape, Budget, line = << >>
  PROVE  \/ mode = "magic" /\ Loss <= Paid
         \/ mode # "magic" /\ Loss + Hit(Hunger) <= Paid
<1>1. ~ FrameInAir
  BY AirIsBusy DEF FrameInAir, Shape
<1>2. mode = "magic" /\ Loss + MagicCost <= Paid => Loss <= Paid
  <2>1. MagicCost = 0
    BY MagicCostFacts
  <2>2. Loss \in Int /\ Paid \in Int
    BY LossFacts
  <2> QED
    BY <2>1, <2>2
<1>3. mode # "magic" => Hunger - Len(line) = Hunger
  <2>1. Len(line) = 0
    OBVIOUS
  <2>2. mode # "magic" => Hunger \in Int
    BY HungerFacts
  <2> QED
    BY <2>1, <2>2
<1> QED
  BY <1>1, <1>2, <1>3 DEF Budget

\* A frame that is sent is in the air, or what the viewer eats of it was paid for.
LEMMA SendBudget ==
  ASSUME Shape, Budget, NEW c, Framed(c), c \in Seq(Byte), NEW crc \in CrcBytes,
         \A i \in 2 .. Len(c) : c[i] \notin {MAGIC0, MAGIC1},
         line = << >>, line' = Cells(c, crc), c \in frames', sent' = sent + 1,
         UNCHANGED <<mode, prev, got, stats, damaged>>
  PROVE  Clean' /\ Budget'
<1>1. /\ line' \in Seq(CellType) /\ Len(line') = Len(c) + 3 /\ Len(c) >= 2 /\ Len(c) \in Nat
      /\ \A i \in 2 .. Len(c) + 2 : ~ IsMagic(line'[i].byte, line'[i + 1].byte)
  <2> DEFINE s == Cells(c, crc)
  <2>1. /\ s \in Seq(CellType) /\ Len(s) = Len(c) + 3 /\ Len(c) >= 2
        /\ \A i \in 2 .. Len(c) + 2 : ~ IsMagic(s[i].byte, s[i + 1].byte)
    BY CellsAreClean
  <2>2. line' = s
    OBVIOUS
  <2>3. Len(c) \in Nat
    BY DEF Framed
  <2> HIDE DEF s
  <2> QED
    BY <2>1, <2>2, <2>3
<1>2. Clean'
  <2>1. \A i \in 2 .. Len(line') - 1 : i \in 2 .. Len(c) + 2
    BY <1>1
  <2> QED
    BY <1>1, <2>1 DEF Clean, IsMagic
<1>3. Loss \in Int /\ Paid \in Int /\ Loss' = Loss + 1 /\ Paid' = Paid
  <2>1. Loss \in Int /\ Paid \in Int /\ sent \in Int /\ stats.ok \in Nat
    BY LossFacts DEF Shape, CountType
  <2> QED
    BY <2>1 DEF Loss, Paid
<1>4. CASE mode = "magic" /\ Loss <= Paid
  <2>1. InAir(c, crc)'
    BY <1>4 DEF InAir, Shape
  <2>2. FrameInAir'
    BY <2>1 DEF FrameInAir
  <2>3. Loss' - 1 <= Paid'
    BY <1>3, <1>4
  <2> QED
    BY <1>2, <2>2, <2>3 DEF Budget
<1>5. CASE mode # "magic" /\ Loss + Hit(Hunger) <= Paid
  <2>1. Hunger \in Nat /\ Hunger >= 1 /\ Hunger' = Hunger
    BY <1>5, HungerFacts DEF Hunger
  <2>2. Hunger - Len(line') <= Hunger - 5 /\ Hunger - Len(line') \in Int /\ Hunger - 5 \in Int
        /\ Hunger \in Int
    BY <1>1, <2>1
  <2>3. Hit(Hunger - Len(line')) <= Hit(Hunger - 5) /\ Hit(Hunger - Len(line')) \in Nat
        /\ Hit(Hunger - 5) \in Nat
    BY <2>2, HitFacts
  <2>4. Hit(Hunger - 5) + 1 <= Hit(Hunger) /\ Hit(Hunger) \in Nat
    BY <2>1, <2>2, HitFacts
  <2>5. Loss' + Hit(Hunger - Len(line')) <= Paid'
    BY <1>3, <1>5, <2>3, <2>4
  <2> QED
    BY <1>2, <1>5, <2>1, <2>5 DEF Budget
<1> QED
  BY <1>4, <1>5, SilentBudget

\* What damage does to a frame in the air costs less than FramesPerDamage besides.
LEMMA AirHunger ==
  ASSUME Shape, NEW c \in frames, NEW crc \in CrcBytes, InAir(c, crc), mode # "magic"
  PROVE  Hunger - Len(line) <= MaxByte
<1>1. Framed(c) /\ Len(c) \in Nat /\ Len(c) >= 2 /\ Len(c) = 2 + c[2] /\ MaxByte \in Nat
      /\ c[2] \in Nat
  BY ViewerAssumption DEF Shape, Framed
<1>2. PICK n \in 0 .. Len(c) :
        /\ mode = IF n < 2 THEN "header" ELSE IF n < Len(c) THEN "payload" ELSE "crc"
        /\ got = [i \in 1 .. n |-> c[i]] /\ line = Rest(c, crc, n)
  BY DEF InAir
<1>3. Len(got) = n /\ n \in Nat
  BY <1>1, <1>2
<1>4. Len(line) = Len(c) - n + 1
  <2>1. Len(c) - n + 1 \in Nat
    BY <1>1
  <2> QED
    BY <1>2, <2>1 DEF Rest
<1>5. CASE n < 2
  <2>1. Hunger = 2 - n + MaxByte + 1
    BY <1>2, <1>3, <1>5 DEF Hunger
  <2> QED
    BY <1>1, <1>3, <1>4, <2>1
<1>6. CASE n >= 2 /\ n < Len(c)
  <2>1. got[2] = c[2]
    <3>1. 2 \in 1 .. n
      BY <1>3, <1>6
    <3> QED
      BY <1>2, <3>1
  <2>2. Hunger = 2 + c[2] - n + 1
    BY <1>2, <1>3, <1>6, <2>1 DEF Hunger
  <2> QED
    BY <1>1, <1>3, <1>4, <2>2
<1>7. CASE n = Len(c)
  <2>1. Hunger = 1
    BY <1>1, <1>2, <1>7 DEF Hunger
  <2> QED
    BY <1>1, <1>4, <1>7, <2>1
<1> QED
  BY <1>1, <1>5, <1>6, <1>7

\* A magic costs less when much of its frame is still on the line.
LEMMA MagicCostSmall ==
  ASSUME Shape, line # << >> /\ IsMagic(prev, line[1].byte) => Len(line) >= 3,
         Len(line) >= 2 /\ IsMagic(line[1].byte, line[2].byte) => Len(line) >= 4
  PROVE  MagicCost <= Hit(MaxByte + 1)
<1> DEFINE m == MaxByte + 1
<1>1. MaxByte \in Nat /\ Len(line) \in Nat /\ m \in Int /\ Hit(m) \in Nat
  <2>1. MaxByte \in Nat /\ Len(line) \in Nat /\ m \in Int
    BY ViewerAssumption DEF Shape
  <2> HIDE DEF m
  <2> QED
    BY <2>1, HitFacts
<1>2. ASSUME NEW k \in Int, k <= m PROVE Hit(k) <= Hit(m)
  <2> HIDE DEF m
  <2> QED
    BY <1>1, <1>2, HitFacts
<1>3. Len(line) >= 3 => Hit(MaxByte + 4 - Len(line)) <= Hit(m)
  BY <1>1, <1>2
<1>4. Len(line) >= 4 => Hit(MaxByte + 5 - Len(line)) <= Hit(m)
  BY <1>1, <1>2
<1> HIDE DEF m
<1>5. MagicCost <= Hit(m)
  BY <1>1, <1>3, <1>4 DEF MagicCost
<1> QED
  BY <1>5 DEF m

\* The same after a step.
LEMMA MagicCostNext ==
  /\ Shape' => /\ MagicCost' \in Nat /\ MagicCost' <= Hit(MaxByte + 3)
               /\ line' = << >> => MagicCost' = 0
  /\ /\ Shape'
     /\ line' # << >> /\ IsMagic(prev', line'[1].byte) => Len(line') >= 3
     /\ Len(line') >= 2 /\ IsMagic(line'[1].byte, line'[2].byte) => Len(line') >= 4
     => MagicCost' <= Hit(MaxByte + 1)
<1>1. Shape => /\ MagicCost \in Nat /\ MagicCost <= Hit(MaxByte + 3)
               /\ line = << >> => MagicCost = 0
  BY MagicCostFacts
<1>2. /\ Shape
      /\ line # << >> /\ IsMagic(prev, line[1].byte) => Len(line) >= 3
      /\ Len(line) >= 2 /\ IsMagic(line[1].byte, line[2].byte) => Len(line) >= 4
      => MagicCost <= Hit(MaxByte + 1)
  BY MagicCostSmall
<1>3. (Shape => /\ MagicCost \in Nat /\ MagicCost <= Hit(MaxByte + 3)
                /\ line = << >> => MagicCost = 0)'
  BY <1>1, PTL
<1>4. (/\ Shape
       /\ line # << >> /\ IsMagic(prev, line[1].byte) => Len(line) >= 3
       /\ Len(line) >= 2 /\ IsMagic(line[1].byte, line[2].byte) => Len(line) >= 4
       => MagicCost <= Hit(MaxByte + 1))'
  BY <1>2, PTL
<1> QED
  BY <1>3, <1>4 DEF IsMagic

\* A frame in the air that is damaged while the viewer looks for its magic.
LEMMA DamagedMagic ==
  ASSUME Shape, Shape', NoMagicInside, NEW c \in frames, NEW crc \in CrcBytes, InAir(c, crc),
         mode = "magic", Damage
  PROVE  FrameInAir' \/ MagicCost' <= Hit(MaxByte + 1)
<1> DEFINE s == Cells(c, crc)
           t == Tail(s)
<1>1. Framed(c) /\ c \in Seq(Byte) /\ Len(c) \in Nat /\ Len(c) >= 2
  BY DEF Shape, Framed
<1>2. /\ s \in Seq(CellType) /\ Len(s) = Len(c) + 3
      /\ s[1].byte = MAGIC0 /\ s[2].byte = MAGIC1 /\ s[3].byte = c[1] /\ s[4].byte = c[2]
  BY <1>1, CellsAreClean
<1>3. c[2] # MAGIC1 /\ MAGIC0 # MAGIC1
  <2>1. 2 \in 2 .. Len(c)
    BY <1>1
  <2> QED
    BY <2>1, ViewerAssumption DEF NoMagicInside
<1>4. UNCHANGED <<frames, prev, mode, got>> /\ line # << >>
  BY DEF Damage, device, numbers, viewer
<1>5. \/ line' = Tail(line)
      \/ \E b \in Byte : b # line[1].byte /\ line' = <<Cell(b)>> \o Tail(line)
  BY <1>4, FrontCell DEF Damage
<1>6. line = s \/ (prev = MAGIC0 /\ line = t)
  BY DEF InAir
<1>7. /\ Len(line) \in Nat /\ Len(line) >= 1 /\ Len(Tail(line)) = Len(line) - 1
      /\ \A i \in 1 .. Len(line) - 1 : Tail(line)[i] = line[i + 1]
  BY <1>4, FrontCell
<1>8. t \in Seq(CellType) /\ Len(t) = Len(c) + 2 /\ t[1] = s[2] /\ t[2] = s[3] /\ t[3] = s[4]
  <2> HIDE DEF s, CellType
  <2>1. s # << >> /\ Len(s) >= 5
    BY <1>1, <1>2
  <2>2. t \in Seq(CellType) /\ Len(t) = Len(s) - 1 /\ \A i \in 1 .. Len(s) - 1 : t[i] = s[i + 1]
    BY <1>2, <2>1, HeadTailProperties
  <2>3. 1 \in 1 .. Len(s) - 1 /\ 2 \in 1 .. Len(s) - 1 /\ 3 \in 1 .. Len(s) - 1
    BY <1>1, <1>2
  <2> QED
    BY <1>1, <1>2, <2>2, <2>3
<1> HIDE DEF s, t
<1>9. CASE line' = Tail(line) /\ line = s
  <2>1. CASE prev = MAGIC0
    <3>1. InAir(c, crc)'
      BY <1>4, <1>9, <2>1 DEF InAir, Shape, s
    <3> QED
      BY <1>4, <3>1 DEF FrameInAir
  <2>2. CASE prev # MAGIC0
    <3>1. line'[1].byte = MAGIC1
      BY <1>2, <1>8, <1>9 DEF t
    <3> QED
      BY <1>3, <1>4, <2>2, <3>1, MagicCostNext DEF IsMagic
  <2> QED
    BY <2>1, <2>2
<1>10. CASE line' = Tail(line) /\ line = t
  <2>1. 1 \in 1 .. Len(line) - 1 /\ 2 \in 1 .. Len(line) - 1
    BY <1>1, <1>8, <1>10
  <2>2. line'[2].byte = c[2] /\ Len(line') >= 3
    BY <1>1, <1>2, <1>7, <1>8, <1>10, <2>1
  <2> QED
    BY <1>3, <2>2, MagicCostNext DEF IsMagic
<1>11. ASSUME NEW b \in Byte, b # line[1].byte, line' = <<Cell(b)>> \o Tail(line)
       PROVE  MagicCost' <= Hit(MaxByte + 1)
  <2>1. /\ Len(line') = Len(line) /\ line'[1].byte = b
        /\ \A i \in 2 .. Len(line) : line'[i] = line[i]
    BY <1>4, <1>11, FrontChanged
  <2>2. CASE line = s
    <3>1. b # MAGIC0 /\ Len(line') >= 5
      BY <1>1, <1>2, <1>11, <2>1, <2>2
    <3>2. Len(line') >= 3
      BY <3>1, <2>1, <1>7
    <3> QED
      BY <2>1, <3>1, <3>2, MagicCostNext DEF IsMagic
  <2>3. CASE prev = MAGIC0 /\ line = t
    <3>1. b # MAGIC1 /\ Len(line') >= 4
      BY <1>1, <1>2, <1>8, <1>11, <2>1, <2>3
    <3> QED
      BY <1>4, <2>1, <2>3, <3>1, MagicCostNext DEF IsMagic
  <2> QED
    BY <1>6, <2>2, <2>3
<1> QED
  BY <1>5, <1>6, <1>9, <1>10, <1>11

\* Each damaged byte pays for what it costs.
LEMMA DamageBudget ==
  ASSUME Shape, Shape', NoMagicInside, Clean, Budget, Damage
  PROVE  Clean' /\ Budget'
<1>1. /\ damaged' = damaged + 1 /\ line # << >>
      /\ UNCHANGED <<seq, pending, old, stored, frames, sent, mode, prev, got, stats>>
  BY DEF Damage, device, numbers, viewer
<1>2. line' = Tail(line) \/ \E b \in Byte : line' = <<Cell(b)>> \o Tail(line)
  BY DEF Damage
<1>3. Clean'
  BY <1>1, <1>2, CleanTail
<1>4. /\ Loss' = Loss /\ Loss \in Int /\ Paid \in Int /\ Paid' = Paid + FramesPerDamage
      /\ FramesPerDamage = 1 + Hit(MaxByte + 1) /\ Hit(MaxByte + 3) <= FramesPerDamage
      /\ Hit(MaxByte + 1) >= 1 /\ Hit(MaxByte + 1) \in Nat /\ Hit(MaxByte + 3) \in Nat
  <2>1. MaxByte + 1 \in Int /\ MaxByte + 3 \in Int
    BY FramesFacts
  <2>2. Hit(MaxByte + 1) \in Nat /\ Hit(MaxByte + 3) \in Nat
    BY <2>1, HitFacts
  <2> QED
    BY <1>1, <2>2, LossFacts, FramesFacts DEF Loss, Paid
<1>5. Len(line) \in Nat /\ Len(line') \in Nat /\ (Len(line') = Len(line) \/ Len(line') = Len(line) - 1)
  <2>1. Len(line') = Len(line) \/ Len(line') = Len(line) - 1
    BY <1>1, <1>2, FrontCell, FrontChanged
  <2>2. Len(line) \in Nat /\ Len(line) >= 1
    BY <1>1, FrontCell
  <2> QED
    BY <2>1, <2>2
<1>6. MagicCost' \in Nat /\ MagicCost' <= Hit(MaxByte + 3) /\ MagicCost \in Nat
  BY MagicCostNext, MagicCostFacts
<1>7. CASE mode = "magic" /\ Loss + MagicCost <= Paid
  <2>1. Loss' + MagicCost' <= Paid'
    BY <1>4, <1>6, <1>7
  <2> QED
    BY <1>1, <1>3, <1>7, <2>1 DEF Budget
<1>8. CASE mode # "magic" /\ Loss + Hit(Hunger - Len(line)) <= Paid
  <2> DEFINE k == Hunger - Len(line)
             j == Hunger - Len(line')
  <2>1. k \in Int /\ j \in Int /\ (j = k \/ j = k + 1) /\ Hunger' = Hunger
    <3>1. Hunger \in Nat
      BY <1>8, HungerFacts
    <3>2. Hunger' = Hunger
      BY <1>1 DEF Hunger
    <3> QED
      BY <1>5, <3>1, <3>2
  <2> HIDE DEF k, j
  <2>2. Hit(j) <= Hit(k) + 1 /\ Hit(k) \in Nat /\ Hit(j) \in Nat
    BY <2>1, HitFacts
  <2>3. Loss + Hit(k) <= Paid
    BY <1>8 DEF k
  <2>4. Loss' + Hit(j) <= Paid'
    BY <1>4, <2>2, <2>3
  <2> QED
    BY <1>1, <1>3, <1>8, <2>1, <2>4 DEF Budget, j
<1>9. CASE FrameInAir /\ Loss - 1 <= Paid
  <2>1. PICK c \in frames, crc \in CrcBytes : InAir(c, crc)
    BY <1>9 DEF FrameInAir
  <2>2. CASE mode = "magic"
    <3>1. CASE FrameInAir'
      <4>1. Loss' - 1 <= Paid'
        BY <1>4, <1>9
      <4> QED
        BY <1>3, <3>1, <4>1 DEF Budget
    <3>2. CASE MagicCost' <= Hit(MaxByte + 1)
      <4>1. Loss' + MagicCost' <= Paid'
        BY <1>4, <1>6, <1>9, <3>2
      <4> QED
        BY <1>1, <1>3, <2>2, <4>1 DEF Budget
    <3> QED
      BY <2>1, <2>2, <3>1, <3>2, DamagedMagic
  <2>3. CASE mode # "magic"
    <3> DEFINE j == Hunger - Len(line')
               m == MaxByte + 1
    <3>1. j \in Int /\ m \in Int /\ j <= m /\ Hunger' = Hunger
      <4>1. Hunger \in Nat /\ Hunger' = Hunger
        BY <1>1, <2>3, HungerFacts DEF Hunger
      <4>2. Hunger - Len(line) <= MaxByte /\ MaxByte \in Nat
        BY <2>1, <2>3, AirHunger, FramesFacts
      <4> QED
        BY <1>5, <4>1, <4>2
    <3> HIDE DEF j, m
    <3>2. Hit(j) <= Hit(m) /\ Hit(j) \in Nat
      BY <3>1, HitFacts
    <3>3. Hit(j) <= Hit(MaxByte + 1)
      BY <3>2 DEF m
    <3>4. Loss' + Hit(j) <= Paid'
      BY <1>4, <1>9, <3>2, <3>3
    <3> QED
      BY <1>1, <1>3, <2>3, <3>1, <3>4 DEF Budget, j
  <2> QED
    BY <2>2, <2>3
<1> QED
  BY <1>7, <1>8, <1>9 DEF Budget

\* Every byte read of a frame brings the viewer nearer to its next look at the magic.
LEMMA HungerNext ==
  ASSUME Shape, NEW b \in Byte, mode \in {"header", "payload"}, Body(b)
  PROVE  mode' # "magic" /\ Hunger' \in Int /\ Hunger' <= Hunger - 1
<1>1. /\ got' \in Seq(Byte) /\ Len(got') = Len(got) + 1 /\ Len(got) \in Nat
      /\ \A i \in 1 .. Len(got) : got'[i] = got[i]
  <2>1. got \in Seq(Byte) /\ got' = Append(got, b)
    BY DEF Shape, Body
  <2> HIDE DEF Byte
  <2> QED
    BY <2>1, AppendProperties
<1>2. mode' = IF Len(got') < 2 THEN "header"
              ELSE IF Len(got') < 2 + got'[2] THEN "payload" ELSE "crc"
  BY DEF Body
<1>3. MaxByte \in Nat
  BY ViewerAssumption
<1>4. Len(got') >= 2 => got'[2] \in 0 .. MaxByte
  <2> SUFFICES ASSUME Len(got') >= 2 PROVE got'[2] \in Byte
    BY DEF Byte
  <2>1. 2 \in 1 .. Len(got') /\ got' \in Seq(Byte)
    BY <1>1
  <2> HIDE DEF Byte
  <2> QED
    BY <2>1
<1>5. Hunger' = IF mode' = "header" THEN 2 - Len(got') + MaxByte + 1
                ELSE IF mode' = "payload" THEN 2 + got'[2] - Len(got') + 1 ELSE 1
  BY <1>2 DEF Hunger
<1>6. CASE mode = "header"
  <2>1. Hunger = 2 - Len(got) + MaxByte + 1 /\ Len(got) < 2
    BY <1>6 DEF Hunger, Shape
  <2> QED
    BY <1>1, <1>2, <1>3, <1>4, <1>5, <2>1
<1>7. CASE mode = "payload"
  <2>1. Hunger = 2 + got[2] - Len(got) + 1 /\ Len(got) >= 2 /\ Len(got) < 2 + got[2]
    BY <1>7 DEF Hunger, Shape
  <2>2. got'[2] = got[2]
    <3>1. 2 \in 1 .. Len(got)
      BY <1>1, <2>1
    <3> QED
      BY <1>1, <3>1
  <2>3. got[2] \in Nat
    BY <1>1, <1>3, <1>4, <2>1, <2>2
  <2>4. mode' = IF Len(got') < 2 + got[2] THEN "payload" ELSE "crc"
    BY <1>1, <1>2, <2>1, <2>2
  <2>5. CASE Len(got') < 2 + got[2]
    BY <1>1, <1>5, <2>1, <2>2, <2>3, <2>4, <2>5
  <2>6. CASE ~ (Len(got') < 2 + got[2])
    BY <1>1, <1>5, <2>1, <2>3, <2>4, <2>6
  <2> QED
    BY <2>5, <2>6
<1> QED
  BY <1>6, <1>7

\* Looking for the magic on a clean line: there is one behind the byte before, or one
\* cell later, or none.
LEMMA SyncCost ==
  ASSUME Shape, Clean, Read
  PROVE  /\ mode' = "magic" /\ prev' = -1 => MagicCost' = 0
         /\ mode' = "magic" /\ prev' = line[1].byte /\ ~ IsMagic(prev, line[1].byte)
               => MagicCost' = MagicCost
<1>1. line # << >> /\ line' = Tail(line)
  BY DEF Read
<1>2. /\ Len(line) \in Nat /\ Len(line) >= 1 /\ Len(line') = Len(line) - 1
      /\ line' \in Seq(CellType) /\ \A i \in 1 .. Len(line) - 1 : line'[i] = line[i + 1]
  BY <1>1, FrontCell
<1>3. line' # << >> <=> Len(line') >= 1
  BY <1>2, EmptySeq
<1>4. Len(line') >= 1 => line'[1] = line[2]
  <2> SUFFICES ASSUME Len(line') >= 1 PROVE line'[1] = line[1 + 1]
    OBVIOUS
  <2>1. 1 \in 1 .. Len(line) - 1
    BY <1>2
  <2> QED
    BY <1>2, <2>1
<1>5. Len(line') >= 2 => line'[2] = line[3] /\ ~ IsMagic(line[2].byte, line[3].byte)
  <2> SUFFICES ASSUME Len(line') >= 2
               PROVE  line'[2] = line[2 + 1] /\ ~ IsMagic(line[2].byte, line[2 + 1].byte)
    OBVIOUS
  <2>1. 2 \in 1 .. Len(line) - 1 /\ 2 \in 2 .. Len(line) - 1
    BY <1>2
  <2> QED
    BY <1>2, <2>1 DEF Clean
<1>6. MagicCost' = IF Len(line') >= 1 /\ IsMagic(prev', line[2].byte)
                   THEN Hit(MaxByte + 4 - Len(line')) ELSE 0
  <2>1. MagicCost' = IF line' # << >> /\ IsMagic(prev', line'[1].byte)
                     THEN Hit(MaxByte + 4 - Len(line'))
                     ELSE IF Len(line') >= 2 /\ IsMagic(line'[1].byte, line'[2].byte)
                     THEN Hit(MaxByte + 5 - Len(line')) ELSE 0
    BY DEF MagicCost, IsMagic, Hit
  <2>2. Len(line') >= 2 => Len(line') >= 1
    BY <1>2
  <2> QED
    BY <1>3, <1>4, <1>5, <2>1, <2>2
<1>7. -1 # MAGIC0
  BY ViewerAssumption DEF Byte
<1>8. ASSUME prev' = line[1].byte, ~ IsMagic(prev, line[1].byte)
      PROVE  MagicCost' = MagicCost
  <2>1. MaxByte + 4 - Len(line') = MaxByte + 5 - Len(line)
    BY <1>2, ViewerAssumption
  <2>2. Len(line) >= 2 <=> Len(line') >= 1
    BY <1>2
  <2> QED
    BY <1>6, <1>8, <2>1, <2>2 DEF MagicCost
<1> QED
  BY <1>6, <1>7, <1>8 DEF IsMagic

\* What the viewer reads changes nothing in what it owes: a frame that is found is off
\* the books, and a false magic was paid for before it was read.
LEMMA ReadBudget ==
  ASSUME Shape, Shape', Clean, Budget, Read
  PROVE  Clean' /\ Budget'
<1> DEFINE b == Head(line).byte
<1>1. line # << >> /\ line' = Tail(line) /\ UNCHANGED <<seq, pending, old, stored, frames, sent, damaged>>
  BY DEF Read, device, numbers
<1>2. /\ Len(line) \in Nat /\ Len(line) >= 1 /\ Len(line') = Len(line) - 1
      /\ b = line[1].byte /\ b \in Byte
  BY <1>1, FrontCell
<1>3. Clean'
  BY <1>1, CleanTail
<1>4. /\ Loss \in Int /\ Paid \in Int /\ Paid' = Paid /\ sent \in Int /\ sent' = sent
      /\ Loss = sent - stats.ok /\ stats.ok \in Nat /\ Loss' = sent - stats'.ok
  BY <1>1, LossFacts DEF Loss, Paid, Shape, CountType
<1>5. CASE FrameInAir /\ Loss - 1 <= Paid
  <2>1. PICK c \in frames, crc \in CrcBytes : InAir(c, crc)
    BY <1>5 DEF FrameInAir
  <2>2. Framed(c)
    BY DEF Shape
  <2>3. CASE InAir(c, crc)' /\ UNCHANGED <<stats, received>>
    <3>1. FrameInAir'
      BY <1>1, <2>3 DEF FrameInAir
    <3>2. Loss' - 1 <= Paid'
      BY <1>4, <1>5, <2>3
    <3> QED
      BY <1>3, <3>1, <3>2 DEF Budget
  <2>4. CASE Idle' /\ got = c /\ Frame([byte |-> crc, fits |-> c])
    <3>1. stats' = UpdateSeqStats(c[1])
      BY <2>4 DEF Frame
    <3>2. c[1] \in Int
      BY <2>2 DEF Framed
    <3>3. stats'.ok = stats.ok + 1
      BY <3>1, <3>2, StatsCount DEF Shape
    <3>4. mode' = "magic" /\ MagicCost' = 0
      BY <2>4, MagicCostNext DEF Idle
    <3>5. Loss' + MagicCost' <= Paid'
      BY <1>4, <1>5, <3>3, <3>4
    <3> QED
      BY <1>3, <3>4, <3>5 DEF Budget
  <2> QED
    BY <2>1, <2>2, <2>3, <2>4, ReadGoesOn
<1>6. CASE mode = "magic" /\ Loss + MagicCost <= Paid
  <2>1. Sync(b) /\ UNCHANGED <<got, stats, received>>
    BY <1>6 DEF Read
  <2>2. Loss' = Loss
    BY <1>4, <2>1
  <2>3. CASE IsMagic(prev, line[1].byte)
    <3>1. mode' = "header" /\ got' = << >>
      BY <1>2, <1>6, <2>1, <2>3 DEF Sync, IsMagic, Shape
    <3>2. Hunger' = MaxByte + 3
      <4>1. Hunger' = 2 - Len(got') + MaxByte + 1 /\ Len(got') = 0
        BY <3>1 DEF Hunger
      <4> QED
        BY <4>1, ViewerAssumption
    <3>3. Hunger' - Len(line') = MaxByte + 4 - Len(line)
      BY <1>2, <3>2, ViewerAssumption
    <3>4. MagicCost = Hit(MaxByte + 4 - Len(line))
      BY <1>1, <2>3 DEF MagicCost
    <3>5. Loss' + Hit(Hunger' - Len(line')) <= Paid'
      BY <1>4, <1>6, <2>2, <3>3, <3>4
    <3> QED
      BY <1>3, <3>1, <3>5 DEF Budget, Hit
  <2>4. CASE ~ IsMagic(prev, line[1].byte)
    <3>1. mode' = "magic" /\ prev' = line[1].byte
      BY <1>2, <1>6, <2>1, <2>4 DEF Sync, IsMagic
    <3>2. MagicCost' = MagicCost
      BY <2>4, <3>1, SyncCost
    <3>3. Loss' + MagicCost' <= Paid'
      BY <1>4, <1>6, <2>2, <3>2
    <3> QED
      BY <1>3, <3>1, <3>3 DEF Budget
  <2> QED
    BY <2>3, <2>4
<1>7. CASE mode # "magic" /\ Loss + Hit(Hunger - Len(line)) <= Paid
  <2> DEFINE k == Hunger - Len(line)
             j == Hunger' - Len(line')
  <2>1. Hunger \in Nat
    BY <1>7, HungerFacts
  <2>2. CASE mode \in {"header", "payload"}
    <3>1. Body(b) /\ UNCHANGED <<prev, stats, received>>
      BY <2>2 DEF Read
    <3>2. mode' # "magic" /\ Hunger' \in Int /\ Hunger' <= Hunger - 1
      BY <1>2, <2>2, <3>1, HungerNext
    <3>3. k \in Int /\ j \in Int /\ j <= k
      BY <1>2, <2>1, <3>2
    <3>4. Loss' = Loss
      BY <1>4, <3>1
    <3> HIDE DEF j, k
    <3>5. Hit(j) <= Hit(k) /\ Hit(j) \in Nat /\ Hit(k) \in Nat
      BY <3>3, HitFacts
    <3>6. Loss + Hit(k) <= Paid
      BY <1>7 DEF k
    <3>7. Loss' + Hit(j) <= Paid'
      BY <1>4, <3>4, <3>5, <3>6
    <3> QED
      BY <1>3, <3>2, <3>7 DEF Budget, j, Hit
  <2>3. CASE mode = "crc"
    <3>1. Frame(Head(line)) /\ Restart
      BY <2>3 DEF Read
    <3>2. mode' = "magic" /\ prev' = -1 /\ MagicCost' = 0
      BY <3>1, SyncCost DEF Restart
    <3>3. Hunger = 1 /\ k \in Int /\ k <= 0
      <4>1. Hunger = 1
        BY <2>3 DEF Hunger
      <4> QED
        BY <1>2, <4>1
    <3>4. Hit(k) = 0
      <4> HIDE DEF k
      <4> QED
        BY <3>3, HitFacts
    <3>5. stats'.ok \in Nat /\ stats'.ok >= stats.ok
      <4>1. stats' = UpdateSeqStats(got[1])
            \/ stats' = [stats EXCEPT !.crc_ng = @ + 1, !.expected = -1]
        BY <3>1 DEF Frame
      <4>2. stats \in CountType /\ got[1] \in Int
        BY <2>3, GotNumber DEF Shape
      <4>3. stats'.ok = stats.ok + 1 \/ stats'.ok = stats.ok
        BY <4>1, <4>2, StatsCount
      <4> QED
        BY <1>4, <4>3
    <3>6. Loss' + MagicCost' <= Paid'
      <4>1. Loss + 0 <= Paid
        BY <1>7, <3>4 DEF k
      <4> QED
        BY <1>4, <3>2, <3>5, <4>1
    <3> QED
      BY <1>3, <3>2, <3>6 DEF Budget
  <2> QED
    BY <1>7, <2>2, <2>3 DEF Shape
<1> QED
  BY <1>5, <1>6, <1>7 DEF Budget

\* What changes neither the line nor the viewer nor the account changes no budget.
LEMMA SameBudget ==
  ASSUME Shape, Clean, Budget, Loss' = Loss,
         UNCHANGED <<line, mode, prev, got, frames, damaged>>
  PROVE  Clean' /\ Budget'
<1>1. Clean'
  BY DEF Clean, IsMagic
<1>2. Paid' = Paid
  BY DEF Paid
<1>3. FrameInAir => FrameInAir'
  <2>1. \A c, crc : InAir(c, crc) => InAir(c, crc)'
    BY DEF InAir
  <2> QED
    BY <2>1 DEF FrameInAir
<1>4. MagicCost' = MagicCost /\ Hunger' = Hunger
  BY DEF MagicCost, Hunger, IsMagic, Hit
<1> QED
  BY <1>1, <1>2, <1>3, <1>4 DEF Budget, Hit

\* Every step keeps the account.
LEMMA ResyncStep == ResyncInv /\ [Next]_vars => ResyncInv'
<1> SUFFICES ASSUME ResyncInv, [Next]_vars PROVE ResyncInv'
  OBVIOUS
<1>1. Shape /\ Shape'
  BY ShapeNext DEF ResyncInv
<1>2. frames \subseteq frames'
  BY DEF Next, SendLive, SendStored, OnLine, TakeNumber, RestartNumbers, Damage, Read,
         ReadTimeout, vars, device
<1> SUFFICES ASSUME NoMagicInside' PROVE Clean' /\ Budget'
  BY <1>1 DEF ResyncInv
<1>3. NoMagicInside /\ Clean /\ Budget
  <2>1. NoMagicInside
    BY <1>2 DEF NoMagicInside
  <2> QED
    BY <2>1 DEF ResyncInv
<1>4. sent \in Int /\ Loss \in Int
  BY <1>1, LossFacts
<1>5. ASSUME NEW n \in pending \cup old, NEW payload \in Payloads, NEW crc \in CrcBytes,
             SendLive(n, payload, crc)
      PROVE  Clean' /\ Budget'
  <2> DEFINE c == Content(n, payload)
  <2>1. n \in Byte
    BY <1>1 DEF Shape
  <2>2. c \in Seq(Byte) /\ Framed(c)
    BY <2>1, ContentBytes
  <2> HIDE DEF c
  <2>3. /\ line = << >> /\ line' = Cells(c, crc) /\ c \in frames' /\ sent' = sent + 1
        /\ UNCHANGED <<mode, prev, got, stats, damaged>>
    BY <1>5 DEF SendLive, OnLine, viewer, c
  <2>4. \A i \in 2 .. Len(c) : c[i] \notin {MAGIC0, MAGIC1}
    BY <2>3 DEF NoMagicInside
  <2> QED
    BY <1>1, <1>3, <2>2, <2>3, <2>4, SendBudget
<1>6. ASSUME NEW c \in stored, NEW crc \in CrcBytes, SendStored(c, crc)
      PROVE  Clean' /\ Budget'
  <2>1. c \in Seq(Byte) /\ Framed(c) /\ c \in frames
    BY <1>1 DEF Shape
  <2>2. /\ line = << >> /\ line' = Cells(c, crc) /\ c \in frames' /\ sent' = sent + 1
        /\ UNCHANGED <<mode, prev, got, stats, damaged>>
    BY <1>6 DEF SendStored, OnLine, viewer
  <2>3. \A i \in 2 .. Len(c) : c[i] \notin {MAGIC0, MAGIC1}
    BY <1>3, <2>1 DEF NoMagicInside
  <2> QED
    BY <1>1, <1>3, <2>1, <2>2, <2>3, SendBudget
<1>7. CASE TakeNumber \/ RestartNumbers
  <2>1. UNCHANGED <<frames, sent, line, mode, prev, got, stats, damaged>>
    BY <1>7 DEF TakeNumber, RestartNumbers, viewer
  <2>2. Loss' = Loss
    BY <2>1 DEF Loss
  <2> QED
    BY <1>1, <1>3, <2>1, <2>2, SameBudget
<1>8. CASE Damage
  BY <1>1, <1>3, <1>8, DamageBudget
<1>9. CASE Read
  BY <1>1, <1>3, <1>9, ReadBudget
<1>10. CASE ReadTimeout
  <2>1. /\ line = << >> /\ line' = << >> /\ mode' = "magic" /\ prev' = -1
        /\ UNCHANGED <<seq, pending, old, stored, frames, sent, stats, damaged>>
    BY <1>10 DEF ReadTimeout, Restart, device, numbers
  <2>2. Clean'
    BY <2>1 DEF Clean
  <2>3. MagicCost' = 0
    BY <1>1, <2>1, MagicCostNext
  <2>4. Loss' = Loss /\ Paid' = Paid /\ Paid \in Int
    BY <1>1, <2>1, LossFacts DEF Loss, Paid
  <2>5. Loss <= Paid
    <3>1. CASE mode = "magic" /\ Loss <= Paid
      BY <3>1
    <3>2. CASE mode # "magic" /\ Loss + Hit(Hunger) <= Paid
      <4>1. Hit(Hunger) \in Nat
        BY <1>1, <3>2, HungerFacts, HitFacts
      <4> QED
        BY <1>4, <2>4, <3>2, <4>1
    <3> QED
      BY <1>1, <1>3, <2>1, <3>1, <3>2, SilentBudget
  <2>6. Loss' + MagicCost' <= Paid'
    BY <1>4, <2>3, <2>4, <2>5
  <2> QED
    BY <2>1, <2>2, <2>6 DEF Budget
<1>11. CASE UNCHANGED vars
  <2>1. UNCHANGED <<seq, pending, old, stored, frames, sent, line, mode, prev, got, stats, damaged>>
    BY <1>11 DEF vars, device, numbers, viewer
  <2>2. Loss' = Loss
    BY <2>1 DEF Loss
  <2> QED
    BY <1>1, <1>3, <2>1, <2>2, SameBudget
<1> QED
  BY <1>5, <1>6, <1>7, <1>8, <1>9, <1>10, <1>11 DEF Next

\* A damaged byte costs a bounded number of frames, whatever the payloads, the checksums,
\* the damage and the dumps are: the viewer finds its place again.
THEOREM ResyncCostsFew == Spec => []DamageCostsFew
<1>1. Init => ResyncInv
  <2> SUFFICES ASSUME Init PROVE ResyncInv
    OBVIOUS
  <2>1. /\ seq = 0 /\ pending = {} /\ old = {} /\ stored = {} /\ frames = {} /\ sent = 0
        /\ line = << >> /\ damaged = 0
        /\ mode = "magic" /\ prev = -1 /\ got = << >> /\ stats = NoStats
    BY DEF Init
  <2>3. NoStats \in CountType /\ NoStats.ok = 0
    BY DEF NoStats, CountType
  <2>4. line \in Seq(CellType) /\ got \in Seq(Byte)
    BY <2>1
  <2>5. Shape
    BY <2>1, <2>3, <2>4 DEF Shape
  <2>6. Clean
    BY <2>1 DEF Clean
  <2>7. MagicCost = 0
    BY <2>1, <2>5, MagicCostFacts
  <2>8. Loss = 0 /\ Paid = 0
    BY <2>1, <2>3, FramesFacts DEF Loss, Paid
  <2>9. Budget
    BY <2>1, <2>7, <2>8 DEF Budget
  <2> QED
    BY <2>5, <2>6, <2>9 DEF ResyncInv
<1>2. ResyncInv => DamageCostsFew
  <2> SUFFICES ASSUME ResyncInv, Quiet, NoMagicInside PROVE Loss <= Paid
    BY DEF DamageCostsFew, Loss, Paid
  <2> QED
    BY SilentBudget DEF ResyncInv, Quiet
<1> QED
  BY <1>1, <1>2, ResyncStep, PTL DEF Spec
=============================================================================
