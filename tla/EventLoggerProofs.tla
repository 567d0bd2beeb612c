-------------------------- MODULE EventLoggerProofs --------------------------
(***************************************************************************)
(* Proofs about EventLogger: no event is lost uncounted, the order and the *)
(* numbers of the events in flash, and the dump, for any number of tasks,  *)
(* any length of the queue, and any number of events and resets.           *)
(***************************************************************************)
EXTENDS EventLogger, TLAPS, SequenceTheorems, FiniteSetTheorems, WellFoundedInduction

Event == [seq : Nat, age : Nat, by : Producers]

LoggerTypes ==
    /\ late \subseteq Producers
    /\ taken \in [Producers -> Event \cup {NoEvent}]
    /\ seq \in Nat /\ made \in Nat /\ booted \in Nat
    /\ queue \in Seq(Event)
    /\ logger \in {"off", "receive", "lock", "io"}
    /\ hand \in Event \cup {NoEvent}
    /\ command \in {"sleep", "lock", "erase", "reset"}
    /\ store \in [frames : Seq(Event), oldest : Nat, newest_seq : Nat]
    /\ drop_count \in Nat /\ tx_count \in Nat /\ counted_twice \in Nat

\* The logger has an event in hand from receive() until append() is through.
HandInv == hand # NoEvent <=> logger \in {"lock", "io"}

\* Every event made since the reset is somewhere, or counted.
CountInv ==
    made - booted =
        Cardinality(Pending) + Len(queue) + (IF hand = NoEvent THEN 0 ELSE 1)
        + tx_count + (drop_count - counted_twice)

\* Once a quiet erase is given nothing can move: no task may log, and none has begun to.
QuietInv ==
    quiet_erase =>
        /\ paused /\ late = {} /\ ~ EventsUnderWay
        /\ command \in {"lock", "erase", "reset"}
        /\ command = "reset" => store.frames = << >>

-----------------------------------------------------------------------------
(* The way of the events: flash, hand, queue, tasks.                        *)

Members(s) == {s[i] : i \in DOMAIN s}
InHand == {hand} \ {NoEvent}
InTasks == {taken[p] : p \in Producers} \ {NoEvent}
Events == Members(store.frames) \cup InHand \cup Members(queue) \cup InTasks

Clean == ~ overtaken /\ ~ raced

\* An event that is further on its way than another: it is older if one task made both,
\* or if no event was overtaken, and its number is smaller then, and at any rate
\* another one as long as the numbers did not restart in between.
Precedes(e, f) ==
    /\ e.by = f.by => e.age < f.age
    /\ ~ raced => e.seq # f.seq
    /\ Clean => e.age < f.age /\ e.seq < f.seq
Order == {ef \in Event \X Event : Precedes(ef[1], ef[2])}

Sorted(s, R) == \A i, j \in DOMAIN s : i < j => <<s[i], s[j]>> \in R
Ahead(E, F, R) == \A e \in E, f \in F : <<e, f>> \in R

Way(frames, H, Q, T, R) ==
    /\ Sorted(frames, R) /\ Sorted(Q, R)
    /\ Ahead(Members(frames), H \cup Members(Q) \cup T, R)
    /\ Ahead(H, Members(Q) \cup T, R)
    /\ Ahead(Members(Q), T, R)
WayInv == Way(store.frames, InHand, queue, InTasks, Order)

\* The tasks may have made their events in any order; each has its own.
TasksInv ==
    /\ \A p \in Pending : taken[p].by = p
    /\ \A p, q \in Pending : p # q =>
        /\ taken[p].age # taken[q].age
        /\ ~ raced => taken[p].seq # taken[q].seq
        /\ ~ raced /\ taken[p].age < taken[q].age => taken[p].seq < taken[q].seq

\* What is made next is younger than all, with a number above all.
MadeInv ==
    /\ \A e \in Events : e.age <= made
    /\ Up /\ ~ raced => \A e \in Events : e.seq < seq
    /\ logger = "off" => Pending = {} /\ queue = << >> /\ hand = NoEvent

\* The index of a log in order: what Rebuilt finds is what appending keeps.
IndexInv ==
    /\ Clean \/ (command = "reset" /\ store.frames = << >>) => store.oldest = 1
    /\ Clean /\ store.frames # << >> =>
        store.newest_seq = store.frames[Len(store.frames)].seq

LoggerInv ==
    /\ LoggerTypes /\ HandInv /\ CountInv /\ QuietInv
    /\ WayInv /\ TasksInv /\ MadeInv /\ IndexInv

-----------------------------------------------------------------------------
(* Numbers and sequences.                                                  *)

\* The least element of a set of numbers, which stands in for induction.
LEMMA NatMin ==
  ASSUME NEW T, T \subseteq Nat, T # {}
  PROVE  \E x \in T : \A y \in T : x <= y
<1> DEFINE R == {ss \in Nat \X Nat : ss[1] < ss[2]}
<1>1. IsWellFoundedOn(R, Nat)
  BY NatLessThanWellFounded DEF OpToRel
<1>2. PICK x \in T : \A y \in T : ~ (<<y, x>> \in R)
  <2> HIDE DEF R
  <2> QED
    BY <1>1, WFMin, Zenon
<1>3. ASSUME NEW y \in T PROVE x <= y
  <2>1. <<y, x>> \in Nat \X Nat /\ ~ (<<y, x>> \in R)
    BY <1>2
  <2> QED
    BY <2>1
<1> QED
  BY <1>3

\* Finitely many numbers have a bound.
LEMMA NumbersBounded ==
  ASSUME NEW n \in Nat, NEW f \in [1 .. n -> Nat]
  PROVE  \E b \in Nat : \A i \in 1 .. n : f[i] <= b
<1> DEFINE T == {m \in 0 .. n : ~ \E b \in Nat : \A i \in 1 .. m : f[i] <= b}
<1>1. ASSUME T # {} PROVE FALSE
  <2>1. T \subseteq Nat
    OBVIOUS
  <2>2. PICK m \in T : \A k \in T : m <= k
    <3> HIDE DEF T
    <3> QED
      BY <1>1, <2>1, NatMin
  <2>3. m \in 0 .. n /\ ~ \E b \in Nat : \A i \in 1 .. m : f[i] <= b
    BY <2>2
  <2>4. m # 0
    BY <2>3
  <2>5. m - 1 \in 0 .. n /\ m - 1 \notin T
    <3> HIDE DEF T
    <3> QED
      BY <2>1, <2>2, <2>3, <2>4
  <2>6. PICK b \in Nat : \A i \in 1 .. m - 1 : f[i] <= b
    BY <2>5
  <2>7. f[m] \in Nat
    BY <2>3, <2>4
  <2>8. \A i \in 1 .. m : f[i] <= b + f[m]
    BY <2>3, <2>6, <2>7
  <2> QED
    BY <2>3, <2>7, <2>8
<1>2. n \in 0 .. n /\ n \notin T
  <2> HIDE DEF T
  <2> QED
    BY <1>1
<1> QED
  BY <1>2

LEMMA EventFields ==
  ASSUME NEW s \in Seq(Event)
  PROVE  \A i \in 1 .. Len(s) : s[i] \in Event /\ s[i].seq \in Nat /\ s[i].age \in Nat
<1>1. \A i \in 1 .. Len(s) : s[i] \in Event
  OBVIOUS
<1> QED
  BY <1>1 DEF Event

\* rebuildIndexFromFlash finds the frames with the least and the greatest number.
LEMMA RebuiltFinds ==
  ASSUME NEW s \in Seq(Event), s # << >>
  PROVE  /\ Rebuilt(s).oldest \in DOMAIN s
         /\ \A j \in DOMAIN s : s[Rebuilt(s).oldest].seq <= s[j].seq
         /\ \E i \in DOMAIN s : Rebuilt(s).newest_seq = s[i].seq
         /\ \A j \in DOMAIN s : s[j].seq <= Rebuilt(s).newest_seq
<1> DEFINE n == Len(s)
           f == [i \in 1 .. n |-> s[i].seq]
           N == {f[i] : i \in 1 .. n}
<1>1. n \in Nat /\ n # 0 /\ DOMAIN s = 1 .. n /\ f \in [1 .. n -> Nat]
  BY EventFields
<1> HIDE DEF n
<1>2. \E i \in 1 .. n : \A j \in 1 .. n : s[i].seq <= s[j].seq
  <2>1. N \subseteq Nat /\ N # {}
    BY <1>1
  <2>2. PICK x \in N : \A y \in N : x <= y
    <3> HIDE DEF N
    <3> QED
      BY <2>1, NatMin
  <2> QED
    BY <2>2
<1>3. \E k \in 1 .. n : \A j \in 1 .. n : s[j].seq <= s[k].seq
  <2>1. PICK b \in Nat : \A i \in 1 .. n : f[i] <= b
    <3> HIDE DEF f
    <3> QED
      BY <1>1, NumbersBounded
  <2> DEFINE D == {b - f[i] : i \in 1 .. n}
  <2>2. D \subseteq Nat /\ D # {}
    <3>1. \A i \in 1 .. n : b - f[i] \in Nat
      <4> HIDE DEF f
      <4> QED
        BY <1>1, <2>1
    <3> QED
      BY <1>1, <3>1
  <2>3. PICK d \in D : \A y \in D : d <= y
    <3> HIDE DEF D
    <3> QED
      BY <2>2, NatMin
  <2>4. PICK k \in 1 .. n : d = b - f[k]
    OBVIOUS
  <2>5. \A j \in 1 .. n : f[j] <= f[k]
    <3>1. \A j \in 1 .. n : f[j] \in Nat /\ b - f[j] \in D
      BY <1>1
    <3>2. \A j \in 1 .. n : b - f[k] <= b - f[j]
      <4> HIDE DEF D, f
      <4> QED
        BY <2>3, <2>4, <3>1
    <3> HIDE DEF D, f
    <3> QED
      BY <3>1, <3>2
  <2> QED
    BY <2>5
<1>4. \E e \in Members(s) : \A j \in DOMAIN s : s[j].seq <= e.seq
  BY <1>1, <1>3 DEF Members
<1>5. Rebuilt(s).oldest = CHOOSE i \in DOMAIN s : \A j \in DOMAIN s : s[i].seq <= s[j].seq
  BY DEF Rebuilt
<1>6. Rebuilt(s).newest_seq = (CHOOSE e \in Members(s) : \A j \in DOMAIN s : s[j].seq <= e.seq).seq
  BY DEF Rebuilt, Members
<1>7. \E e \in Members(s) : Rebuilt(s).newest_seq = e.seq /\ \A j \in DOMAIN s : s[j].seq <= e.seq
  BY <1>4, <1>6, Zenon
<1> QED
  BY <1>1, <1>2, <1>5, <1>7 DEF Members

LEMMA RebuiltType ==
  ASSUME NEW s \in Seq(Event)
  PROVE  /\ Rebuilt(s) \in [frames : Seq(Event), oldest : Nat, newest_seq : Nat]
         /\ Rebuilt(s).frames = s
<1>1. CASE s = << >>
  BY <1>1 DEF Rebuilt
<1>2. CASE s # << >>
  <2>1. Rebuilt(s).oldest \in Nat /\ Rebuilt(s).newest_seq \in Nat
    <3>1. DOMAIN s = 1 .. Len(s) /\ Len(s) \in Nat
      OBVIOUS
    <3> QED
      BY <1>2, <3>1, RebuiltFinds, EventFields
  <2> QED
    BY <1>2, <2>1 DEF Rebuilt
<1> QED
  BY <1>1, <1>2

-----------------------------------------------------------------------------
(* Types.                                                                  *)

USE DEF tasks, stats, history

LEMMA NoEventIsNone == NoEvent \notin Event /\ NoEvent.seq = -1
  BY DEF NoEvent, Event

LEMMA ErasedFields ==
  ASSUME LoggerTypes, NEW n \in 0 .. Len(store.frames)
  PROVE  /\ ErasedUpTo(n).frames = SubSeq(store.frames, n + 1, Len(store.frames))
         /\ ErasedUpTo(n).oldest = IF store.oldest > n THEN store.oldest - n ELSE 1
         /\ ErasedUpTo(n).newest_seq = store.newest_seq
  BY DEF LoggerTypes, ErasedUpTo

LEMMA TypesInit == Init => LoggerTypes
<1> SUFFICES ASSUME Init PROVE LoggerTypes
  OBVIOUS
<1>1. << >> \in Seq(Event)
  OBVIOUS
<1>2. store \in [frames : Seq(Event), oldest : Nat, newest_seq : Nat]
  BY <1>1, RebuiltType DEF Init
<1> QED
  BY <1>1, <1>2 DEF Init, LoggerTypes

LEMMA TypesNext ==
  ASSUME LoggerTypes, HandInv, [Next]_vars
  PROVE  LoggerTypes'
<1> USE DEF LoggerTypes
<1>1. ASSUME NEW p \in Producers, MakeEvent(p) PROVE LoggerTypes'
  <2>1. [seq |-> seq, age |-> made + 1, by |-> p] \in Event
    BY DEF Event
  <2> QED
    BY <1>1, <2>1 DEF MakeEvent
<1>2. ASSUME NEW p \in Producers, LogEvent(p) PROVE LoggerTypes'
  <2>1. taken[p] \in Event
    BY <1>2 DEF LogEvent, Pending
  <2>2. Append(queue, taken[p]) \in Seq(Event)
    BY <2>1
  <2>3. taken' \in [Producers -> Event \cup {NoEvent}] /\ queue' \in Seq(Event)
    BY <1>2, <2>2 DEF LogEvent, SendToQueue
  <2> QED
    BY <1>2, <2>3 DEF LogEvent
<1>3. CASE SendFrame
  <2>1. Head(queue) \in Event /\ Tail(queue) \in Seq(Event)
    BY <1>3, HeadTailProperties DEF SendFrame
  <2> QED
    BY <1>3, <2>1 DEF SendFrame, UartDrop
<1>4. ASSUME AppendDone, logger \in {"lock", "io"} PROVE LoggerTypes'
  <2>1. hand \in Event
    BY <1>4 DEF HandInv
  <2>2. Append(store.frames, hand) \in Seq(Event) /\ hand.seq \in Nat
    BY <2>1 DEF Event
  <2>3. Appended(hand) \in [frames : Seq(Event), oldest : Nat, newest_seq : Nat]
    BY <2>2 DEF Appended
  <2>4. Rebuilt(store.frames) \in [frames : Seq(Event), oldest : Nat, newest_seq : Nat]
    BY RebuiltType
  <2> QED
    BY <1>4, <2>3, <2>4 DEF AppendDone
<1>5. CASE AppendFrame \/ AppendResumes
  BY <1>4, <1>5 DEF AppendFrame, AppendResumes
<1>6. CASE AppendWaits \/ Pause \/ Resume \/ EraseCommand \/ EraseStart \/ SetNextSeq
  BY <1>6 DEF AppendWaits, Pause, Resume, EraseCommand, EraseStart, SetNextSeq
<1>7. CASE EraseEnd
  <2>1. << >> \in Seq(Event)
    OBVIOUS
  <2>2. Rebuilt(<< >>) \in [frames : Seq(Event), oldest : Nat, newest_seq : Nat]
    BY <2>1, RebuiltType
  <2>3. ASSUME NEW n \in 0 .. Len(store.frames)
        PROVE  ErasedUpTo(n) \in [frames : Seq(Event), oldest : Nat, newest_seq : Nat]
    <3>1. SubSeq(store.frames, n + 1, Len(store.frames)) \in Seq(Event)
      BY SubSeqProperties
    <3>2. n \in Nat /\ store.oldest \in Nat
      OBVIOUS
    <3>3. (IF store.oldest > n THEN store.oldest - n ELSE 1) \in Nat
      BY <3>2
    <3> QED
      BY <3>1, <3>3 DEF ErasedUpTo
  <2> QED
    BY <1>7, <2>2, <2>3 DEF EraseEnd
<1>8. CASE Crash
  BY <1>8 DEF Crash
<1>9. CASE Boot
  <2>1. Rebuilt(store.frames) \in [frames : Seq(Event), oldest : Nat, newest_seq : Nat]
    BY RebuiltType
  <2>2. RestoredSeq \in Nat
    BY <2>1 DEF RestoredSeq
  <2> QED
    BY <1>9, <2>1, <2>2 DEF Boot
<1>10. CASE UNCHANGED vars
  BY <1>10 DEF vars
<1> QED
  BY <1>1, <1>2, <1>3, <1>5, <1>6, <1>7, <1>8, <1>9, <1>10 DEF Next, Logger

-----------------------------------------------------------------------------
(* What is in the hands of the logger, and the counts.                      *)

LEMMA HandNext ==
  ASSUME LoggerTypes, HandInv, [Next]_vars
  PROVE  HandInv'
<1> USE DEF HandInv
<1>1. CASE SendFrame
  <2>1. Head(queue) # NoEvent
    BY <1>1, HeadTailProperties, NoEventIsNone DEF LoggerTypes, SendFrame
  <2> QED
    BY <1>1, <2>1 DEF SendFrame
<1>2. CASE AppendFrame \/ AppendResumes
  BY <1>2 DEF AppendFrame, AppendResumes, AppendDone
<1>3. CASE AppendWaits
  BY <1>3 DEF AppendWaits
<1>4. CASE Crash \/ Boot
  BY <1>4 DEF Crash, Boot
<1>5. CASE \/ \E p \in Producers : MakeEvent(p) \/ LogEvent(p)
           \/ Pause \/ Resume \/ EraseCommand \/ EraseStart \/ EraseEnd \/ SetNextSeq
           \/ UNCHANGED vars
  BY <1>5 DEF MakeEvent, LogEvent, Pause, Resume, EraseCommand, EraseStart, EraseEnd,
              SetNextSeq, vars
<1> QED
  BY <1>1, <1>2, <1>3, <1>4, <1>5 DEF Next, Logger

\* Only the tasks' own steps and a reset change who has an event to queue.
LEMMA PendingOne ==
  ASSUME LoggerTypes, NEW p \in Producers, NEW e,
         taken' = [taken EXCEPT ![p] = e]
  PROVE  Pending' = IF e = NoEvent THEN Pending \ {p} ELSE Pending \cup {p}
  BY DEF LoggerTypes, Pending

LEMMA PendingCount == IsFiniteSet(Pending) /\ Cardinality(Pending) \in Nat
  BY LoggerAssumption, FS_Subset, FS_CardinalityType DEF Pending

LEMMA CountInit == Init => CountInv
<1> SUFFICES ASSUME Init PROVE CountInv
  OBVIOUS
<1>1. Pending = {} /\ Len(queue) = 0 /\ hand = NoEvent
  BY DEF Init, Pending
<1> QED
  BY <1>1, FS_EmptySet DEF Init, CountInv

LEMMA CountNext ==
  ASSUME LoggerTypes, HandInv, CountInv, [Next]_vars
  PROVE  CountInv'
<1> USE DEF LoggerTypes, CountInv
<1>1. /\ Cardinality(Pending) \in Nat /\ Len(queue) \in Nat
      /\ made \in Nat /\ booted \in Nat
      /\ tx_count \in Nat /\ drop_count \in Nat /\ counted_twice \in Nat
  BY PendingCount
<1>2. ASSUME NEW p \in Producers, MakeEvent(p) PROVE CountInv'
  <2>1. p \notin Pending /\ Pending' = Pending \cup {p}
    <3>1. [seq |-> seq, age |-> made + 1, by |-> p] # NoEvent
      BY NoEventIsNone DEF NoEvent
    <3> QED
      BY <1>2, <3>1, PendingOne DEF MakeEvent, Pending
  <2>2. Cardinality(Pending') = Cardinality(Pending) + 1
    BY <2>1, PendingCount, FS_AddElement
  <2>3. /\ made' = made + 1 /\ booted' = booted /\ queue' = queue /\ hand' = hand
        /\ tx_count' = tx_count /\ drop_count' = drop_count /\ counted_twice' = counted_twice
    BY <1>2 DEF MakeEvent
  <2> HIDE DEF LoggerTypes
  <2> QED
    BY <1>1, <2>2, <2>3
<1>3. ASSUME NEW p \in Producers, LogEvent(p) PROVE CountInv'
  <2>1. p \in Pending /\ Pending' = Pending \ {p}
    BY <1>3, PendingOne DEF LogEvent
  <2>2. Cardinality(Pending') = Cardinality(Pending) - 1
    BY <2>1, PendingCount, FS_RemoveElement
  <2>3. Len(Append(queue, taken[p])) = Len(queue) + 1
    BY AppendProperties
  <2>4. \/ Len(queue') = Len(queue) + 1 /\ drop_count' = drop_count
        \/ Len(queue') = Len(queue) /\ drop_count' = drop_count + 1
    BY <1>3, <2>3 DEF LogEvent, SendToQueue
  <2>5. /\ made' = made /\ booted' = booted /\ hand' = hand
        /\ tx_count' = tx_count /\ counted_twice' = counted_twice
    BY <1>3 DEF LogEvent
  <2> HIDE DEF LoggerTypes
  <2>6. CASE Len(queue') = Len(queue) + 1 /\ drop_count' = drop_count
    BY <1>1, <2>2, <2>5, <2>6
  <2>7. CASE Len(queue') = Len(queue) /\ drop_count' = drop_count + 1
    BY <1>1, <2>2, <2>5, <2>7
  <2> QED
    BY <2>4, <2>6, <2>7
<1>4. CASE SendFrame
  <2>1. Len(Tail(queue)) = Len(queue) - 1 /\ Head(queue) # NoEvent
    BY <1>4, HeadTailProperties, NoEventIsNone DEF SendFrame
  <2>2. hand = NoEvent
    BY <1>4 DEF SendFrame, HandInv
  <2> QED
    BY <1>1, <1>4, <2>1, <2>2 DEF SendFrame, UartDrop, Pending
<1>5. CASE AppendFrame \/ AppendResumes
  <2>1. hand # NoEvent /\ AppendDone
    BY <1>5 DEF AppendFrame, AppendResumes, HandInv
  <2> QED
    BY <1>1, <2>1 DEF AppendDone, Pending
<1>6. CASE AppendWaits \/ Pause \/ Resume \/ EraseCommand \/ EraseStart \/ EraseEnd
           \/ SetNextSeq \/ Boot \/ UNCHANGED vars
  BY <1>6 DEF AppendWaits, Pause, Resume, EraseCommand, EraseStart, EraseEnd,
              SetNextSeq, Boot, vars, Pending
<1>7. CASE Crash
  <2>1. Pending' = {} /\ Len(queue') = 0 /\ hand' = NoEvent
    BY <1>7 DEF Crash, Pending
  <2> QED
    BY <1>7, <2>1, FS_EmptySet DEF Crash
<1> QED
  BY <1>2, <1>3, <1>4, <1>5, <1>6, <1>7 DEF Next, Logger

-----------------------------------------------------------------------------
(* The erase of an operator who waited.                                    *)

LEMMA QuietNext ==
  ASSUME LoggerTypes, HandInv, QuietInv, [Next]_vars
  PROVE  QuietInv'
<1> USE DEF LoggerTypes, QuietInv, EventsUnderWay, Pending
<1>1. CASE ~ quiet_erase'
  BY <1>1
<1>2. CASE quiet_erase /\ quiet_erase'
  <2>1. ~ \E p \in Producers : MakeEvent(p) \/ LogEvent(p)
    BY <1>2 DEF MakeEvent, MayLog, LogEvent
  <2>2. ~ Logger /\ ~ AppendResumes
    BY <1>2 DEF Logger, SendFrame, AppendFrame, AppendWaits, AppendResumes, HandInv
  <2>3. ~ (Pause \/ Resume \/ EraseCommand \/ SetNextSeq \/ Crash)
    BY <1>2 DEF Pause, Resume, EraseCommand, SetNextSeq, Crash
  <2>4. CASE EraseEnd
    <3>1. Rebuilt(<< >>).frames = << >>
      BY DEF Rebuilt
    <3> QED
      BY <1>2, <2>4, <3>1 DEF EraseEnd
  <2>5. CASE Boot
    BY <1>2, <2>5, RebuiltType DEF Boot
  <2>6. CASE EraseStart \/ UNCHANGED vars
    BY <1>2, <2>6 DEF EraseStart, vars
  <2> QED
    BY <2>1, <2>2, <2>3, <2>4, <2>5, <2>6 DEF Next
<1>3. CASE ~ quiet_erase /\ quiet_erase'
  <2>1. EraseCommand
    BY <1>3 DEF Next, Logger, MakeEvent, LogEvent, SendFrame, AppendFrame, AppendWaits,
                AppendResumes, AppendDone, Pause, Resume, EraseStart, EraseEnd,
                SetNextSeq, Crash, Boot, vars
  <2> QED
    BY <1>3, <2>1 DEF EraseCommand
<1> QED
  BY <1>1, <1>2, <1>3

-----------------------------------------------------------------------------
(* Sequences sorted by a relation.                                         *)

LEMMA MembersAppend ==
  ASSUME NEW S, NEW s \in Seq(S), NEW e \in S
  PROVE  Members(Append(s, e)) = Members(s) \cup {e}
<1>1. /\ Append(s, e) \in Seq(S) /\ Len(s) \in Nat /\ DOMAIN s = 1 .. Len(s)
      /\ DOMAIN Append(s, e) = 1 .. Len(s) + 1
      /\ \A i \in 1 .. Len(s) : Append(s, e)[i] = s[i]
      /\ Append(s, e)[Len(s) + 1] = e
  BY AppendProperties
<1> QED
  BY <1>1 DEF Members

LEMMA SortedAppend ==
  ASSUME NEW R, NEW S, NEW s \in Seq(S), NEW e \in S,
         Sorted(s, R), Ahead(Members(s), {e}, R)
  PROVE  Sorted(Append(s, e), R)
<1> DEFINE t == Append(s, e)
<1>1. /\ Len(s) \in Nat /\ DOMAIN s = 1 .. Len(s) /\ DOMAIN t = 1 .. Len(s) + 1
      /\ \A i \in 1 .. Len(s) : t[i] = s[i]
      /\ t[Len(s) + 1] = e
  BY AppendProperties
<1> HIDE DEF t
<1>2. ASSUME NEW i \in DOMAIN t, NEW j \in DOMAIN t, i < j
      PROVE  <<t[i], t[j]>> \in R
  <2>1. CASE j \in 1 .. Len(s)
    BY <1>1, <1>2, <2>1 DEF Sorted
  <2>2. CASE j = Len(s) + 1
    <3>1. i \in 1 .. Len(s) /\ t[i] = s[i] /\ t[j] = e
      BY <1>1, <1>2, <2>2
    <3> QED
      BY <1>1, <3>1 DEF Ahead, Members
  <2> QED
    BY <1>1, <1>2, <2>1, <2>2
<1> QED
  BY <1>2 DEF Sorted, t

LEMMA SortedTail ==
  ASSUME NEW R, NEW S, NEW s \in Seq(S), s # << >>
  PROVE  /\ Members(Tail(s)) \subseteq Members(s) /\ Head(s) \in Members(s)
         /\ Sorted(s, R) => Sorted(Tail(s), R) /\ Ahead({Head(s)}, Members(Tail(s)), R)
<1>1. /\ Len(s) \in Nat \ {0} /\ DOMAIN s = 1 .. Len(s) /\ Head(s) = s[1]
      /\ Tail(s) \in Seq(S) /\ DOMAIN Tail(s) = 1 .. Len(s) - 1
      /\ \A i \in 1 .. Len(s) - 1 : Tail(s)[i] = s[i + 1]
  BY HeadTailProperties
<1> DEFINE t == Tail(s)
<1> HIDE DEF t
<1>2. \A i \in DOMAIN t : i + 1 \in DOMAIN s /\ i + 1 # 1 /\ i + 1 > 1 /\ t[i] = s[i + 1] /\ i \in Nat
  BY <1>1 DEF t
<1>3. Members(t) \subseteq Members(s) /\ Head(s) \in Members(s)
  BY <1>1, <1>2 DEF Members
<1>4. ASSUME Sorted(s, R) PROVE Sorted(t, R) /\ Ahead({Head(s)}, Members(t), R)
  <2>1. Sorted(t, R)
    BY <1>2, <1>4 DEF Sorted
  <2>2. \A i \in DOMAIN t : <<s[1], t[i]>> \in R
    BY <1>1, <1>2, <1>4 DEF Sorted
  <2> QED
    BY <1>1, <2>1, <2>2 DEF Ahead, Members
<1> QED
  BY <1>3, <1>4 DEF t

LEMMA SortedSubSeq ==
  ASSUME NEW R, NEW S, NEW s \in Seq(S), NEW n \in 0 .. Len(s)
  PROVE  /\ Members(SubSeq(s, n + 1, Len(s))) \subseteq Members(s)
         /\ Sorted(s, R) => Sorted(SubSeq(s, n + 1, Len(s)), R)
<1> DEFINE t == SubSeq(s, n + 1, Len(s))
<1>1. /\ Len(s) \in Nat /\ DOMAIN s = 1 .. Len(s)
      /\ t \in Seq(S) /\ Len(t) = Len(s) - n
      /\ \A i \in 1 .. Len(s) - n : t[i] = s[n + i]
  BY SubSeqProperties
<1> HIDE DEF t
<1>2. DOMAIN t = 1 .. Len(s) - n
  BY <1>1, LenProperties
<1>3. \A i \in DOMAIN t : n + i \in DOMAIN s /\ t[i] = s[n + i] /\ i \in Nat
  BY <1>1, <1>2
<1>4. Members(t) \subseteq Members(s)
  BY <1>3 DEF Members
<1>5. Sorted(s, R) => Sorted(t, R)
  <2>1. n \in Nat
    BY <1>1
  <2>2. \A i, j \in DOMAIN t : i < j => n + i < n + j
    BY <1>3, <2>1
  <2> QED
    BY <1>3, <2>2 DEF Sorted
<1> QED
  BY <1>4, <1>5 DEF t

-----------------------------------------------------------------------------
(* The way of the events.                                                  *)

LEMMA EventsTyped ==
  ASSUME LoggerTypes
  PROVE  /\ Events \subseteq Event
         /\ \A e \in Events : e.age \in Nat /\ e.seq \in Nat
         /\ \A p \in Pending : taken[p] \in InTasks
<1>1. Members(queue) \subseteq Event /\ Members(store.frames) \subseteq Event
  BY DEF LoggerTypes, Members
<1>2. InHand \subseteq Event /\ InTasks \subseteq Event
  BY DEF LoggerTypes, InHand, InTasks
<1>3. Events \subseteq Event
  BY <1>1, <1>2 DEF Events
<1> QED
  BY <1>3 DEF Event, Pending, InTasks

\* The relation only loosens, except at a clean restart of the numbers, which finds
\* no events.
LEMMA OrderNext ==
  ASSUME LoggerTypes, [Next]_vars
  PROVE  \/ Order \subseteq Order'
         \/ /\ SetNextSeq /\ ~ raced' /\ Members(store.frames) = {}
            /\ InHand = {} /\ Members(queue) = {} /\ InTasks = {}
<1>1. CASE UNCHANGED raced /\ (overtaken => overtaken')
  BY <1>1 DEF Order, Precedes, Clean
<1>2. CASE SetNextSeq
  <2>1. CASE raced'
    BY <2>1 DEF Order, Precedes, Clean
  <2>2. CASE ~ raced'
    <3>1. Pending = {} /\ queue = << >> /\ hand = NoEvent /\ store.frames = << >>
      BY <1>2, <2>2 DEF SetNextSeq, EventsUnderWay
    <3> QED
      BY <1>2, <2>2, <3>1 DEF Members, InHand, InTasks, Pending
  <2> QED
    BY <2>1, <2>2
<1>3. CASE ~ SetNextSeq
  <2>1. ASSUME NEW p \in Producers, LogEvent(p)
        PROVE  UNCHANGED raced /\ (overtaken => overtaken')
    BY <2>1, Zenon DEF LogEvent
  <2>2. UNCHANGED raced /\ (overtaken => overtaken')
    BY <1>3, <2>1 DEF Next, Logger, MakeEvent, SendFrame, AppendFrame, AppendWaits,
                AppendResumes, AppendDone, Pause, Resume, EraseCommand, EraseStart, EraseEnd,
                Crash, Boot, vars
  <2> QED
    BY <1>1, <2>2
<1> QED
  BY <1>2, <1>3

\* An event goes one place further, or is lost from one.
LEMMA WayLoosens ==
  ASSUME NEW R, NEW R2, R \subseteq R2, NEW F, NEW Q,
         NEW H, NEW H2 \in SUBSET H, NEW T, NEW T2 \in SUBSET T, Way(F, H, Q, T, R)
  PROVE  Way(F, H2, Q, T2, R2)
  BY DEF Way, Sorted, Ahead

LEMMA WayMake ==
  ASSUME NEW R, NEW F, NEW Q, NEW H, NEW T, NEW e, Way(F, H, Q, T, R),
         Ahead(Members(F) \cup H \cup Members(Q), {e}, R)
  PROVE  Way(F, H, Q, T \cup {e}, R)
  BY DEF Way, Ahead

LEMMA WayQueue ==
  ASSUME NEW R, NEW S, NEW F, NEW Q \in Seq(S), NEW H, NEW T, NEW e \in T \cap S,
         NEW T2 \in SUBSET T, Way(F, H, Q, T, R), Ahead({e}, T2, R)
  PROVE  Way(F, H, Append(Q, e), T2, R)
<1>1. Ahead(Members(Q), {e}, R)
  BY DEF Way, Ahead
<1>2. Members(Append(Q, e)) = Members(Q) \cup {e} /\ Sorted(Append(Q, e), R)
  BY <1>1, SortedAppend, MembersAppend DEF Way
<1> QED
  BY <1>2 DEF Way, Ahead

LEMMA WayHand ==
  ASSUME NEW R, NEW S, NEW F, NEW Q \in Seq(S), Q # << >>, NEW T, Way(F, {}, Q, T, R)
  PROVE  Way(F, {Head(Q)}, Tail(Q), T, R) /\ Way(F, {}, Tail(Q), T, R)
<1>1. /\ Members(Tail(Q)) \subseteq Members(Q) /\ Head(Q) \in Members(Q)
      /\ Sorted(Tail(Q), R) /\ Ahead({Head(Q)}, Members(Tail(Q)), R)
  BY SortedTail DEF Way
<1> QED
  BY <1>1 DEF Way, Ahead

LEMMA WayStore ==
  ASSUME NEW R, NEW S, NEW F \in Seq(S), NEW Q, NEW h \in S, NEW T, Way(F, {h}, Q, T, R)
  PROVE  Way(Append(F, h), {}, Q, T, R)
<1>1. Ahead(Members(F), {h}, R)
  BY DEF Way, Ahead
<1>2. Members(Append(F, h)) = Members(F) \cup {h} /\ Sorted(Append(F, h), R)
  BY <1>1, SortedAppend, MembersAppend DEF Way
<1> QED
  BY <1>2 DEF Way, Ahead

LEMMA WayErase ==
  ASSUME NEW R, NEW S, NEW F \in Seq(S), NEW Q, NEW H, NEW T, Way(F, H, Q, T, R)
  PROVE  /\ Way(<< >>, H, Q, T, R)
         /\ \A n \in 0 .. Len(F) : Way(SubSeq(F, n + 1, Len(F)), H, Q, T, R)
<1>1. Members(<< >>) = {} /\ Sorted(<< >>, R)
  BY DEF Members, Sorted
<1>2. ASSUME NEW n \in 0 .. Len(F)
      PROVE  /\ Members(SubSeq(F, n + 1, Len(F))) \subseteq Members(F)
             /\ Sorted(SubSeq(F, n + 1, Len(F)), R)
  BY SortedSubSeq DEF Way
<1> QED
  BY <1>1, <1>2 DEF Way, Ahead

LEMMA WayEmpty == ASSUME NEW R PROVE Way(<< >>, {}, << >>, {}, R)
  BY DEF Way, Sorted, Ahead, Members

LEMMA WayInit == Init => WayInv /\ TasksInv /\ MadeInv
<1> SUFFICES ASSUME Init PROVE WayInv /\ TasksInv /\ MadeInv
  OBVIOUS
<1>1. Pending = {} /\ InHand = {} /\ InTasks = {} /\ queue = << >> /\ hand = NoEvent
  BY DEF Init, Pending, InHand, InTasks
<1>2. store.frames = << >>
  BY DEF Init, Rebuilt
<1>3. Events = {}
  BY <1>1, <1>2 DEF Events, Members
<1> QED
  BY <1>1, <1>2, <1>3, WayEmpty DEF WayInv, TasksInv, MadeInv

\* What a task makes comes behind everything that has left its task.
LEMMA WayMakeEvent ==
  ASSUME LoggerTypes, WayInv, MadeInv, NEW p \in Producers, MakeEvent(p), Order \subseteq Order'
  PROVE  WayInv'
<1> DEFINE e == [seq |-> seq, age |-> made + 1, by |-> p]
           before == Members(store.frames) \cup InHand \cup Members(queue)
<1>1. e \in Event
  BY DEF LoggerTypes, Event
<1>2. Ahead(before, {e}, Order)
  <2> SUFFICES ASSUME NEW x \in before PROVE <<x, e>> \in Order
    BY DEF Ahead
  <2>1. x \in Events
    BY DEF Events
  <2>2. x \in Event /\ x.age \in Nat /\ x.seq \in Nat /\ x.age <= made
    BY <2>1, EventsTyped DEF MadeInv
  <2>3. ~ raced => x.seq < seq
    BY <2>1 DEF MadeInv, MakeEvent, ProducerRuns
  <2>4. made \in Nat /\ seq \in Nat
    BY DEF LoggerTypes
  <2> QED
    BY <1>1, <2>2, <2>3, <2>4 DEF Order, Precedes, Clean
<1>3. Way(store.frames, InHand, queue, InTasks \cup {e}, Order)
  BY <1>2, WayMake DEF WayInv
<1>4. InTasks' \subseteq InTasks \cup {e}
  BY DEF MakeEvent, InTasks, LoggerTypes
<1>5. store.frames' = store.frames /\ InHand' = InHand /\ queue' = queue
  BY DEF MakeEvent, InHand
<1> QED
  BY <1>3, <1>4, <1>5, WayLoosens DEF WayInv

\* What a task queues gets behind the queue, and before what the other tasks have made
\* unless it overtakes one of these.
LEMMA WayLogEvent ==
  ASSUME LoggerTypes, WayInv, TasksInv, NEW p \in Producers, LogEvent(p),
         Order \subseteq Order'
  PROVE  WayInv'
<1>0. PICK e : e = taken[p]
  OBVIOUS
<1>1. e \in Event /\ e \in InTasks /\ p \in Pending
  BY <1>0 DEF LoggerTypes, InTasks, LogEvent, Pending
<1>2. ASSUME NEW f \in InTasks'
      PROVE  \E q \in Pending \ {p} : f = taken[q]
  BY <1>2 DEF InTasks, LogEvent, Pending, LoggerTypes
<1>3. InTasks' \subseteq InTasks
  BY <1>2 DEF InTasks, Pending
<1>4. store.frames' = store.frames /\ InHand' = InHand /\ Way(store.frames, InHand, queue, InTasks, Order')
  BY WayLoosens DEF LogEvent, InHand, WayInv
<1>5. CASE Len(queue) < QueueLength
  <2>1. queue' = Append(queue, e) /\ queue \in Seq(Event)
        /\ overtaken' = (overtaken \/ \E q \in Pending : taken[q].age < e.age)
        /\ raced' = raced
    BY <1>0, <1>5 DEF LogEvent, SendToQueue, LoggerTypes
  <2>2. Ahead({e}, InTasks', Order')
    <3> SUFFICES ASSUME NEW f \in InTasks' PROVE <<e, f>> \in Order'
      BY DEF Ahead
    <3>1. PICK q \in Pending \ {p} : f = taken[q]
      BY <1>2
    <3>2. f \in Event /\ f.age \in Nat /\ e.age \in Nat
      BY <1>1, <3>1, EventsTyped DEF Events
    <3>3. e.by # f.by /\ e.age # f.age /\ (~ raced => e.seq # f.seq)
      BY <1>0, <1>1, <3>1 DEF TasksInv
    <3>4. ~ overtaken' => ~ f.age < e.age
      BY <2>1, <3>1, Zenon
    <3>5. ~ raced /\ e.age < f.age => e.seq < f.seq
      BY <1>0, <1>1, <3>1 DEF TasksInv
    <3>6. Precedes(e, f)'
      BY <2>1, <3>2, <3>3, <3>4, <3>5 DEF Precedes, Clean
    <3> QED
      BY <1>1, <3>2, <3>6 DEF Order
  <2>3. Way(store.frames, InHand, Append(queue, e), InTasks', Order')
    BY <1>1, <1>3, <1>4, <2>1, <2>2, WayQueue
  <2> QED
    BY <1>4, <2>1, <2>3 DEF WayInv
<1>6. CASE ~ Len(queue) < QueueLength
  <2>1. queue' = queue
    BY <1>6 DEF LogEvent
  <2> QED
    BY <1>3, <1>4, <2>1, WayLoosens DEF WayInv
<1> QED
  BY <1>5, <1>6

LEMMA WayNext ==
  ASSUME LoggerTypes, HandInv, WayInv, TasksInv, MadeInv, [Next]_vars
  PROVE  WayInv'
<1> USE DEF LoggerTypes
<1>1. CASE ~ Order \subseteq Order'
  <2>1. /\ SetNextSeq /\ Members(store.frames) = {}
        /\ InHand = {} /\ Members(queue) = {} /\ InTasks = {}
    BY <1>1, OrderNext
  <2>2. Way(store.frames, {}, queue, {}, Order')
    BY <2>1 DEF Way, Sorted, Ahead, Members
  <2>3. store.frames' = store.frames /\ queue' = queue /\ InHand' = {} /\ InTasks' = {}
    BY <2>1 DEF SetNextSeq, InHand, InTasks
  <2> QED
    BY <2>2, <2>3 DEF WayInv
<1>2. CASE Order \subseteq Order'
  <2>1. Way(store.frames, InHand, queue, InTasks, Order')
    BY <1>2, WayLoosens DEF WayInv
  <2>2. ASSUME NEW p \in Producers, MakeEvent(p) PROVE WayInv'
    BY <1>2, <2>2, WayMakeEvent
  <2>3. ASSUME NEW p \in Producers, LogEvent(p) PROVE WayInv'
    BY <1>2, <2>3, WayLogEvent
  <2>4. CASE SendFrame
    <3>1. hand = NoEvent /\ InHand = {} /\ queue # << >>
      BY <2>4 DEF SendFrame, HandInv, InHand
    <3>2. Way(store.frames, {Head(queue)}, Tail(queue), InTasks, Order')
          /\ Way(store.frames, {}, Tail(queue), InTasks, Order')
      BY <2>1, <3>1, WayHand
    <3>3. queue' = Tail(queue) /\ store.frames' = store.frames /\ InTasks' = InTasks
      BY <2>4 DEF SendFrame, InTasks
    <3>4. hand' = Head(queue) \/ hand' = hand
      BY <2>4 DEF SendFrame
    <3>5. InHand' \subseteq {Head(queue)}
      BY <3>1, <3>4 DEF InHand
    <3> QED
      BY <3>2, <3>3, <3>5, WayLoosens DEF WayInv
  <2>5. CASE AppendFrame \/ AppendResumes
    <3>1. hand \in Event /\ InHand = {hand} /\ AppendDone
      BY <2>5 DEF AppendFrame, AppendResumes, HandInv, InHand
    <3>2. Way(Append(store.frames, hand), {}, queue, InTasks, Order')
      BY <2>1, <3>1, WayStore
    <3>3. Way(store.frames, {}, queue, InTasks, Order')
      BY <2>1, WayLoosens
    <3>4. queue' = queue /\ InHand' = {} /\ InTasks' = InTasks
      BY <3>1 DEF AppendDone, InHand, InTasks
    <3>5. store.frames' = Append(store.frames, hand) \/ store.frames' = store.frames
      BY <3>1, RebuiltType DEF AppendDone, Appended
    <3> QED
      BY <3>2, <3>3, <3>4, <3>5 DEF WayInv
  <2>6. CASE EraseEnd
    <3>1. InHand' = InHand /\ queue' = queue /\ InTasks' = InTasks
      BY <2>6 DEF EraseEnd, InHand, InTasks
    <3>2. \/ store.frames' = << >>
          \/ \E n \in 0 .. Len(store.frames) :
                store.frames' = SubSeq(store.frames, n + 1, Len(store.frames))
      <4>1. ASSUME NEW n \in 0 .. Len(store.frames), store' = ErasedUpTo(n)
            PROVE  store.frames' = SubSeq(store.frames, n + 1, Len(store.frames))
        BY <4>1, ErasedFields
      <4>2. store' = Rebuilt(<< >>) => store.frames' = << >>
        BY DEF Rebuilt
      <4> QED
        BY <2>6, <4>1, <4>2 DEF EraseEnd
    <3>3. /\ Way(<< >>, InHand, queue, InTasks, Order')
          /\ \A n \in 0 .. Len(store.frames) :
                Way(SubSeq(store.frames, n + 1, Len(store.frames)), InHand, queue, InTasks, Order')
      BY <2>1, WayErase
    <3> QED
      BY <3>1, <3>2, <3>3 DEF WayInv
  <2>7. CASE Crash
    <3>1. InHand' = {} /\ InTasks' = {} /\ queue' = << >> /\ store.frames' = store.frames
      BY <2>7 DEF Crash, InHand, InTasks
    <3>2. Sorted(store.frames, Order')
      BY <2>1 DEF Way
    <3> QED
      BY <3>1, <3>2, WayEmpty DEF WayInv, Way, Ahead, Members
  <2>8. CASE \/ AppendWaits \/ Pause \/ Resume \/ EraseCommand \/ EraseStart \/ SetNextSeq
             \/ Boot \/ UNCHANGED vars
    <3>1. /\ InHand' = InHand /\ queue' = queue /\ InTasks' = InTasks
          /\ store.frames' = store.frames
      BY <2>8, RebuiltType DEF AppendWaits, Pause, Resume, EraseCommand, EraseStart,
              SetNextSeq, Boot, vars, InHand, InTasks
    <3> QED
      BY <2>1, <3>1 DEF WayInv
  <2> QED
    BY <2>2, <2>3, <2>4, <2>5, <2>6, <2>7, <2>8 DEF Next, Logger
<1> QED
  BY <1>1, <1>2

LEMMA TasksNext ==
  ASSUME LoggerTypes, TasksInv, MadeInv, [Next]_vars
  PROVE  TasksInv'
<1> USE DEF LoggerTypes, TasksInv
<1>1. ASSUME NEW p \in Producers, MakeEvent(p) PROVE TasksInv'
  <2>1. PICK e : e = [seq |-> seq, age |-> made + 1, by |-> p]
    OBVIOUS
  <2>2. e.by = p /\ e.age = made + 1 /\ e.seq = seq /\ e # NoEvent
    BY <2>1 DEF NoEvent
  <2>3. taken'[p] = e /\ \A q \in Producers \ {p} : taken'[q] = taken[q]
    BY <1>1, <2>1 DEF MakeEvent
  <2>4. Pending' = Pending \cup {p} /\ Pending \subseteq Producers
    BY <2>2, <2>3 DEF Pending
  <2>5. ASSUME NEW q \in Pending
        PROVE  /\ taken[q].age \in Nat /\ taken[q].seq \in Nat /\ taken[q].age <= made
               /\ ~ raced => taken[q].seq < seq
    <3>1. taken[q] \in Events
      BY EventsTyped DEF Events
    <3> QED
      BY <1>1, <3>1, EventsTyped DEF MadeInv, MakeEvent, ProducerRuns
  <2>6. raced' = raced /\ p \notin Pending
    BY <1>1 DEF MakeEvent, Pending
  <2>7. \A q \in Pending : q # p /\ taken'[q] = taken[q]
    BY <2>3, <2>4, <2>6
  <2>8. \A q \in Pending' : taken'[q].by = q
    BY <2>2, <2>3, <2>4, <2>7
  <2>9. ASSUME NEW q \in Pending', NEW r \in Pending', q # r
        PROVE  /\ taken'[q].age # taken'[r].age
               /\ ~ raced' => taken'[q].seq # taken'[r].seq
               /\ ~ raced' /\ taken'[q].age < taken'[r].age => taken'[q].seq < taken'[r].seq
    <3>1. CASE q = p
      BY <2>2, <2>3, <2>4, <2>5, <2>6, <2>7, <2>9, <3>1
    <3>2. CASE r = p
      BY <2>2, <2>3, <2>4, <2>5, <2>6, <2>7, <2>9, <3>2
    <3>3. CASE q # p /\ r # p
      BY <2>4, <2>6, <2>7, <2>9, <3>3
    <3> QED
      BY <3>1, <3>2, <3>3
  <2> QED
    BY <2>8, <2>9
<1>2. ASSUME NEW p \in Producers, LogEvent(p) PROVE TasksInv'
  BY <1>2 DEF LogEvent, Pending
<1>3. CASE SetNextSeq
  <2>1. Pending' = Pending /\ taken' = taken /\ (~ raced' => Pending = {})
    BY <1>3 DEF SetNextSeq, Pending, EventsUnderWay
  <2> QED
    BY <2>1
<1>4. CASE Crash
  BY <1>4 DEF Crash, Pending
<1>5. CASE \/ Logger \/ AppendResumes \/ Pause \/ Resume \/ EraseCommand \/ EraseStart
           \/ EraseEnd \/ Boot \/ UNCHANGED vars
  <2>1. taken' = taken /\ raced' = raced
    BY <1>5 DEF Logger, SendFrame, AppendFrame, AppendWaits, AppendResumes, AppendDone, Pause,
                Resume, EraseCommand, EraseStart, EraseEnd, Boot, vars
  <2> QED
    BY <2>1 DEF Pending
<1> QED
  BY <1>1, <1>2, <1>3, <1>4, <1>5 DEF Next

LEMMA MadeNext ==
  ASSUME LoggerTypes, HandInv, MadeInv, [Next]_vars
  PROVE  MadeInv'
<1> USE DEF LoggerTypes
<1>0. ASSUME Events' \subseteq Events, made' = made, Up' /\ ~ raced' => Up /\ ~ raced /\ seq' = seq,
             logger' = "off" => Pending' = {} /\ queue' = << >> /\ hand' = NoEvent
      PROVE  MadeInv'
  BY <1>0 DEF MadeInv
<1>1. ASSUME NEW p \in Producers, MakeEvent(p) PROVE MadeInv'
  <2>1. PICK e : e = [seq |-> seq, age |-> made + 1, by |-> p]
    OBVIOUS
  <2>2. InTasks' \subseteq InTasks \cup {e}
    BY <1>1, <2>1 DEF MakeEvent, InTasks
  <2>3. Events' \subseteq Events \cup {e}
    BY <1>1, <2>2 DEF MakeEvent, Events, InHand, Members
  <2>4. Up /\ logger' = logger /\ raced' = raced /\ made' = made + 1 /\ seq' = seq + 1
    BY <1>1 DEF MakeEvent, ProducerRuns
  <2>5. \A x \in Events : x.age \in Nat /\ x.seq \in Nat /\ x.age <= made /\ (~ raced => x.seq < seq)
    BY <2>4, EventsTyped DEF MadeInv
  <2>6. e.age = made + 1 /\ e.seq = seq
    BY <2>1
  <2> QED
    BY <2>3, <2>4, <2>5, <2>6 DEF MadeInv, Up
<1>2. ASSUME NEW p \in Producers, LogEvent(p) PROVE MadeInv'
  <2>1. taken[p] \in InTasks /\ InTasks' \subseteq InTasks /\ Up
    BY <1>2 DEF LogEvent, Pending, InTasks, ProducerRuns
  <2>2. Members(queue') \subseteq Members(queue) \cup InTasks
    <3>1. Members(Append(queue, taken[p])) = Members(queue) \cup {taken[p]}
      <4>1. taken[p] \in Event
        BY <2>1, EventsTyped DEF Events
      <4> QED
        BY <4>1, MembersAppend
    <3> QED
      BY <1>2, <2>1, <3>1 DEF LogEvent, SendToQueue
  <2>3. Events' \subseteq Events
    BY <1>2, <2>1, <2>2 DEF LogEvent, Events, InHand, Members
  <2> QED
    BY <1>0, <1>2, <2>1, <2>3 DEF LogEvent, Up
<1>3. CASE SendFrame
  <2>1. Members(Tail(queue)) \subseteq Members(queue) /\ Head(queue) \in Members(queue)
    BY <1>3, SortedTail DEF SendFrame
  <2>2. Members(queue') \subseteq Members(queue) /\ InHand' \subseteq InHand \cup Members(queue)
    BY <1>3, <2>1 DEF SendFrame, InHand
  <2>3. Events' \subseteq Events
    BY <1>3, <2>2 DEF SendFrame, Events, InTasks, Members
  <2> QED
    BY <1>0, <1>3, <2>3 DEF SendFrame, Up
<1>4. CASE AppendFrame \/ AppendResumes
  <2>1. hand \in Event /\ InHand = {hand} /\ AppendDone
    BY <1>4 DEF AppendFrame, AppendResumes, HandInv, InHand
  <2>2. store.frames' = Append(store.frames, hand) \/ store.frames' = store.frames
    BY <2>1, RebuiltType DEF AppendDone, Appended
  <2>3. Members(Append(store.frames, hand)) = Members(store.frames) \cup {hand}
    BY <2>1, MembersAppend
  <2>4. Members(store.frames') \subseteq Members(store.frames) \cup InHand
    BY <2>1, <2>2, <2>3
  <2>5. InHand' = {} /\ InTasks' = InTasks /\ Members(queue') = Members(queue)
    BY <2>1 DEF AppendDone, InHand, InTasks
  <2>6. Members(store.frames)' = Members(store.frames') /\ Members(queue)' = Members(queue')
    BY DEF Members
  <2>7. Events' \subseteq Events
    BY <2>4, <2>5, <2>6 DEF Events
  <2>8. logger # "off"
    BY <1>4 DEF AppendFrame, AppendResumes
  <2> QED
    BY <1>0, <2>1, <2>7, <2>8 DEF AppendDone, Up
<1>5. CASE EraseEnd
  <2>1. ASSUME NEW n \in 0 .. Len(store.frames), store' = ErasedUpTo(n)
        PROVE  Members(store.frames') \subseteq Members(store.frames)
    BY <2>1, ErasedFields, SortedSubSeq
  <2>2. store' = Rebuilt(<< >>) => Members(store.frames') = {}
    BY DEF Rebuilt, Members
  <2>3. Members(store.frames') \subseteq Members(store.frames)
    BY <1>5, <2>1, <2>2 DEF EraseEnd
  <2>4. Events' \subseteq Events
    BY <1>5, <2>3 DEF EraseEnd, Events, InHand, InTasks, Members
  <2> QED
    BY <1>0, <1>5, <2>4 DEF EraseEnd, MadeInv, Pending, Up
<1>6. CASE SetNextSeq
  <2>1. Events' = Events /\ made' = made /\ Up /\ logger' = logger
    BY <1>6 DEF SetNextSeq, CommandRuns, Events, InHand, InTasks, Members
  <2>2. CASE raced'
    BY <2>1, <2>2 DEF MadeInv, Up
  <2>3. CASE ~ raced'
    <3>1. Pending = {} /\ queue = << >> /\ hand = NoEvent /\ store.frames = << >>
      BY <1>6, <2>3 DEF SetNextSeq, EventsUnderWay
    <3>2. Events = {}
      BY <3>1 DEF Events, Members, InHand, InTasks, Pending
    <3> QED
      BY <2>1, <3>2 DEF MadeInv, Up
  <2> QED
    BY <2>2, <2>3
<1>7. CASE Crash
  <2>1. Pending' = {} /\ queue' = << >> /\ hand' = NoEvent /\ InHand' = {} /\ InTasks' = {}
        /\ store' = store /\ made' = made /\ logger' = "off"
    BY <1>7 DEF Crash, Pending, InHand, InTasks
  <2>2. Events' \subseteq Events
    BY <2>1 DEF Events, Members
  <2> QED
    BY <2>1, <2>2 DEF MadeInv, Up
<1>8. CASE Boot
  <2>1. Pending = {} /\ queue = << >> /\ hand = NoEvent
    BY <1>8 DEF Boot, MadeInv
  <2>2. Events = Members(store.frames) /\ Events' = Events /\ made' = made /\ Up'
    BY <1>8, <2>1, RebuiltType DEF Boot, Events, Members, InHand, InTasks, Pending, Up
  <2>3. \A x \in Events : x.seq < seq'
    <3>1. CASE store.frames = << >>
      BY <2>2, <3>1 DEF Members
    <3>2. CASE store.frames # << >>
      <4>1. seq' = Rebuilt(store.frames).newest_seq + 1 /\ Rebuilt(store.frames).newest_seq \in Nat
        BY <1>8, <3>2, RebuiltType DEF Boot, RestoredSeq
      <4>2. \A j \in DOMAIN store.frames : store.frames[j].seq <= Rebuilt(store.frames).newest_seq
        BY <3>2, RebuiltFinds
      <4>3. \A x \in Events : x.seq \in Nat /\ x.seq <= Rebuilt(store.frames).newest_seq
        BY <2>2, <4>2, EventsTyped DEF Members
      <4> QED
        BY <4>1, <4>3
    <3> QED
      BY <3>1, <3>2
  <2> QED
    BY <1>8, <2>2, <2>3 DEF Boot, MadeInv, Up
<1>9. CASE AppendWaits \/ Pause \/ Resume \/ EraseCommand \/ EraseStart \/ UNCHANGED vars
  <2>1. Events' = Events /\ Pending' = Pending
    BY <1>9 DEF AppendWaits, Pause, Resume, EraseCommand, EraseStart, vars, Events, InHand,
                InTasks, Members, Pending
  <2>2. made' = made /\ raced' = raced /\ seq' = seq /\ hand' = hand /\ queue' = queue
        /\ (logger' = "off" <=> logger = "off")
    BY <1>9 DEF AppendWaits, Pause, Resume, EraseCommand, EraseStart, vars
  <2> QED
    BY <2>1, <2>2 DEF MadeInv, Up
<1> QED
  BY <1>1, <1>2, <1>3, <1>4, <1>5, <1>6, <1>7, <1>8, <1>9 DEF Next, Logger

-----------------------------------------------------------------------------
(* The index, and the dump that walks by it.                                *)

\* In a log in order the ends by number are the ends of the ring.
LEMMA RebuiltInOrder ==
  ASSUME NEW s \in Seq(Event), Sorted(s, Order), Clean
  PROVE  /\ Rebuilt(s).oldest = 1
         /\ s # << >> => Rebuilt(s).newest_seq = s[Len(s)].seq
<1>1. CASE s = << >>
  BY <1>1 DEF Rebuilt
<1>2. CASE s # << >>
  <2>1. Len(s) \in Nat \ {0} /\ DOMAIN s = 1 .. Len(s)
    BY <1>2
  <2>2. \A i, j \in 1 .. Len(s) : i < j => s[i].seq < s[j].seq
    BY <2>1 DEF Sorted, Order, Precedes
  <2>3. \A i \in 1 .. Len(s) : s[i].seq \in Nat
    BY EventFields
  <2>4. 1 \in 1 .. Len(s) /\ Len(s) \in 1 .. Len(s)
    BY <2>1
  <2>5. Rebuilt(s).oldest = 1
    <3>1. Rebuilt(s).oldest \in 1 .. Len(s) /\ s[Rebuilt(s).oldest].seq <= s[1].seq
      BY <1>2, <2>1, <2>4, RebuiltFinds
    <3> QED
      BY <2>2, <2>3, <2>4, <3>1
  <2>6. Rebuilt(s).newest_seq = s[Len(s)].seq
    <3>1. PICK i \in 1 .. Len(s) : Rebuilt(s).newest_seq = s[i].seq
      BY <1>2, <2>1, RebuiltFinds
    <3>2. s[Len(s)].seq <= s[i].seq
      BY <1>2, <2>1, <2>4, <3>1, RebuiltFinds
    <3>3. ~ s[i].seq < s[Len(s)].seq
      BY <2>3, <2>4, <3>1, <3>2
    <3>4. ~ i < Len(s)
      BY <2>2, <2>4, <3>1, <3>3
    <3>5. i = Len(s)
      <4>1. PICK n : n = Len(s)
        OBVIOUS
      <4>2. n \in Nat /\ i \in 1 .. n /\ ~ i < n
        BY <2>1, <3>4, <4>1
      <4>3. i = n
        BY <4>2
      <4> QED
        BY <4>1, <4>3
    <3> QED
      BY <3>1, <3>5
  <2> QED
    BY <2>5, <2>6
<1> QED
  BY <1>1, <1>2

LEMMA CleanNext ==
  ASSUME [Next]_vars, Clean'
  PROVE  Clean \/ (SetNextSeq /\ store.frames = << >>)
<1>1. ASSUME NEW p \in Producers, LogEvent(p) PROVE Clean
  BY <1>1, Zenon DEF LogEvent, Clean
<1>2. CASE SetNextSeq
  BY <1>2 DEF SetNextSeq, Clean
<1> QED
  BY <1>1, <1>2 DEF Next, Logger, MakeEvent, SendFrame, AppendFrame, AppendWaits,
                AppendResumes, AppendDone, Pause, Resume, EraseCommand, EraseStart, EraseEnd,
                Crash, Boot, vars, Clean

LEMMA IndexInit == Init => IndexInv
  BY DEF Init, IndexInv, Rebuilt

LEMMA IndexNext ==
  ASSUME LoggerTypes, WayInv, IndexInv, HandInv, [Next]_vars
  PROVE  IndexInv'
<1> USE DEF LoggerTypes
<1>0. Clean' => Clean \/ (SetNextSeq /\ store.frames = << >>)
  BY CleanNext
<1>1. ASSUME store' = Rebuilt(store.frames), ~ SetNextSeq
      PROVE  IndexInv'
  <2>1. CASE Clean'
    BY <1>0, <1>1, <2>1, RebuiltInOrder, RebuiltType DEF IndexInv, WayInv, Way
  <2>2. CASE ~ Clean'
    BY <1>1, <2>2, RebuiltType DEF IndexInv, Rebuilt
  <2> QED
    BY <2>1, <2>2
<1>2. CASE AppendFrame \/ AppendResumes
  <2>1. AppendDone /\ hand \in Event /\ ~ SetNextSeq
    BY <1>2 DEF AppendFrame, AppendResumes, HandInv, AppendDone, SetNextSeq
  <2>2. CASE store' = Appended(hand)
    <3>1. /\ store.frames' = Append(store.frames, hand)
          /\ store.oldest' = store.oldest /\ store.newest_seq' = hand.seq
      BY <2>2 DEF Appended
    <3>2. /\ Append(store.frames, hand) # << >>
          /\ Append(store.frames, hand)[Len(Append(store.frames, hand))] = hand
      BY <2>1, AppendProperties
    <3> QED
      BY <1>0, <2>1, <3>1, <3>2 DEF IndexInv
  <2> QED
    BY <1>1, <2>1, <2>2 DEF AppendDone
<1>3. CASE EraseEnd
  <2>1. ~ SetNextSeq /\ command = "erase"
    BY <1>3 DEF EraseEnd, SetNextSeq
  <2>2. CASE store' = Rebuilt(<< >>)
    BY <2>2 DEF Rebuilt, IndexInv
  <2>3. ASSUME NEW n \in 0 .. Len(store.frames), store' = ErasedUpTo(n), command' = "sleep"
        PROVE  IndexInv'
    <3> SUFFICES ASSUME Clean'
                 PROVE  /\ store'.oldest = 1
                        /\ store'.frames # << >> =>
                              store'.newest_seq = store'.frames[Len(store'.frames)].seq
      BY <2>3 DEF IndexInv
    <3>1. Clean
      BY <1>0, <2>1
    <3>2. store.oldest = 1 /\ n \in Nat
      BY <3>1 DEF IndexInv
    <3>3. store'.oldest = 1
      BY <2>3, <3>2, ErasedFields
    <3>4. ASSUME store'.frames # << >>
          PROVE  store'.newest_seq = store'.frames[Len(store'.frames)].seq
      <4> DEFINE t == SubSeq(store.frames, n + 1, Len(store.frames))
                 m == Len(store.frames)
      <4>1. store'.frames = t /\ store'.newest_seq = store.newest_seq
        BY <2>3, ErasedFields
      <4>2. /\ t \in Seq(Event) /\ Len(t) = m - n /\ m \in Nat
            /\ \A i \in 1 .. m - n : t[i] = store.frames[n + i]
        BY SubSeqProperties
      <4> HIDE DEF t
      <4>3. Len(t) # 0
        BY <3>4, <4>1, <4>2
      <4>4. m - n \in 1 .. m - n /\ n + (m - n) = m
        BY <3>2, <4>2, <4>3
      <4>5. t[Len(t)] = store.frames[m] /\ m # 0
        BY <4>2, <4>4, <3>2
      <4>6. store.newest_seq = store.frames[m].seq
        BY <3>1, <4>5 DEF IndexInv
      <4> QED
        BY <4>1, <4>5, <4>6
    <3> QED
      BY <3>3, <3>4
  <2> QED
    BY <1>3, <2>2, <2>3 DEF EraseEnd
<1>4. CASE SetNextSeq
  BY <1>0, <1>4 DEF SetNextSeq, IndexInv, Clean, EventsUnderWay
<1>5. CASE Boot
  BY <1>1, <1>5 DEF Boot, SetNextSeq, CommandRuns, Up
<1>6. CASE \/ \E p \in Producers : MakeEvent(p) \/ LogEvent(p)
           \/ SendFrame \/ AppendWaits \/ Pause \/ Resume \/ EraseCommand \/ EraseStart \/ Crash
           \/ UNCHANGED vars
  <2>1. store' = store /\ (command' = "reset" => command = "reset") /\ ~ SetNextSeq
    BY <1>6 DEF MakeEvent, LogEvent, SendFrame, AppendWaits, Pause, Resume, EraseCommand,
                EraseStart, Crash, vars, SetNextSeq, CommandRuns, Up
  <2> QED
    BY <1>0, <2>1 DEF IndexInv
<1> QED
  BY <1>2, <1>3, <1>4, <1>5, <1>6 DEF Next, Logger

LEMMA SmallMod ==
  ASSUME NEW n \in Nat \ {0}, NEW k \in 0 .. n - 1
  PROVE  k % n = k
  OBVIOUS

\* With an index in order, once round the ring is the log as it stands.
LEMMA DumpIsLog ==
  ASSUME LoggerTypes, WayInv, IndexInv, Clean
  PROVE  Dump = store.frames
<1> DEFINE s == store.frames
           n == Len(s)
           round == [i \in 1 .. n |-> s[((store.oldest + i - 2) % n) + 1]]
           stops == {i \in 1 .. n : round[i].seq = store.newest_seq}
<1>1. s \in Seq(Event) /\ store.oldest = 1 /\ n \in Nat /\ DOMAIN s = 1 .. n
  BY DEF LoggerTypes, IndexInv
<1>2. round = s
  <2>1. ASSUME NEW i \in 1 .. n PROVE ((store.oldest + i - 2) % n) + 1 = i
    <3>1. store.oldest + i - 2 = i - 1 /\ i - 1 \in 0 .. n - 1 /\ n \in Nat \ {0} /\ i \in Nat
      BY <1>1
    <3>2. (i - 1) % n = i - 1
      BY <3>1, SmallMod
    <3> QED
      BY <3>1, <3>2
  <2>2. s = [i \in 1 .. n |-> s[i]]
    BY <1>1
  <2> QED
    BY <2>1, <2>2
<1>3. Dump = IF stops = {} THEN round
             ELSE SubSeq(round, 1, CHOOSE i \in stops : \A j \in stops : i <= j)
  BY DEF Dump
<1> HIDE DEF round
<1>4. CASE n = 0
  BY <1>2, <1>3, <1>4
<1>5. CASE n # 0
  <2>1. \A i \in 1 .. n : s[i].seq \in Nat
    BY <1>1, EventFields
  <2>2. \A i \in 1 .. n : i < n => s[i].seq < s[n].seq
    <3>1. n \in 1 .. n
      BY <1>1, <1>5
    <3> QED
      BY <1>1, <3>1 DEF WayInv, Way, Sorted, Order, Precedes
  <2>3. store.newest_seq = s[n].seq
    BY <1>5 DEF IndexInv
  <2>4. stops = {n}
    <3>1. n \in 1 .. n /\ \A i \in 1 .. n : i # n => i < n
      BY <1>1, <1>5
    <3>2. \A i \in 1 .. n : i # n => s[i].seq # s[n].seq
      BY <2>1, <2>2, <3>1
    <3> QED
      BY <1>2, <2>3, <3>1, <3>2
  <2>5. (CHOOSE i \in stops : \A j \in stops : i <= j) = n
    BY <1>1, <2>4
  <2>6. SubSeq(s, 1, n) = s
    BY <1>1
  <2> QED
    BY <1>2, <1>3, <2>4, <2>5, <2>6
<1> QED
  BY <1>4, <1>5

-----------------------------------------------------------------------------
(* Theorems.                                                               *)

LEMMA LoggerInvInit == Init => LoggerInv
  BY TypesInit, CountInit, WayInit, IndexInit DEF LoggerInv, Init, HandInv, QuietInv

LEMMA LoggerInvNext == LoggerInv /\ [Next]_vars => LoggerInv'
  BY TypesNext, HandNext, CountNext, QuietNext, WayNext, TasksNext, MadeNext, IndexNext
     DEF LoggerInv

\* All of the invariant holds in every state that the tasks and resets can bring about.
THEOREM LoggerSafe == Spec => []LoggerInv
<1>1. Init => LoggerInv
  BY LoggerInvInit
<1>2. LoggerInv /\ [Next]_vars => LoggerInv'
  BY LoggerInvNext
<1> QED
  BY <1>1, <1>2, PTL DEF Spec

\* No event is lost uncounted, for any number of tasks and any length of the queue.
THEOREM LossesCounted == Spec => []EveryLossCounted
<1>1. LoggerInv => EveryLossCounted
  BY DEF LoggerInv, CountInv, EveryLossCounted
<1> QED
  BY <1>1, LoggerSafe, PTL

\* The events of one task reach the log in the order in which it made them, across
\* drops, failed appends, erases and resets.
THEOREM OrderOfTasksKept == Spec => []ProducerOrderKept
<1>1. LoggerInv => ProducerOrderKept
  <2> SUFFICES ASSUME LoggerInv, NEW i \in DOMAIN store.frames, NEW j \in DOMAIN store.frames,
                      i < j, store.frames[i].by = store.frames[j].by
               PROVE  store.frames[i].age < store.frames[j].age
    BY DEF ProducerOrderKept
  <2>1. <<store.frames[i], store.frames[j]>> \in Order
    BY DEF LoggerInv, WayInv, Way, Sorted
  <2> QED
    BY <2>1 DEF Order, Precedes
<1> QED
  BY <1>1, LoggerSafe, PTL

\* Two stored events have the same number only after the numbers restarted while
\* there were old ones.
THEOREM NumbersDistinct == Spec => []StoredSeqsDistinct
<1>1. LoggerInv => StoredSeqsDistinct
  <2> SUFFICES ASSUME LoggerInv, ~ raced,
                      NEW i \in DOMAIN store.frames, NEW j \in DOMAIN store.frames,
                      store.frames[i].seq = store.frames[j].seq, i # j
               PROVE  FALSE
    BY DEF StoredSeqsDistinct
  <2>1. i \in Nat /\ j \in Nat
    BY DEF LoggerInv, LoggerTypes
  <2>2. ASSUME NEW a \in DOMAIN store.frames, NEW b \in DOMAIN store.frames, a < b
        PROVE  store.frames[a].seq # store.frames[b].seq
    <3>1. <<store.frames[a], store.frames[b]>> \in Order
      BY <2>2 DEF LoggerInv, WayInv, Way, Sorted
    <3> QED
      BY <3>1 DEF Order, Precedes
  <2>3. i < j \/ j < i
    BY <2>1
  <2> QED
    BY <2>2, <2>3
<1> QED
  BY <1>1, LoggerSafe, PTL

\* A dump sends every stored event, oldest first, unless an event was overtaken or
\* the numbers restarted while there were old ones; nothing else can spoil it.
THEOREM DumpInOrder == Spec => []DumpOldestFirst
<1>1. LoggerInv => DumpOldestFirst
  <2> SUFFICES ASSUME LoggerInv, Clean PROVE DumpAlwaysOldestFirst
    BY DEF DumpOldestFirst, Clean
  <2>1. Dump = store.frames
    BY DumpIsLog DEF LoggerInv
  <2>2. ASSUME NEW i \in DOMAIN store.frames, NEW j \in DOMAIN store.frames, i < j
        PROVE  store.frames[i].age < store.frames[j].age
    BY <2>2 DEF LoggerInv, WayInv, Way, Sorted, Order, Precedes
  <2> QED
    BY <2>1, <2>2 DEF DumpAlwaysOldestFirst
<1> QED
  BY <1>1, LoggerSafe, PTL

\* An operator who pauses, waits until nothing is under way and then erases meets no
\* event when the numbers restart.
THEOREM QuietEraseClean == Spec => []PausedEraseIsClean
<1>1. LoggerInv => PausedEraseIsClean
  BY DEF LoggerInv, QuietInv, PausedEraseIsClean
<1> QED
  BY <1>1, LoggerSafe, PTL
=============================================================================
