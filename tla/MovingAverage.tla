---------------------------- MODULE MovingAverage ----------------------------
(***************************************************************************)
(* The moving average of the ADC (utility.h), kept as a ring and a running *)
(* sum, and the value that adc_task publishes from it (AdcLoggerTask.cpp).  *)
(***************************************************************************)
EXTENDS Integers, Sequences

CONSTANTS
    N,              \* the template parameter, 16 in adc_task
    Samples,        \* what adc_read() may return
    MaxSamples      \* bound: samples taken in one behaviour

ASSUME AverageAssumption ==
    N \in Nat \ {0} /\ Samples \subseteq Nat /\ MaxSamples \in Nat

VARIABLES
    buffer_, index_, count_, sum_,
    g_adc_latest,   \* [raw, avg, valid]
    samples         \* history: all samples

average_vars == <<buffer_, index_, count_, sum_, g_adc_latest, samples>>

SumWithoutOldest == sum_                    \* for a mutant of SumLessOldest
\* A full ring gives up its oldest sample.
SumLessOldest == IF count_ < N THEN sum_ ELSE sum_ - buffer_[index_]

NextIndex == IF index_ + 1 >= N THEN 0 ELSE index_ + 1

\* The update of the latest value, after add(), with average().
Published(raw) == [raw |-> raw, avg |-> sum_' \div count_', valid |-> TRUE]

\* One round of adc_task.
Sample(raw) ==
    /\ Len(samples) < MaxSamples /\ samples' = Append(samples, raw)
    /\ buffer_' = [buffer_ EXCEPT ![index_] = raw]
    /\ sum_' = SumLessOldest + raw
    /\ count_' = IF count_ < N THEN count_ + 1 ELSE count_
    /\ index_' = NextIndex
    /\ g_adc_latest' = Published(raw)

AverageInit ==
    /\ buffer_ = [i \in 0 .. N - 1 |-> 0] /\ index_ = 0 /\ count_ = 0 /\ sum_ = 0
    /\ g_adc_latest = [raw |-> 0, avg |-> 0, valid |-> FALSE] /\ samples = << >>

AverageNext == \E raw \in Samples : Sample(raw)

AverageSpec == AverageInit /\ [][AverageNext]_average_vars

-----------------------------------------------------------------------------
(* Properties.                                                             *)

\* The sum of a sequence of numbers.
Total(s) ==
    LET total[i \in 0 .. Len(s)] == IF i = 0 THEN 0 ELSE total[i - 1] + s[i]
    IN  total[Len(s)]

\* The last N samples, or all while there are fewer.
LastSamples ==
    IF Len(samples) < N THEN samples
    ELSE SubSeq(samples, Len(samples) - N + 1, Len(samples))

\* What is shown and logged as the average is the mean, rounded down, of the last N
\* samples, or of all while there are fewer: the running sum never drifts from the
\* ring, before it is full, when it fills up, and each time round.
PublishedIsMean ==
    g_adc_latest.valid =>
        LET n == Len(LastSamples)
        IN  /\ g_adc_latest.avg * n <= Total(LastSamples)
            /\ Total(LastSamples) < (g_adc_latest.avg + 1) * n
            /\ g_adc_latest.raw = LastSamples[n]
=============================================================================
