------------------------------ MODULE EventLog ------------------------------
(***************************************************************************)
(* What the flash log promises its readers: a sequence of events in the     *)
(* order they happened, which grows at its end, loses events only at its    *)
(* old end and at most one sector's worth at a time, and is otherwise lost *)
(* only to an explicit request to clear it.  It promises this for events     *)
(* that are handed over in order: after one that is not, there is no        *)
(* promise (no log) until a request to clear has been carried out.          *)
(* FlashLogDump shows that the storage implements this.                    *)
(*                                                                         *)
(* The actions relate the log before (old) and after (new) a step.         *)
(***************************************************************************)
EXTENDS Integers, Sequences

CONSTANTS
    Events,         \* what is logged
    Newer(_, _),    \* Newer(a, b): a happened after b
    MaxEvict        \* the most events one eviction can take

VARIABLES
    log,        \* the events, oldest first
    clearing,   \* the log is being cleared
    in_order    \* every event was handed over in order since the log was empty

\* The entries of s are entries of t, and in the order of t.  (When no entry occurs
\* twice, as in a log, this says that s is a subsequence of t.)
PartOf(s, t) ==
    /\ \A i \in DOMAIN s : \E k \in DOMAIN t : t[k] = s[i]
    /\ \A i, j \in DOMAIN s : i < j => \E k, l \in DOMAIN t : k < l /\ t[k] = s[i] /\ t[l] = s[j]

\* A reader looks at the log, or nothing happens to it.
Read(old, new) == new = old /\ UNCHANGED <<clearing, in_order>>

\* One event is added, newer than the newest.
Record(old, new) ==
    /\ Len(new) = Len(old) + 1 /\ SubSeq(new, 1, Len(old)) = old
    /\ new[Len(new)] \in Events
    /\ old # << >> => Newer(new[Len(new)], old[Len(old)])
    /\ in_order /\ UNCHANGED <<clearing, in_order>>

\* The oldest storage is recycled; an interruption may leave part of it.
Evict(old, new) ==
    /\ Len(new) < Len(old) /\ PartOf(new, old)
    /\ \A k \in DOMAIN old : k > MaxEvict => \E i \in DOMAIN new : new[i] = old[k]
    /\ UNCHANGED <<clearing, in_order>>

\* An event is handed over behind one that is not older.
LoseOrder == in_order' = FALSE /\ log' = << >> /\ UNCHANGED clearing

StartClear == clearing' = TRUE /\ UNCHANGED <<log, in_order>>

\* Events disappear in any order while the log is being cleared.
Clear(old, new) ==
    /\ clearing /\ clearing' \in BOOLEAN
    /\ PartOf(new, old)
    /\ in_order' = in_order \/ (in_order' = TRUE /\ new = << >> /\ clearing' = FALSE)

Init == log = << >> /\ clearing = FALSE /\ in_order = TRUE
Next ==
    \/ StartClear \/ LoseOrder
    \/ \E old \in {log}, new \in {log'} :
         Read(old, new) \/ Record(old, new) \/ Evict(old, new) \/ Clear(old, new)
Spec == Init /\ [][Next]_<<log, clearing, in_order>>
=============================================================================
