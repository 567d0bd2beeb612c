------------------------------ MODULE ByteFifo ------------------------------
(***************************************************************************)
(* What UartDma promises its callers: bytes go out in the order they were   *)
(* accepted, each exactly once and unchanged, and a frame is accepted as a  *)
(* whole or not at all.                                                    *)
(***************************************************************************)
EXTENDS Integers, Sequences

CONSTANTS
    Capacity,       \* bytes that can wait
    Chunks,         \* the byte sequences a caller may hand over at once
    NoByte          \* nothing was sent yet

VARIABLES
    queue,          \* bytes accepted and not yet sent
    out             \* the byte sent last

Put(bytes) ==
    /\ Len(queue) + Len(bytes) <= Capacity
    /\ queue' = queue \o bytes /\ UNCHANGED out

Get == queue # << >> /\ out' = Head(queue) /\ queue' = Tail(queue)

Init == queue = << >> /\ out = NoByte
Next == (\E bytes \in Chunks : Put(bytes)) \/ Get
Spec == Init /\ [][Next]_<<queue, out>>
=============================================================================
