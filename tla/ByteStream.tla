----------------------------- MODULE ByteStream -----------------------------
(***************************************************************************)
(* What a stream bridge promises to the two sides that share it: one       *)
(* stream of bytes, delivered once, in order and without gaps; a close     *)
(* after which nothing is added; and a cancellation at any time, after     *)
(* which nothing more is delivered.  Bytes are numbered as they are put.   *)
(***************************************************************************)
EXTENDS Integers, Sequences

VARIABLES
    stream,      \* the bytes put and not taken yet
    sent,        \* how many were put so far
    delivery,    \* what the last take delivered
    phase        \* open, closed or cancelled

StreamVars == <<stream, sent, delivery, phase>>

StreamInit == stream = <<>> /\ sent = 0 /\ delivery = <<>> /\ phase = "open"

Put(n) ==
    /\ phase = "open"
    /\ stream' = stream \o [i \in 1 .. n |-> sent + i]
    /\ sent' = sent + n
    /\ UNCHANGED <<delivery, phase>>

Take(n) ==
    /\ phase \in {"open", "closed"}
    /\ delivery' = SubSeq(stream, 1, n)
    /\ stream' = SubSeq(stream, n + 1, Len(stream))
    /\ UNCHANGED <<sent, phase>>

Close ==
    /\ phase = "open"
    /\ phase' = "closed"
    /\ UNCHANGED <<stream, sent, delivery>>

Cancel ==
    /\ phase # "cancelled"
    /\ phase' = "cancelled"
    /\ UNCHANGED <<stream, sent, delivery>>

StreamNext ==
    \/ \E n \in 1 .. sent' - sent : Put(n)
    \/ \E n \in 1 .. Len(stream) : Take(n)
    \/ Close
    \/ Cancel

StreamSpec == StreamInit /\ [][StreamNext]_StreamVars
=============================================================================
