----------------------------- MODULE ByteStream -----------------------------
(***************************************************************************)
(* What an input Buffer promises (spec 4.8): the bytes the peer sends are *)
(* handed to the application in the order they were sent, none lost and   *)
(* none repeated, however many of them one read captures.                  *)
(*                                                                         *)
(* Byte k of the stream is the value k.  pending are the bytes sent and    *)
(* still in the socket; q are the bytes read and not yet retrieved.        *)
(***************************************************************************)
EXTENDS Naturals, Sequences

CONSTANT MaxBytes   \* bound on the bytes the peer sends

VARIABLES sent, pending, q

Init == sent = 0 /\ pending = << >> /\ q = << >>

\* The peer sends its next byte.
Send ==
  /\ sent < MaxBytes
  /\ sent' = sent + 1
  /\ pending' = Append(pending, sent + 1)
  /\ UNCHANGED q

\* A read takes the first n bytes off the socket, in order.
Receive ==
  \E n \in 1..Len(pending) :
    /\ q' = q \o SubSeq(pending, 1, n)
    /\ pending' = SubSeq(pending, n + 1, Len(pending))
    /\ UNCHANGED sent

\* The application retrieves the first k readable bytes.
Consume ==
  \E k \in 1..Len(q) :
    /\ q' = SubSeq(q, k + 1, Len(q))
    /\ UNCHANGED <<sent, pending>>

Next == Send \/ Receive \/ Consume

Spec == Init /\ [][Next]_<<sent, pending, q>>
=============================================================================
