---------------------------- MODULE OutputStream ----------------------------
(***************************************************************************)
(* What a TcpConnection promises about the bytes handed to send(): they    *)
(* are counted, not named.  While the connection is up every accepted byte *)
(* is either queued in the output buffer, in the kernel's send buffer, or  *)
(* delivered to the peer, and bytes leave the queue for the kernel in the  *)
(* order they came: a send may write straight to the kernel only when     *)
(* nothing is queued.  The write side is shut only once the queue is      *)
(* empty.  Once the connection is down (closed or reset) nothing more is  *)
(* delivered except what the kernel already held, and the accounting of   *)
(* what send() takes is no longer promised.                                *)
(***************************************************************************)
EXTENDS Naturals

CONSTANTS Capacity, \* the kernel's send buffer
          MaxMsg    \* the largest single send

VARIABLES sent, queued, kernel, delivered, shut, up

vars == <<sent, queued, kernel, delivered, shut, up>>

Init == sent = 0 /\ queued = 0 /\ kernel = 0 /\ delivered = 0
        /\ shut = FALSE /\ up = TRUE

\* A send of n bytes, w of them written at once, the rest queued.
Accept ==
  /\ up /\ ~shut
  /\ \E n \in 1..MaxMsg, w \in 0..MaxMsg :
       /\ w <= n
       /\ w > 0 => queued = 0
       /\ kernel + w <= Capacity
       /\ sent' = sent + n
       /\ kernel' = kernel + w
       /\ queued' = queued + (n - w)
  /\ UNCHANGED <<delivered, shut, up>>

\* Queued bytes move to the kernel; an emptied queue may shut the write side.
Transmit ==
  /\ up /\ queued > 0
  /\ \E k \in 1..queued :
       /\ kernel + k <= Capacity
       /\ queued' = queued - k
       /\ kernel' = kernel + k
  /\ shut' \in IF queued' = 0 THEN {shut, TRUE} ELSE {shut}
  /\ UNCHANGED <<sent, delivered, up>>

\* The peer takes bytes from the kernel, whether or not we are still up.
Deliver ==
  /\ \E k \in 1..kernel : kernel' = kernel - k /\ delivered' = delivered + k
  /\ UNCHANGED <<sent, queued, shut, up>>

\* Shut the write side with nothing queued.
Shut ==
  /\ up /\ ~shut /\ queued = 0
  /\ shut' = TRUE
  /\ UNCHANGED <<sent, queued, kernel, delivered, up>>

\* The connection goes down; a reset discards what the kernel held.
Break ==
  /\ up /\ ~up'
  /\ kernel' \in {0, kernel}
  /\ UNCHANGED <<sent, queued, delivered, shut>>

\* Down: no new deliveries, the kernel never grows, the rest is unpromised.
Dead ==
  /\ ~up /\ ~up'
  /\ kernel' \in 0..kernel
  /\ UNCHANGED delivered
  /\ sent' \in Nat /\ queued' \in Nat /\ shut' \in BOOLEAN

Next == Accept \/ Transmit \/ Deliver \/ Shut \/ Break \/ Dead

Spec == Init /\ [][Next]_vars
=============================================================================
