------------------------------- MODULE MCBuffer -------------------------------
(* Model-checking instance of Buffer: one byte of prepend space, two of   *)
(* initial room and two of extrabuf, so that reads fill the writable zone *)
(* exactly, spill into extrabuf, and make append() both move the readable *)
(* bytes back and resize; the peer sends six bytes.                        *)
EXTENDS Buffer

MCCheapPrepend == 1
MCInitialSize == 2
MCExtraSize == 2
MCMaxBytes == 6
=============================================================================
