---------------------------- MODULE MCEventLoop ----------------------------
(* Model-checking instance of EventLoop: two producer threads and a      *)
(* budget of three functors, enough for a producer's functor, a follow-up *)
(* queued by a functor, and a functor queued by an event handler.         *)
EXTENDS EventLoop

CONSTANTS p1, p2

MCProducers == {p1, p2}
MCMaxTasks == 3
=============================================================================
