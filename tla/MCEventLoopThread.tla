------------------------- MODULE MCEventLoopThread -------------------------
(* Model-checking instance of EventLoopThread: a pool of two IO threads,  *)
(* so that the second startLoop() runs while the first IO thread is      *)
(* already looping or still publishing its loop.                          *)
EXTENDS EventLoopThread

MCNumThreads == 2
MCMaxSpurious == 2
=============================================================================
