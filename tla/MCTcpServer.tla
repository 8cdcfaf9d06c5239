---------------------------- MODULE MCTcpServer ----------------------------
(* Model-checking instances of TcpServer: two connections (or one), a    *)
(* base loop and a pool of one I/O loop (or none), messages of up to two  *)
(* bytes, so that partial writes, a write still queued at shutdown() and  *)
(* two connections sharing a loop occur.                                  *)
EXTENDS TcpServer

CONSTANTS c1, c2, base, io1, t1, t2

MCConns == {c1, c2}
MCConnsOne == {c1}
MCPoolOne == <<io1>>
MCPoolNone == <<>>
MCAppOne == {t1}
MCAppTwo == {t1, t2}
MCOpsNone == {}
MCOpsSend == {"sendInLoop"}
MCOpsBoth == {"sendInLoop", "shutdownInLoop"}
=============================================================================
