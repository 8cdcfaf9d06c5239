----------------------- MODULE MCTcpConnectionOutput -----------------------
(* Model-checking instance of TcpConnectionOutput: a send buffer of two   *)
(* bytes and a high-water mark of two, messages of one or two bytes and   *)
(* three of them, so that a direct write is partial, the mark is reached  *)
(* exactly and passed, the buffer drains and crosses again, and a         *)
(* shutdown() meets queued output; the peer sends one message.            *)
EXTENDS TcpConnectionOutput

MCHighWaterMark == 2
MCSndBuf == 2
MCMaxMsg == 2
MCMaxSends == 3
MCMaxIn == 1
=============================================================================
