----------------------------- MODULE MCAcceptor -----------------------------
(* Model-checking instance of Acceptor: a table of five slots (listening  *)
(* socket, reserve, three more), so that three accepted connections fill  *)
(* it and the fourth and fifth clients meet EMFILE, possibly while a      *)
(* connection closes; other threads may hold one descriptor.              *)
EXTENDS Acceptor

MCMaxFds == 5
MCMaxClients == 6
MCMaxOther == 1
=============================================================================
