------------------------------ MODULE Acceptor ------------------------------
(***************************************************************************)
(* Acceptor::handleRead() and its reserve descriptor                       *)
(* (src/jmuduo/muduo/net/Acceptor.cc), against a process descriptor table  *)
(* of MaxFds slots shared with the connections and with other threads.     *)
(*                                                                         *)
(* When accept() fails with EMFILE the handler frees its reserve           *)
(* (idleFd_, opened on /dev/null), accepts the waiting connection into     *)
(* that slot, closes it, and opens /dev/null again.  Each of those is a    *)
(* separate system call, so another thread of the process may open or     *)
(* close a descriptor between any two of them.                             *)
(*                                                                         *)
(* Descriptors are numbered: fdOwner gives what each slot of the table    *)
(* holds, and open() and accept() take the lowest free number, as POSIX   *)
(* requires.  idleFd is the number idleFd_ holds (-1 after a failed       *)
(* call); after ::close(idleFd_) it still holds the closed number until   *)
(* the next assignment.                                                    *)
(***************************************************************************)
EXTENDS Integers, FiniteSets, FiniteSetsExt

CONSTANTS
  MaxFds,        \* RLIMIT_NOFILE minus the descriptors the process keeps
                 \* for itself (epoll fd, eventfd, std streams)
  MaxClients,    \* bound on the clients that ever connect
  MaxOther,      \* bound on the descriptors other threads hold at once
  OtherThreads   \* whether other threads of the process open descriptors

ASSUME /\ MaxFds \in Nat /\ MaxFds >= 2
       /\ MaxClients \in Nat
       /\ MaxOther \in Nat
       /\ OtherThreads \in BOOLEAN

Fds == 0..(MaxFds - 1)

\* What a slot may hold: the listening socket, the /dev/null reserve, the
\* connection accepted only to be refused, a TcpConnection's socket, a
\* file of another thread.
Owners == {"listen", "idle", "refused", "conn", "other", "free"}

VARIABLES
  listenning,   \* listenning_ (and the channel's read interest with it)
  fdOwner,      \* the process descriptor table
  idleFd,       \* idleFd_
  backlog,      \* connections completed by the kernel, not yet accepted
  arrived,      \* clients that have connected so far (bounded)
  apc           \* where the loop thread is in handleRead()

vars == <<listenning, fdOwner, idleFd, backlog, arrived, apc>>

Held(o) == {fd \in Fds : fdOwner[fd] = o}

\* A descriptor-creating call (accept, open) succeeds only with a free slot.
FdFree == Held("free") # {}

\* open()/accept() succeeding: the lowest free number now belongs to o.
Take(o) == fdOwner' = [fdOwner EXCEPT ![Min(Held("free"))] = o]

\* ::close(fd): frees the slot, whoever holds it; close(-1) fails (EBADF).
CloseFd(fd) == fdOwner' = IF fd = -1 THEN fdOwner ELSE [fdOwner EXCEPT ![fd] = "free"]

-----------------------------------------------------------------------------
(* Acceptor::Acceptor(): the listening socket is created (the lowest      *)
(* number), then the reserve opened (assert(idleFd_ >= 0)).               *)
Init ==
  /\ listenning = FALSE
  /\ fdOwner = [fd \in Fds |-> CASE fd = 0 -> "listen"
                                  [] fd = 1 -> "idle"
                                  [] OTHER  -> "free"]
  /\ idleFd = 1
  /\ backlog = 0
  /\ arrived = 0
  /\ apc = "idle"

(* listen(), run on the loop by TcpServer::start(): listenning_ = true,   *)
(* ::listen(), enableReading().                                            *)
Listen ==
  /\ ~listenning
  /\ listenning' = TRUE
  /\ UNCHANGED <<fdOwner, idleFd, backlog, arrived, apc>>

\* A mutant of HandleRead: ignores EMFILE, as handleRead() would without
\* the errno == EMFILE branch.
HandleRead_NoEmfile ==
  /\ apc = "idle"
  /\ listenning
  /\ backlog > 0
  /\ FdFree
  /\ backlog' = backlog - 1
  /\ Take("conn")
  /\ UNCHANGED <<idleFd, apc, listenning, arrived>>

(* handleRead(), up to the EMFILE test.  The listening socket is level-   *)
(* triggered readable while the backlog is not empty.  accept() either   *)
(* yields a socket, handed to TcpServer::newConnection() (which keeps it  *)
(* in a TcpConnection), or fails with EMFILE when the table is full; then *)
(* ::close(idleFd_) frees the reserve (a no-op when idleFd_ is -1).       *)
HandleRead ==
  /\ apc = "idle"
  /\ listenning
  /\ backlog > 0
  /\ \/ /\ FdFree
        /\ backlog' = backlog - 1
        /\ Take("conn")
        /\ UNCHANGED apc
     \/ /\ ~FdFree
        /\ CloseFd(idleFd)
        /\ apc' = "accept"
        /\ UNCHANGED backlog
  /\ UNCHANGED <<listenning, idleFd, arrived>>

\* A mutant of AcceptIdle: keeps the old number in idleFd_ when accept()
\* fails, as `fd = accept(); if (fd >= 0) idleFd_ = fd;' would.
AcceptIdle_KeepOnFail ==
  /\ apc = "accept"
  /\ IF FdFree /\ backlog > 0
       THEN /\ idleFd' = Min(Held("free"))
            /\ Take("refused")
            /\ backlog' = backlog - 1
       ELSE UNCHANGED <<idleFd, fdOwner, backlog>>
  /\ apc' = "close"
  /\ UNCHANGED <<listenning, arrived>>

(* idleFd_ = ::accept(listenfd): takes the freed slot, unless another     *)
(* thread took it first (then accept fails again and idleFd_ = -1).       *)
AcceptIdle ==
  /\ apc = "accept"
  /\ IF FdFree /\ backlog > 0
       THEN /\ idleFd' = Min(Held("free"))
            /\ Take("refused")
            /\ backlog' = backlog - 1
       ELSE /\ idleFd' = -1
            /\ UNCHANGED <<fdOwner, backlog>>
  /\ apc' = "close"
  /\ UNCHANGED <<listenning, arrived>>

(* ::close(idleFd_): the refused connection is closed; idleFd_ keeps the  *)
(* closed number.                                                          *)
CloseAccepted ==
  /\ apc = "close"
  /\ CloseFd(idleFd)
  /\ apc' = "reopen"
  /\ UNCHANGED <<listenning, idleFd, backlog, arrived>>

\* A mutant of Reopen: forgets to open /dev/null again.
Reopen_NoOpen ==
  /\ apc = "reopen"
  /\ idleFd' = -1
  /\ apc' = "idle"
  /\ UNCHANGED <<listenning, fdOwner, backlog, arrived>>

(* idleFd_ = ::open("/dev/null"): the reserve again, unless the table is  *)
(* full by now (open fails and idleFd_ = -1).                             *)
Reopen ==
  /\ apc = "reopen"
  /\ IF FdFree THEN /\ idleFd' = Min(Held("free"))
                    /\ Take("idle")
               ELSE /\ idleFd' = -1
                    /\ UNCHANGED fdOwner
  /\ apc' = "idle"
  /\ UNCHANGED <<listenning, backlog, arrived>>

-----------------------------------------------------------------------------
(* The environment.                                                        *)

\* A client completes the TCP handshake; the kernel queues the connection.
Connect ==
  /\ arrived < MaxClients
  /\ arrived' = arrived + 1
  /\ backlog' = backlog + 1
  /\ UNCHANGED <<listenning, fdOwner, idleFd, apc>>

\* A TcpConnection is destroyed and its Socket closes the descriptor.
ConnClose ==
  /\ \E fd \in Held("conn") : CloseFd(fd)
  /\ UNCHANGED <<listenning, idleFd, backlog, arrived, apc>>

\* Another thread opens a file or socket: the lowest free number.
OtherOpen ==
  /\ OtherThreads
  /\ Cardinality(Held("other")) < MaxOther
  /\ FdFree
  /\ Take("other")
  /\ UNCHANGED <<listenning, idleFd, backlog, arrived, apc>>

\* Another thread closes one of its descriptors.
OtherClose ==
  /\ \E fd \in Held("other") : CloseFd(fd)
  /\ UNCHANGED <<listenning, idleFd, backlog, arrived, apc>>

-----------------------------------------------------------------------------
AcceptorStep == Listen \/ HandleRead \/ AcceptIdle \/ CloseAccepted \/ Reopen

Next == AcceptorStep \/ Connect \/ ConnClose \/ OtherOpen \/ OtherClose

(* The loop thread runs the acceptor's handler whenever the listening     *)
(* socket is readable (level-triggered epoll), and finishes a handleRead() *)
(* it began; TcpServer::start() runs listen().  Nothing is assumed of the  *)
(* clients, the connections or the other threads: in particular no        *)
(* connection is ever assumed to close and free a slot.                    *)
Spec == Init /\ [][Next]_vars /\ WF_vars(AcceptorStep)

-----------------------------------------------------------------------------
(* Whenever handleRead() is not running idleFd_ holds the /dev/null       *)
(* reserve, so the next EMFILE can be answered (spec 4.4: a fresh         *)
(* reserved descriptor exists afterward).                                  *)
ReserveKept ==
  apc = "idle" => idleFd # -1 /\ fdOwner[idleFd] = "idle"

(* Every connection the kernel completes is eventually taken off the      *)
(* backlog, accepted or refused, even when the descriptor table is full   *)
(* and no connection ever closes: the listening socket does not stay      *)
(* readable for ever with the loop spinning on it.                         *)
BacklogDrains ==
  (listenning /\ backlog > 0) ~> backlog = 0

(* handleRead() closes only descriptors that are its own, even with other *)
(* threads opening and closing files between its system calls: whenever  *)
(* it is about to ::close(idleFd_) (at the EMFILE test and after the      *)
(* refusing accept()), idleFd_ is -1 or names the reserve or the refused  *)
(* connection, never a number since reused by another thread or a         *)
(* TcpConnection; and no refused connection outlives handleRead().        *)
ClosesOnlyOwn ==
  /\ apc = "idle" =>
       /\ idleFd = -1 \/ fdOwner[idleFd] = "idle"
       /\ Held("refused") = {}
  /\ apc = "close" => idleFd = -1 \/ fdOwner[idleFd] = "refused"
=============================================================================
