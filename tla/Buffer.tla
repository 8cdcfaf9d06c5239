------------------------------- MODULE Buffer -------------------------------
(***************************************************************************)
(* An input Buffer filled by Buffer::readFd()                              *)
(* (src/jmuduo/muduo/net/Buffer.cc) and drained by the application's      *)
(* retrieve(), with the index arithmetic of Buffer.h: the byte region      *)
(* buffer_ split at readerIndex_ and writerIndex_ into prependable,        *)
(* readable and writable zones; append() makes room by moving the          *)
(* readable bytes back to kCheapPrepend or by resizing.                    *)
(*                                                                         *)
(* readv() scatters one read over the writable zone and an on-stack        *)
(* extrabuf of ExtraSize bytes; what lands in extrabuf is appended.        *)
(*                                                                         *)
(* Byte k of the peer's stream is the value k; a byte of the region never *)
(* written holds 0.  Indices are 0-based as in the code: the byte at index *)
(* i is buffer[i + 1].                                                     *)
(***************************************************************************)
EXTENDS Naturals, Sequences

CONSTANTS
  CheapPrepend,  \* kCheapPrepend
  InitialSize,   \* kInitialSize
  ExtraSize,     \* sizeof extrabuf
  MaxBytes       \* bound on the bytes the peer sends

ASSUME /\ CheapPrepend \in Nat /\ InitialSize \in Nat
       /\ ExtraSize \in Nat \ {0} /\ MaxBytes \in Nat

VARIABLES
  buffer,        \* buffer_ (its length is buffer_.size())
  readerIndex,   \* readerIndex_
  writerIndex,   \* writerIndex_
  sent,          \* bytes the peer has sent so far
  pending        \* bytes sent and not yet read from the socket

vars == <<buffer, readerIndex, writerIndex, sent, pending>>

\* The buffer's fields as one value, for the helpers of Buffer.h.
St == [buf |-> buffer, r |-> readerIndex, w |-> writerIndex]

Set(s) == /\ buffer' = s.buf
          /\ readerIndex' = s.r
          /\ writerIndex' = s.w

\* std::copy of data to index pos of region b.
CopyTo(b, pos, data) ==
  [j \in 1..Len(b) |-> IF pos < j /\ j <= pos + Len(data)
                         THEN data[j - pos] ELSE b[j]]

\* readableBytes(), writableBytes(), prependableBytes().
ReadableBytes(s) == s.w - s.r
WritableBytes(s) == Len(s.buf) - s.w
PrependableBytes(s) == s.r

\* A mutant of MakeSpace: resizes one byte short of what append() needs.
MakeSpace_Short(s, len) ==
  IF WritableBytes(s) + PrependableBytes(s) < len + CheapPrepend
    THEN [s EXCEPT !.buf = s.buf \o [j \in 1..(s.w + len - 1 - Len(s.buf)) |-> 0]]
    ELSE [buf |-> CopyTo(s.buf, CheapPrepend, SubSeq(s.buf, s.r + 1, s.w)),
          r |-> CheapPrepend, w |-> CheapPrepend + ReadableBytes(s)]

(* makeSpace(len): buffer_.resize(writerIndex_ + len) when even the        *)
(* prependable space past kCheapPrepend is too little; otherwise the      *)
(* readable bytes are copied back to kCheapPrepend.                        *)
MakeSpace(s, len) ==
  IF WritableBytes(s) + PrependableBytes(s) < len + CheapPrepend
    THEN [s EXCEPT !.buf = s.buf \o [j \in 1..(s.w + len - Len(s.buf)) |-> 0]]
    ELSE [buf |-> CopyTo(s.buf, CheapPrepend, SubSeq(s.buf, s.r + 1, s.w)),
          r |-> CheapPrepend, w |-> CheapPrepend + ReadableBytes(s)]

(* append(data, len): ensureWritableBytes(len), copy to beginWrite(),      *)
(* hasWritten(len).                                                        *)
AppendData(s, data) ==
  LET t == IF WritableBytes(s) < Len(data) THEN MakeSpace(s, Len(data)) ELSE s
  IN  [t EXCEPT !.buf = CopyTo(t.buf, t.w, data), !.w = t.w + Len(data)]

(* retrieve(len): readerIndex_ += len, or retrieveAll() when len takes     *)
(* every readable byte: both indices back to kCheapPrepend.                *)
RetrieveData(s, len) ==
  IF len < ReadableBytes(s)
    THEN [s EXCEPT !.r = s.r + len]
    ELSE [s EXCEPT !.r = CheapPrepend, !.w = CheapPrepend]

-----------------------------------------------------------------------------
(* Buffer(): buffer_(kCheapPrepend + kInitialSize), both indices at        *)
(* kCheapPrepend; no byte sent yet.                                        *)
Init ==
  /\ buffer = [j \in 1..(CheapPrepend + InitialSize) |-> 0]
  /\ readerIndex = CheapPrepend
  /\ writerIndex = CheapPrepend
  /\ sent = 0
  /\ pending = << >>

\* The bytes readv() can take: what the socket holds, up to the writable
\* zone plus extrabuf.
ReadSizes ==
  LET room == WritableBytes(St) + ExtraSize
  IN  1..(IF Len(pending) < room THEN Len(pending) ELSE room)

\* A mutant of ReadFd: in the extrabuf branch it omits
\* writerIndex_ = buffer_.size(), so append() writes over the bytes readv()
\* put in the writable zone.
ReadFd_NoSeek ==
  LET writable == WritableBytes(St) IN
  \E n \in ReadSizes :
    LET data == SubSeq(pending, 1, n) IN
    /\ pending' = SubSeq(pending, n + 1, Len(pending))
    /\ IF n <= writable
         THEN Set([St EXCEPT !.buf = CopyTo(buffer, writerIndex, data),
                             !.w = writerIndex + n])
         ELSE Set(AppendData(
                [St EXCEPT !.buf = CopyTo(buffer, writerIndex,
                                          SubSeq(data, 1, writable))],
                SubSeq(data, writable + 1, n)))
    /\ UNCHANGED sent

(* readFd(), n > 0 bytes read: if they all fit the writable zone,          *)
(* writerIndex_ += n; otherwise the zone is full (writerIndex_ =           *)
(* buffer_.size()) and the n - writable bytes in extrabuf are appended.    *)
(* A read that fails or returns 0 changes no index.                        *)
ReadFd ==
  LET writable == WritableBytes(St) IN
  \E n \in ReadSizes :
    LET data == SubSeq(pending, 1, n) IN
    /\ pending' = SubSeq(pending, n + 1, Len(pending))
    /\ IF n <= writable
         THEN Set([St EXCEPT !.buf = CopyTo(buffer, writerIndex, data),
                             !.w = writerIndex + n])
         ELSE Set(AppendData(
                [buf |-> CopyTo(buffer, writerIndex, SubSeq(data, 1, writable)),
                 r |-> readerIndex, w |-> Len(buffer)],
                SubSeq(data, writable + 1, n)))
    /\ UNCHANGED sent

(* The message callback retrieves some of the readable bytes.              *)
Retrieve ==
  \E k \in 1..ReadableBytes(St) :
    /\ Set(RetrieveData(St, k))
    /\ UNCHANGED <<sent, pending>>

\* The peer sends its next byte.
PeerSend ==
  /\ sent < MaxBytes
  /\ sent' = sent + 1
  /\ pending' = Append(pending, sent + 1)
  /\ UNCHANGED <<buffer, readerIndex, writerIndex>>

Next == ReadFd \/ Retrieve \/ PeerSend

Spec == Init /\ [][Next]_vars

-----------------------------------------------------------------------------
(* The three zones stay in order inside the region, whatever mix of reads *)
(* through extrabuf, moves and resizes append() has done: kCheapPrepend <= *)
(* readerIndex_ <= writerIndex_ <= buffer_.size().                         *)
ZonesOrdered ==
  CheapPrepend <= readerIndex /\ readerIndex <= writerIndex
  /\ writerIndex <= Len(buffer)

\* The readable zone is the abstract queue of bytes read.
Stream == INSTANCE ByteStream WITH q <- SubSeq(buffer, readerIndex + 1, writerIndex)

(* readFd() and retrieve() implement the byte stream: the readable zone   *)
(* always holds exactly the bytes read and not retrieved, in the order    *)
(* the peer sent them.                                                     *)
ByteStreamSpec == Stream!Spec
=============================================================================
