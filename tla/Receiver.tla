------------------------------- MODULE Receiver -------------------------------
(***************************************************************************)
(* How the receive thread of code/src/server.c cuts the byte stream of a   *)
(* client into frames.  A frame is a length of Hdr bytes and as many bytes *)
(* as it says; recv() may return a frame in pieces or several at once.     *)
(* Bytes are read into recvbuf behind a headroom; what is left of a frame  *)
(* is copied to the end of the headroom, so that the next bytes follow it. *)
(*                                                                         *)
(* A byte is known by its place in the stream; bound[n] is where frame n   *)
(* begins.  Nothing in receive() compares a length with the headroom or    *)
(* with what is left of recvbuf.  Three steps may leave memory in a state  *)
(* of which nothing is known, and the model stops there:                   *)
(*   "overrun"    recv() returns more than there is room for behind the    *)
(*                headroom and writes beyond recvbuf;                      *)
(*   "overlap"    memcpy() between ranges that overlap (it may also copy   *)
(*                right);                                                  *)
(*   "underflow"  more is kept than the headroom holds, and memcpy()       *)
(*                writes in front of recvbuf.                              *)
(***************************************************************************)
EXTENDS Integers, Sequences

CONSTANTS Hdr,       \* bytes of the length (4)
          MaxFrame,  \* bytes of the longest frame, its length included
          Headroom,  \* bytes before the place of recv() (2000)
          Size,      \* BUFFER_SIZE: bytes of recvbuf, and asked of recv()
          Frames     \* frames the client sends

\* The length fits into the headroom, and that into recvbuf.  Nothing bounds the
\* length of a frame.
ASSUME ReceiverAssumption ==
    /\ Hdr \in Nat \ {0} /\ MaxFrame \in Nat /\ Headroom \in Nat /\ Size \in Nat
    /\ Frames \in Nat \ {0}
    /\ Hdr < MaxFrame /\ Hdr <= Headroom /\ Headroom < Size

Addr == 0 .. Size - 1
Blank == -1

\* Where the frames begin, and where the last one ends.
Streams ==
    {b \in [0 .. Frames -> 0 .. Frames * MaxFrame] :
        /\ b[0] = 0
        /\ \A n \in 1 .. Frames : b[n] - b[n - 1] \in Hdr + 1 .. MaxFrame
        /\ \A m, n \in 0 .. Frames : m < n => b[m] < b[n]}

VARIABLES bound,       \* the stream
          got,         \* bytes of it that recv() returned
          buf,         \* recvbuf
          gMoreData_,  \* bytes kept in the headroom
          pStart, totalByte,
          rpc,         \* position of the receive thread
          posted       \* frames given to processMessage()

recvVars == <<bound, got, buf, gMoreData_, pStart, totalByte, rpc, posted>>

\* InitReceThread()
Init ==
    /\ bound \in Streams
    /\ got = 0
    /\ buf = [a \in Addr |-> Blank]
    /\ gMoreData_ = 0
    /\ pStart = Headroom /\ totalByte = 0
    /\ rpc = "recv"
    /\ posted = <<>>

\* recv() of n bytes
Recv(n) ==
    /\ rpc = "recv"
    /\ n <= Size - Headroom
    /\ got' = got + n
    /\ buf' = [a \in Addr |-> IF a >= Headroom /\ a < Headroom + n
                              THEN got + (a - Headroom) ELSE buf[a]]
    /\ pStart' = Headroom - gMoreData_
    /\ totalByte' = n + gMoreData_
    /\ rpc' = "loop"
    /\ UNCHANGED <<bound, gMoreData_, posted>>

\* recv() asks for BUFFER_SIZE bytes where BUFFER_SIZE - 2000 are left.
Overrun(n) ==
    /\ rpc = "recv"
    /\ n > Size - Headroom
    /\ rpc' = "overrun"
    /\ UNCHANGED <<bound, got, buf, gMoreData_, pStart, totalByte, posted>>

\* Frames whose length is at address a, and the bytes of such a frame.
HeaderAt(a) == {n \in 0 .. Frames - 1 : \A k \in 0 .. Hdr - 1 : buf[a + k] = bound[n] + k}
Frame == CHOOSE n \in HeaderAt(pStart) : TRUE
FrameSize == IF HeaderAt(pStart) = {} THEN totalByte ELSE bound[Frame + 1] - bound[Frame]

\* A frame is taken for complete one byte too early.
MutIncomplete ==
    IF totalByte <= Hdr THEN TRUE ELSE totalByte + 1 < FrameSize

\* Not even the length is there, or not all that it announces.
Incomplete ==
    IF totalByte <= Hdr THEN TRUE ELSE totalByte < FrameSize

\* By how much the rest of a frame is moved down: the bytes just received.
Shift == pStart + totalByte - Headroom

\* The end of receive(), whose local variables are gone.
Return == rpc' = "recv" /\ pStart' = Headroom /\ totalByte' = 0

\* The rest is kept, but not moved to the end of the headroom.
MutKeep ==
    /\ rpc = "loop" /\ Incomplete
    /\ totalByte <= Headroom
    /\ gMoreData_' = totalByte
    /\ Return
    /\ UNCHANGED <<buf, bound, got, posted>>

\* memcpy() of the rest to the end of the headroom
Keep ==
    /\ rpc = "loop" /\ Incomplete
    /\ totalByte <= Headroom
    /\ gMoreData_' = totalByte
    /\ buf' = [a \in Addr |-> IF a >= Headroom - totalByte /\ a < Headroom
                              THEN buf[a + Shift] ELSE buf[a]]
    /\ Return
    /\ UNCHANGED <<bound, got, posted>>

\* ... whose source and destination overlap when more is kept than was received.
Overlap ==
    /\ rpc = "loop" /\ Incomplete
    /\ Shift < totalByte
    /\ rpc' = "overlap"
    /\ UNCHANGED <<bound, got, buf, gMoreData_, pStart, totalByte, posted>>

\* ... whose destination begins in front of recvbuf.
Underflow ==
    /\ rpc = "loop" /\ Incomplete
    /\ totalByte > Headroom
    /\ rpc' = "underflow"
    /\ UNCHANGED <<bound, got, buf, gMoreData_, pStart, totalByte, posted>>

\* Frame n is in recvbuf from pStart on.
Whole(n) == \A k \in 0 .. bound[n + 1] - bound[n] - 1 : buf[pStart + k] = bound[n] + k

NextFrame == pStart' = pStart + FrameSize /\ totalByte' = totalByte - FrameSize /\ UNCHANGED rpc

\* One frame is taken, whatever more recv() returned.
MutProcess ==
    /\ rpc = "loop" /\ ~Incomplete
    /\ posted' = Append(posted, IF HeaderAt(pStart) # {} /\ Whole(Frame) THEN Frame ELSE -1)
    /\ gMoreData_' = 0 /\ Return
    /\ UNCHANGED <<bound, got, buf>>

\* processMessage(): -1 stands for bytes that are no frame of the client.
Process ==
    /\ rpc = "loop" /\ ~Incomplete
    /\ posted' = Append(posted, IF HeaderAt(pStart) # {} /\ Whole(Frame) THEN Frame ELSE -1)
    /\ IF totalByte = FrameSize THEN gMoreData_' = 0 /\ Return
                                ELSE NextFrame /\ UNCHANGED gMoreData_
    /\ UNCHANGED <<bound, got, buf>>

Receive ==
    \/ \E n \in 1 .. Size : n <= bound[Frames] - got /\ (Recv(n) \/ Overrun(n))
    \/ Keep \/ Overlap \/ Underflow \/ Process

-----------------------------------------------------------------------------
\* Memory was written that is not recvbuf's, or copied onto itself.
Undefined == {"overrun", "overlap", "underflow"}

TypeOK ==
    /\ bound \in Streams
    /\ got \in 0 .. bound[Frames]
    /\ buf \in [Addr -> Int]
    /\ gMoreData_ \in Nat /\ pStart \in Int /\ totalByte \in Nat
    /\ rpc \in {"recv", "loop"} \cup Undefined
    /\ posted \in Seq(-1 .. Frames - 1)

\* The frame that processMessage() gets next is longer than headroom and one byte.
NextTooLong ==
    Len(posted) < Frames /\ bound[Len(posted) + 1] - bound[Len(posted)] > Headroom + 1

\* processMessage() gets the frames of the client, each once, whole and in the
\* order they were sent, whichever way recv() split and joined them and however
\* long they are, for as long as memory is what it should be; and it is never
\* the headroom that ends this but in the middle of a frame of which more than
\* the last byte is beyond it.
FramesInOrder ==
    /\ \A k \in 1 .. Len(posted) : posted[k] = k - 1
    /\ rpc = "underflow" => NextTooLong

\* What is in recvbuf is the stream from the next frame on, and all that was
\* received and not processed.
Unprocessed ==
    /\ rpc = "loop" =>
          /\ totalByte > 0 /\ pStart >= 0 /\ pStart + totalByte <= Size
          /\ Shift >= 1
          /\ bound[Len(posted)] + totalByte = got
          /\ \A k \in 0 .. totalByte - 1 : buf[pStart + k] = bound[Len(posted)] + k
    /\ rpc = "recv" =>
          /\ gMoreData_ <= Headroom
          /\ bound[Len(posted)] + gMoreData_ = got
          /\ \A k \in 0 .. gMoreData_ - 1 :
                buf[Headroom - gMoreData_ + k] = bound[Len(posted)] + k

ReceiverInv == TypeOK /\ Len(posted) <= Frames /\ FramesInOrder /\ Unprocessed
=============================================================================
