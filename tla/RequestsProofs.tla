---------------------------- MODULE RequestsProofs ----------------------------
(***************************************************************************)
(* Proofs about Receiver and Requests, for streams of any number of frames *)
(* of any lengths and any sizes of header, headroom and buffer.            *)
(***************************************************************************)
EXTENDS Requests, TLAPS

\* What a stream of frames is, fact by fact.
LEMMA StreamFacts ==
    ASSUME NEW b \in Streams
    PROVE  /\ \A n \in 0 .. Frames : b[n] \in Nat
           /\ \A n \in 0 .. Frames - 1 : b[n + 1] - b[n] \in Hdr + 1 .. MaxFrame
           /\ \A m, n \in 0 .. Frames : b[m] = b[n] => m = n
           /\ b[0] = 0
  <1>1. \A n \in 0 .. Frames : b[n] \in Nat
    BY ReceiverAssumption DEF Streams
  <1>2. \A n \in 0 .. Frames - 1 : b[n + 1] - b[n] \in Hdr + 1 .. MaxFrame
    <2> SUFFICES ASSUME NEW n \in 0 .. Frames - 1
                 PROVE  b[n + 1] - b[n] \in Hdr + 1 .. MaxFrame
      OBVIOUS
    <2>1. n + 1 \in 1 .. Frames /\ (n + 1) - 1 = n
      BY ReceiverAssumption
    <2> QED BY <2>1 DEF Streams
  <1>3. ASSUME NEW m \in 0 .. Frames, NEW n \in 0 .. Frames, b[m] = b[n]
        PROVE  m = n
    <2>1. ~(m < n) /\ ~(n < m)
      BY <1>1, <1>3 DEF Streams
    <2> QED BY <2>1, ReceiverAssumption
  <1>4. b[0] = 0
    BY DEF Streams
  <1> QED BY <1>1, <1>2, <1>3, <1>4

-----------------------------------------------------------------------------
(* The receive thread *)

\* The length that is read is the one of the next frame.
LEMMA NextHeader ==
    ASSUME ReceiverInv, rpc = "loop", totalByte > Hdr
    PROVE  /\ Len(posted) \in 0 .. Frames - 1
           /\ HeaderAt(pStart) # {} /\ Frame = Len(posted)
           /\ FrameSize = bound[Len(posted) + 1] - bound[Len(posted)]
           /\ FrameSize \in Hdr + 1 .. MaxFrame
  <1> DEFINE p == Len(posted)
  <1>1. bound \in Streams /\ totalByte \in Nat /\ p \in 0 .. Frames /\ got <= bound[Frames]
    <2>1. p \in Nat /\ p <= Frames
      BY DEF ReceiverInv, TypeOK
    <2> QED BY <2>1, ReceiverAssumption DEF ReceiverInv, TypeOK
  <1>2. p \in 0 .. Frames - 1
    <2>1. bound[p] + totalByte = got
      BY DEF ReceiverInv, Unprocessed
    <2>2. bound[p] \in Nat /\ bound[Frames] \in Nat
      BY <1>1, StreamFacts, ReceiverAssumption
    <2>3. bound[p] # bound[Frames]
      BY <1>1, <2>1, <2>2, ReceiverAssumption
    <2> QED BY <1>1, <2>3, ReceiverAssumption
  <1>3. \A k \in 0 .. Hdr - 1 : buf[pStart + k] = bound[p] + k
    BY <1>1, ReceiverAssumption DEF ReceiverInv, Unprocessed
  <1>4. HeaderAt(pStart) = {p}
    <2>1. p \in HeaderAt(pStart)
      BY <1>2, <1>3 DEF HeaderAt
    <2>2. ASSUME NEW n \in HeaderAt(pStart)
          PROVE  n = p
      <3>1. n \in 0 .. Frames - 1 /\ buf[pStart + 0] = bound[n] + 0 /\ buf[pStart + 0] = bound[p] + 0
        BY <1>3, <2>2, ReceiverAssumption DEF HeaderAt
      <3>2. n \in 0 .. Frames /\ p \in 0 .. Frames /\ bound[n] \in Nat /\ bound[p] \in Nat
        BY <1>1, <1>2, <3>1, StreamFacts, ReceiverAssumption
      <3>3. bound[n] = bound[p]
        BY <3>1, <3>2
      <3> QED BY <1>1, <3>2, <3>3, StreamFacts
    <2> QED BY <2>1, <2>2
  <1>5. Frame = p
    BY <1>4 DEF Frame
  <1>6. FrameSize = bound[p + 1] - bound[p]
    BY <1>4, <1>5 DEF FrameSize
  <1>7. FrameSize \in Hdr + 1 .. MaxFrame
    BY <1>1, <1>2, <1>6, StreamFacts
  <1> QED BY <1>2, <1>4, <1>5, <1>6, <1>7

LEMMA ReceiverInit == Init => ReceiverInv
  <1> SUFFICES ASSUME Init PROVE ReceiverInv
    OBVIOUS
  <1>1. bound[0] = 0 /\ bound[Frames] \in Nat
    BY StreamFacts, ReceiverAssumption DEF Init
  <1>2. TypeOK
    <2>1. posted \in Seq(-1 .. Frames - 1)
      BY DEF Init
    <2> QED BY <1>1, <2>1, ReceiverAssumption DEF Init, TypeOK, Blank
  <1>3. Len(posted) = 0
    BY DEF Init
  <1> QED BY <1>1, <1>2, <1>3, ReceiverAssumption
          DEF Init, ReceiverInv, FramesInOrder, Unprocessed

LEMMA RecvKeeps ==
    ASSUME ReceiverInv, NEW n \in 1 .. Size, n <= bound[Frames] - got, Recv(n)
    PROVE  ReceiverInv'
  <1> DEFINE p == Len(posted)
  <1>1. /\ bound \in Streams /\ got \in 0 .. bound[Frames] /\ buf \in [Addr -> Int]
        /\ gMoreData_ \in Nat /\ gMoreData_ <= Headroom /\ p \in 0 .. Frames
    <2>1. p \in Nat /\ p <= Frames
      BY DEF ReceiverInv, TypeOK
    <2>2. gMoreData_ <= Headroom
      BY DEF Recv, ReceiverInv, Unprocessed
    <2> QED BY <2>1, <2>2, ReceiverAssumption DEF ReceiverInv, TypeOK
  <1>2. bound[p] \in Nat /\ bound[Frames] \in Nat
    BY <1>1, StreamFacts, ReceiverAssumption
  <1>3. bound[p] + gMoreData_ = got
    BY DEF Recv, ReceiverInv, Unprocessed
  <1>4. got \in Nat /\ n \in Nat /\ got + n \in 0 .. bound[Frames]
    BY <1>1, <1>2, ReceiverAssumption
  <1>5. TypeOK'
    <2>1. buf' \in [Addr -> Int]
      BY <1>1, <1>4, ReceiverAssumption DEF Recv, Addr
    <2> QED BY <1>1, <1>4, <2>1, ReceiverAssumption DEF Recv, ReceiverInv, TypeOK
  <1>6. ASSUME NEW k \in 0 .. n + gMoreData_ - 1
        PROVE  buf'[Headroom - gMoreData_ + k] = bound[p] + k
    <2>1. Headroom - gMoreData_ + k \in Addr
      BY <1>1, <1>4, ReceiverAssumption DEF Recv, Addr
    <2>2. CASE k < gMoreData_
      <3>1. buf'[Headroom - gMoreData_ + k] = buf[Headroom - gMoreData_ + k]
        BY <1>1, <2>1, <2>2, ReceiverAssumption DEF Recv
      <3> QED BY <1>1, <2>2, <3>1 DEF Recv, ReceiverInv, Unprocessed
    <2>3. CASE k >= gMoreData_
      <3>1. buf'[Headroom - gMoreData_ + k] = got + ((Headroom - gMoreData_ + k) - Headroom)
        BY <1>1, <1>4, <2>1, <2>3, ReceiverAssumption DEF Recv
      <3>2. (Headroom - gMoreData_ + k) - Headroom = k - gMoreData_
        BY <1>1, <1>4, ReceiverAssumption
      <3>3. got + (k - gMoreData_) = bound[p] + k
        BY <1>1, <1>2, <1>3, <1>4
      <3> QED BY <3>1, <3>2, <3>3
    <2> QED BY <1>1, <2>2, <2>3
  <1>7. Unprocessed'
    <2>1. /\ rpc' = "loop" /\ pStart' = Headroom - gMoreData_ /\ totalByte' = n + gMoreData_
          /\ got' = got + n /\ bound' = bound /\ posted' = posted
      BY DEF Recv
    <2>2. Shift' = n
      BY <1>1, <1>4, <2>1, ReceiverAssumption DEF Shift
    <2>3. totalByte' > 0 /\ pStart' >= 0 /\ pStart' + totalByte' <= Size
      BY <1>1, <1>4, <2>1, ReceiverAssumption DEF Recv
    <2>4. bound'[Len(posted')] + totalByte' = got'
      BY <1>1, <1>2, <1>3, <1>4, <2>1
    <2>5. ASSUME NEW k \in 0 .. totalByte' - 1
          PROVE  buf'[pStart' + k] = bound'[Len(posted')] + k
      <3>1. bound'[Len(posted')] = bound[p]
        BY <2>1
      <3>2. k \in 0 .. n + gMoreData_ - 1 /\ pStart' + k = Headroom - gMoreData_ + k
        BY <1>1, <1>4, <2>1, ReceiverAssumption
      <3> QED BY <1>6, <3>1, <3>2
    <2> QED BY <2>1, <2>2, <2>3, <2>4, <2>5 DEF Unprocessed
  <1> QED BY <1>5, <1>7 DEF Recv, ReceiverInv, FramesInOrder

LEMMA KeepKeeps ==
    ASSUME ReceiverInv, Keep
    PROVE  ReceiverInv'
  <1> DEFINE p == Len(posted)
  <1>1. /\ bound \in Streams /\ buf \in [Addr -> Int] /\ totalByte \in Nat /\ pStart \in Int
        /\ totalByte > 0 /\ pStart >= 0 /\ pStart + totalByte <= Size /\ Shift >= 1
    BY DEF Keep, ReceiverInv, TypeOK, Unprocessed
  <1>2. totalByte <= Headroom
    BY DEF Keep
  <1>3. TypeOK'
    <2>1. buf' \in [Addr -> Int]
      <3>1. ASSUME NEW a \in Addr, a >= Headroom - totalByte, a < Headroom
            PROVE  a + Shift \in Addr
        BY <1>1, <1>2, <3>1, ReceiverAssumption DEF Addr, Shift
      <3> QED BY <1>1, <3>1 DEF Keep
    <2> QED BY <1>1, <2>1, ReceiverAssumption DEF Keep, Return, ReceiverInv, TypeOK
  <1>4. ASSUME NEW k \in 0 .. totalByte - 1
        PROVE  buf'[Headroom - totalByte + k] = bound[p] + k
    <2> DEFINE a == Headroom - totalByte + k
    <2>1. a \in Addr /\ a >= Headroom - totalByte /\ a < Headroom
      BY <1>1, <1>2, ReceiverAssumption DEF Addr
    <2>2. a + Shift = pStart + k
      BY <1>1, ReceiverAssumption DEF Shift
    <2>3. buf'[a] = buf[pStart + k]
      BY <2>1, <2>2 DEF Keep
    <2> QED BY <2>3 DEF Keep, ReceiverInv, Unprocessed
  <1>5. Unprocessed'
    BY <1>2, <1>4 DEF Keep, Return, ReceiverInv, Unprocessed
  <1> QED BY <1>3, <1>5 DEF Keep, Return, ReceiverInv, FramesInOrder

LEMMA UnderflowKeeps ==
    ASSUME ReceiverInv, Underflow
    PROVE  ReceiverInv'
  <1>1. totalByte > Hdr
    BY ReceiverAssumption DEF Underflow, ReceiverInv, TypeOK
  <1>2. totalByte < FrameSize
    BY <1>1, ReceiverAssumption DEF Underflow, Incomplete, ReceiverInv, TypeOK
  <1>3. /\ Len(posted) \in 0 .. Frames - 1 /\ FrameSize \in Hdr + 1 .. MaxFrame
        /\ FrameSize = bound[Len(posted) + 1] - bound[Len(posted)]
    BY <1>1, NextHeader DEF Underflow
  <1>4. totalByte \in Nat /\ totalByte > Headroom
    BY DEF Underflow, ReceiverInv, TypeOK
  <1>5. FrameSize > Headroom + 1 /\ Len(posted) < Frames
    BY <1>2, <1>3, <1>4, ReceiverAssumption
  <1>6. NextTooLong
    BY <1>3, <1>5 DEF NextTooLong
  <1> QED BY <1>6 DEF Underflow, ReceiverInv, TypeOK, Undefined, FramesInOrder, NextTooLong,
                  Unprocessed

LEMMA ProcessKeeps ==
    ASSUME ReceiverInv, Process
    PROVE  ReceiverInv' /\ posted' = Append(posted, Len(posted))
  <1> DEFINE p == Len(posted)
             S == FrameSize
  <1>1. /\ bound \in Streams /\ buf \in [Addr -> Int] /\ totalByte \in Nat /\ pStart \in Int
        /\ posted \in Seq(-1 .. Frames - 1)
        /\ totalByte > 0 /\ pStart >= 0 /\ pStart + totalByte <= Size /\ Shift >= 1
        /\ bound[p] + totalByte = got /\ got \in 0 .. bound[Frames]
        /\ \A k \in 0 .. totalByte - 1 : buf[pStart + k] = bound[p] + k
    BY DEF Process, ReceiverInv, TypeOK, Unprocessed
  <1>2. totalByte > Hdr
    BY <1>1, ReceiverAssumption DEF Process, Incomplete
  <1>3. totalByte >= S
    BY <1>1, <1>2, NextHeader, ReceiverAssumption DEF Process, Incomplete
  <1>4. /\ p \in 0 .. Frames - 1 /\ HeaderAt(pStart) # {} /\ Frame = p
        /\ S = bound[p + 1] - bound[p] /\ S \in Hdr + 1 .. MaxFrame
    BY <1>2, NextHeader DEF Process
  <1>5. bound[p] \in Nat /\ bound[p + 1] \in Nat /\ bound[p + 1] = bound[p] + S
    <2>1. p \in 0 .. Frames /\ p + 1 \in 0 .. Frames
      BY <1>4, ReceiverAssumption
    <2>2. bound[p] \in Nat /\ bound[p + 1] \in Nat
      BY <1>1, <2>1, StreamFacts
    <2> QED BY <1>4, <2>2
  <1>6. Whole(Frame)
    BY <1>1, <1>3, <1>4, ReceiverAssumption DEF Whole
  <1>7. posted' = Append(posted, p)
    BY <1>4, <1>6 DEF Process
  <1>8. /\ posted' \in Seq(-1 .. Frames - 1) /\ Len(posted') = p + 1
        /\ \A k \in 1 .. p : posted'[k] = posted[k]
        /\ posted'[p + 1] = p
    BY <1>1, <1>4, <1>7, ReceiverAssumption
  <1>9. FramesInOrder' /\ Len(posted') <= Frames
    <2>1. ASSUME NEW k \in 1 .. p + 1
          PROVE  posted'[k] = k - 1
      <3>1. k \in 1 .. p \/ k = p + 1
        BY <1>4, ReceiverAssumption
      <3>2. k \in 1 .. p => posted'[k] = k - 1
        BY <1>8 DEF ReceiverInv, FramesInOrder
      <3>3. k = p + 1 => posted'[k] = k - 1
        BY <1>4, <1>8, ReceiverAssumption
      <3> QED BY <3>1, <3>2, <3>3
    <2>2. p + 1 <= Frames
      BY <1>4, ReceiverAssumption
    <2>3. rpc' # "underflow"
      BY DEF Process, Return, NextFrame
    <2> QED BY <1>8, <2>1, <2>2, <2>3 DEF FramesInOrder
  <1>10. got' = got /\ buf' = buf /\ bound' = bound
    BY DEF Process
  <1>11. CASE totalByte = S
    <2>1. rpc' = "recv" /\ gMoreData_' = 0 /\ pStart' = Headroom /\ totalByte' = 0
      BY <1>11 DEF Process, Return
    <2>2. Unprocessed'
      BY <1>1, <1>5, <1>8, <1>10, <1>11, <2>1, ReceiverAssumption DEF Unprocessed
    <2>3. TypeOK'
      BY <1>1, <1>8, <1>10, <2>1, ReceiverAssumption DEF TypeOK
    <2> QED BY <1>7, <1>9, <2>2, <2>3 DEF ReceiverInv
  <1>12. S \in Nat /\ S >= 1 /\ S <= totalByte
    BY <1>3, <1>4, ReceiverAssumption
  <1>13. CASE totalByte # S
    <2> HIDE DEF S, p
    <2>1. /\ rpc' = "loop" /\ gMoreData_' = gMoreData_
          /\ pStart' = pStart + S /\ totalByte' = totalByte - S
      BY <1>13 DEF Process, NextFrame, S
    <2>2. totalByte' \in Nat /\ pStart' \in Int /\ totalByte' > 0
      BY <1>1, <1>12, <1>13, <2>1
    <2>3. ASSUME NEW k \in 0 .. totalByte' - 1
          PROVE  buf'[pStart' + k] = bound'[Len(posted')] + k
      <3>1. S + k \in 0 .. totalByte - 1 /\ pStart' + k = pStart + (S + k)
        BY <1>1, <1>12, <2>1
      <3>2. buf[pStart + (S + k)] = bound[p] + (S + k)
        BY <1>1, <3>1 DEF p
      <3>3. bound[p] + (S + k) = bound[p + 1] + k
        BY <1>5, <1>12, <2>1, <2>2
      <3> QED BY <1>8, <1>10, <3>1, <3>2, <3>3
    <2>4. /\ pStart' >= 0 /\ pStart' + totalByte' <= Size /\ Shift' >= 1
          /\ bound'[Len(posted')] + totalByte' = got'
      <3>1. bound[p] + totalByte = got
        BY <1>1 DEF p
      <3>2. pStart' + totalByte' = pStart + totalByte
        BY <1>1, <1>12, <2>1
      <3>3. bound[p + 1] + (totalByte - S) = got
        BY <1>1, <1>5, <1>12, <3>1
      <3>4. pStart' >= 0
        BY <1>1, <1>12, <2>1
      <3>5. pStart' + totalByte' <= Size /\ Shift' >= 1
        <4>1. Shift' = (pStart' + totalByte') - Headroom /\ Shift = (pStart + totalByte) - Headroom
          BY <1>1, <2>2, ReceiverAssumption DEF Shift
        <4> QED BY <1>1, <3>2, <4>1
      <3>6. bound'[Len(posted')] + totalByte' = got'
        BY <1>8, <1>10, <2>1, <3>3
      <3> QED BY <3>4, <3>5, <3>6
    <2>5. Unprocessed'
      BY <2>1, <2>2, <2>3, <2>4 DEF Unprocessed
    <2>6. TypeOK'
      BY <1>1, <1>8, <1>10, <2>1, <2>2 DEF ReceiverInv, TypeOK
    <2> QED BY <1>7, <1>9, <2>5, <2>6 DEF ReceiverInv, p
  <1> QED BY <1>11, <1>13

LEMMA ReceiveKeeps == ReceiverInv /\ [Receive]_recvVars => ReceiverInv'
  <1> SUFFICES ASSUME ReceiverInv, [Receive]_recvVars PROVE ReceiverInv'
    OBVIOUS
  <1>1. CASE \E n \in 1 .. Size : n <= bound[Frames] - got /\ Recv(n)
    BY <1>1, RecvKeeps
  <1>2. CASE (\E n \in 1 .. Size : Overrun(n)) \/ Overlap
    BY <1>2 DEF Overrun, Overlap, ReceiverInv, TypeOK, Undefined, FramesInOrder, Unprocessed
  <1>3. CASE Keep
    BY <1>3, KeepKeeps
  <1>4. CASE Process
    BY <1>4, ProcessKeeps
  <1>5. CASE UNCHANGED recvVars
    BY <1>5 DEF recvVars, ReceiverInv, TypeOK, FramesInOrder, NextTooLong, Unprocessed, Shift
  <1>6. CASE Underflow
    BY <1>6, UnderflowKeeps
  <1> QED BY <1>1, <1>2, <1>3, <1>4, <1>5, <1>6 DEF Receive

\* The receive thread's invariant holds in the composition with the event loop.
LEMMA StreamKept == Spec => []ReceiverInv
  <1>1. RInit => ReceiverInv
    BY ReceiverInit DEF RInit
  <1>2. ReceiverInv /\ [Next]_vars => ReceiverInv'
    <2>1. [Next]_vars => [Receive]_recvVars
      BY DEF Next, vars
    <2> QED BY <2>1, ReceiveKeeps
  <1> QED BY <1>1, <1>2, PTL DEF Spec

\* receive() cuts every stream, of frames of any lengths, into the frames it was
\* made of, however recv() splits and joins them, for as long as memory is what
\* it should be; and the headroom gives out only inside a frame that is longer
\* by more than a byte.
THEOREM FramesDelivered == Spec => []FramesInOrder
  BY StreamKept, PTL DEF ReceiverInv

-----------------------------------------------------------------------------
(* The event loop *)

LoopInv == ReceiverInv /\ RTypeOK /\ InHand /\ RightAnswers

LEMMA AppendFacts ==
    ASSUME NEW S, NEW q \in Seq(S), NEW e \in S
    PROVE  /\ Append(q, e) \in Seq(S)
           /\ Len(q) \in Nat /\ Len(Append(q, e)) = Len(q) + 1
           /\ Append(q, e)[Len(q) + 1] = e
           /\ \A i \in 1 .. Len(q) : Append(q, e)[i] = q[i]
           /\ \A i \in 1 .. Len(q) + 1 : i \in 1 .. Len(q) \/ i = Len(q) + 1
  OBVIOUS

LEMMA TailFacts ==
    ASSUME NEW S, NEW q \in Seq(S), q # <<>>
    PROVE  /\ Tail(q) \in Seq(S) /\ Head(q) = q[1] /\ q[1] \in S
           /\ Len(q) \in Nat /\ 1 \in 1 .. Len(q)
           /\ \A i \in 1 .. Len(Tail(q)) : i + 1 \in 1 .. Len(q) /\ Tail(q)[i] = q[i + 1]
  OBVIOUS

\* The requests made for a frame
LEMMA AsksFacts ==
    ASSUME NEW n
    PROVE  /\ Len(Asks(n)) \in Nat /\ Len(Asks(n)) >= 1 /\ Len(Asks(n)) <= Len(RfRequests)
           /\ Len(RfRequests) = 6
           /\ \A s \in 1 .. Len(Asks(n)) : Asks(n)[s] \in Fields \cup {"set"}
  <1>1. CASE wants[n] = "rf"
    <2>1. Asks(n) = <<"set", "set", "ad7417_temper", "set", "rf_cur_high", "rf_cur_low">>
      BY <1>1 DEF Asks, RfRequests
    <2> QED BY <2>1 DEF RfRequests, Fields
  <1>2. CASE wants[n] # "rf"
    <2>1. Asks(n) = <<"state">>
      BY <1>2 DEF Asks
    <2> QED BY <2>1 DEF RfRequests, Fields
  <1> QED BY <1>1, <1>2

LEMMA LoopInit == RInit => LoopInv
  <1> SUFFICES ASSUME RInit PROVE LoopInv
    OBVIOUS
  <1>1. RTypeOK
    <2>1. 0 \in 0 .. Frames - 1 /\ 1 \in 1 .. Len(Asks(0))
      BY AsksFacts, ReceiverAssumption
    <2> QED BY <2>1, ReceiverInit DEF RInit, RTypeOK, ReceiverInv
  <1>2. InHand /\ RightAnswers
    BY DEF RInit, InHand, RightAnswers, Own
  <1> QED BY <1>1, <1>2, ReceiverInit DEF RInit, LoopInv

\* The end of a request, with what was collected so far.
LEMMA FinishKeeps ==
    ASSUME RTypeOK, InHand, RightAnswers, hpc = "wait",
           NEW d \in SUBSET (Fields \X Answer), stale = 0 => Own(cur, d),
           Finish(d), UNCHANGED <<queue, recvVars, wants>>, answers' \in Seq(Answer)
    PROVE  RTypeOK' /\ InHand' /\ RightAnswers'
  <1>1. /\ cur \in 0 .. Frames - 1 /\ step \in 1 .. Len(Asks(cur)) /\ wants[cur] \in Messages
        /\ queue \in Seq(0 .. Frames - 1) /\ out \in Seq(OutFrame) /\ stale \in {0, 1}
        /\ Len(out) \in Nat /\ Len(queue) \in Nat
    BY DEF RTypeOK
  <1>2. queue' = queue /\ posted' = posted /\ wants' = wants /\ TypeOK'
    BY DEF recvVars, RTypeOK, TypeOK
  <1>3. \A n : Asks(n)' = Asks(n)
    BY <1>2 DEF Asks
  <1>4. \A n, D : Own(n, D)' <=> \A x \in D : x[2].of = n /\ Asks(n)[x[2].step] = x[1]
    BY <1>3 DEF Own
  <1>5. CASE step < Len(Asks(cur))
    <2>1. /\ hpc' = "issue" /\ step' = step + 1 /\ data' = d
          /\ cur' = cur /\ stale' = stale /\ out' = out
      BY <1>5 DEF Finish
    <2>2. step' \in 1 .. Len(Asks(cur))'
      <3>1. Len(Asks(cur))' = Len(Asks(cur)) /\ Len(Asks(cur)) \in Nat
        BY <1>2, <2>1, AsksFacts DEF Asks
      <3> QED BY <1>1, <1>5, <2>1, <3>1
    <2>3. RTypeOK'
      BY <1>1, <1>2, <2>1, <2>2 DEF RTypeOK
    <2>4. stale' = 0 => Own(cur, d)'
      BY <1>2, <2>1 DEF Own, Asks
    <2>5. InHand'
      BY <1>2, <2>1, <2>4 DEF InHand
    <2>6. RightAnswers'
      BY <1>2, <1>3, <2>1 DEF RightAnswers, Own
    <2> QED BY <2>3, <2>5, <2>6
  <1>6. CASE ~(step < Len(Asks(cur)))
    <2> DEFINE f == [to |-> cur, type |-> TypeOf(wants[cur]), data |-> d, stale |-> stale]
    <2>1. Rest /\ out' \in {out, Append(out, f)}
      BY <1>6 DEF Finish
    <2>2. f \in OutFrame
      BY <1>1 DEF OutFrame
    <2>3. RTypeOK'
      <3>1. 0 \in 0 .. Frames - 1 /\ 1 \in 1 .. Len(Asks(0))'
        BY <1>3, AsksFacts, ReceiverAssumption
      <3>2. out' \in Seq(OutFrame)
        <4>1. Append(out, f) \in Seq(OutFrame)
          BY <1>1, <2>2, AppendFacts
        <4> QED BY <1>1, <2>1, <4>1
      <3> QED BY <1>1, <1>2, <2>1, <3>1, <3>2 DEF RTypeOK, Rest
    <2>4. /\ \A k \in 1 .. Len(out) : k \in 1 .. Len(out') /\ out'[k] = out[k]
          /\ \A k \in 1 .. Len(out') :
                 \/ k \in 1 .. Len(out) /\ out'[k] = out[k]
                 \/ k = Len(out) + 1 /\ out'[k] = f
      <3> HIDE DEF f
      <3>1. CASE out' = out
        BY <3>1
      <3>2. CASE out' = Append(out, f)
        <4>1. /\ Len(Append(out, f)) = Len(out) + 1 /\ Append(out, f)[Len(out) + 1] = f
              /\ \A i \in 1 .. Len(out) : Append(out, f)[i] = out[i]
              /\ \A i \in 1 .. Len(out) + 1 : i \in 1 .. Len(out) \/ i = Len(out) + 1
          BY <1>1, <2>2, AppendFacts
        <4> QED BY <1>1, <3>2, <4>1
      <3> QED BY <2>1, <3>1, <3>2
    <2>5. InHand'
      <3>1. \A k \in 1 .. Len(out') : out'[k].to < Len(posted')
        BY <1>2, <2>4 DEF InHand
      <3>2. \A k \in 1 .. Len(out'), i \in 1 .. Len(queue') : out'[k].to < queue'[i]
        BY <1>2, <2>4 DEF InHand
      <3>3. hpc' = "idle" /\ cur' = 0 /\ step' = 1 /\ data' = {} /\ stale' = 0
        BY <2>1 DEF Rest
      <3>4. Own(cur, data)'
        BY <3>3 DEF Own
      <3> QED BY <1>2, <3>1, <3>2, <3>3, <3>4 DEF InHand
    <2>6. RightAnswers'
      <3> SUFFICES ASSUME NEW k \in 1 .. Len(out')
                   PROVE  /\ k > 1 => out'[k - 1].to < out'[k].to
                          /\ out'[k].type = TypeOf(wants'[out'[k].to])
                          /\ out'[k].stale = 0 => Own(out'[k].to, out'[k].data)
        BY <1>2 DEF RightAnswers, Own, Asks, TypeOf
      <3>1. CASE k \in 1 .. Len(out) /\ out'[k] = out[k]
        <4>1. k > 1 => k - 1 \in 1 .. Len(out)
          BY <1>1, <3>1
        <4>2. k > 1 => out'[k - 1] = out[k - 1]
          BY <2>4, <4>1
        <4>3. out[k].stale = 0 => Own(out[k].to, out[k].data)
          BY <3>1 DEF RightAnswers
        <4>4. /\ k > 1 => out'[k - 1].to < out'[k].to
              /\ out'[k].type = TypeOf(wants'[out'[k].to])
          BY <1>2, <3>1, <4>2 DEF RightAnswers
        <4> QED BY <3>1, <4>3, <4>4
      <3>2. CASE k = Len(out) + 1 /\ out'[k] = f
        <4>1. k > 1 => k - 1 \in 1 .. Len(out) /\ out'[k - 1] = out[k - 1]
          <5>1. k > 1 => k - 1 \in 1 .. Len(out)
            BY <1>1, <3>2
          <5> QED BY <2>4, <5>1
        <4>2. k > 1 => out'[k - 1].to < out'[k].to
          BY <3>2, <4>1 DEF InHand
        <4>3. out'[k].stale = 0 => Own(out'[k].to, out'[k].data)
          BY <3>2
        <4> QED BY <1>2, <3>2, <4>2, <4>3
      <3> QED BY <2>4, <3>1, <3>2
    <2> QED BY <2>3, <2>5, <2>6
  <1> QED BY <1>5, <1>6

LEMMA TakeKeeps ==
    ASSUME RTypeOK, InHand, RightAnswers, Take, UNCHANGED <<recvVars, wants>>
    PROVE  RTypeOK' /\ InHand' /\ RightAnswers'
  <1>1. /\ queue \in Seq(0 .. Frames - 1) /\ queue # <<>> /\ hpc = "idle"
        /\ cur = 0 /\ step = 1 /\ data = {} /\ stale = 0 /\ TypeOK
    BY DEF Take, RTypeOK, InHand
  <1>2. /\ Tail(queue) \in Seq(0 .. Frames - 1) /\ Head(queue) = queue[1]
        /\ queue[1] \in 0 .. Frames - 1 /\ 1 \in 1 .. Len(queue)
        /\ \A i \in 1 .. Len(Tail(queue)) : i + 1 \in 1 .. Len(queue) /\ Tail(queue)[i] = queue[i + 1]
    BY <1>1, TailFacts
  <1>3. /\ queue' = Tail(queue) /\ answers' = answers /\ out' = out /\ wants' = wants
        /\ posted' = posted /\ TypeOK'
    BY <1>1 DEF Take, recvVars, TypeOK
  <1>4. data' = {} /\ stale' = 0 /\ step' = 1
    BY <1>1 DEF Take, Rest
  <1>5. \/ hpc' = "idle" /\ cur' = 0
        \/ hpc' = "issue" /\ cur' = queue[1] /\ wants[queue[1]] \in Messages
    BY <1>1, <1>2 DEF Take, Rest, InHand
  <1>6. RTypeOK'
    <2>1. 0 \in 0 .. Frames - 1 /\ 1 \in 1 .. Len(Asks(cur))'
      <3>1. Len(Asks(cur))' = Len(Asks(cur'))
        BY <1>3 DEF Asks
      <3> QED BY <3>1, AsksFacts, ReceiverAssumption
    <2> QED BY <1>2, <1>3, <1>4, <1>5, <2>1 DEF RTypeOK
  <1>7. InHand'
    <2>1. ASSUME NEW i \in 1 .. Len(queue')
          PROVE  /\ queue'[i] < Len(posted') /\ wants'[queue'[i]] \in Messages
                 /\ \A j \in 1 .. Len(queue') : i < j => queue'[i] < queue'[j]
                 /\ hpc' # "idle" => cur' < queue'[i]
                 /\ \A k \in 1 .. Len(out') : out'[k].to < queue'[i]
      <3>1. i + 1 \in 1 .. Len(queue) /\ queue'[i] = queue[i + 1] /\ 1 < i + 1
        BY <1>2, <1>3
      <3>2. ASSUME NEW j \in 1 .. Len(queue'), i < j
            PROVE  queue'[i] < queue'[j]
        <4>1. j + 1 \in 1 .. Len(queue) /\ queue'[j] = queue[j + 1] /\ i + 1 < j + 1
          BY <1>2, <1>3, <3>2
        <4> QED BY <3>1, <4>1 DEF InHand
      <3>3. queue[1] < queue[i + 1]
        BY <1>2, <3>1 DEF InHand
      <3> QED BY <1>3, <1>5, <3>1, <3>2, <3>3 DEF InHand
    <2>2. ASSUME NEW k \in 1 .. Len(out')
          PROVE  out'[k].to < Len(posted') /\ (hpc' # "idle" => out'[k].to < cur')
      BY <1>2, <1>3, <1>5 DEF InHand
    <2>3. hpc' # "idle" => cur' < Len(posted')
      BY <1>2, <1>3, <1>5 DEF InHand
    <2>4. Own(cur, data)'
      BY <1>4 DEF Own
    <2> QED BY <1>4, <1>5, <2>1, <2>2, <2>3, <2>4 DEF InHand
  <1>8. RightAnswers'
    BY <1>3 DEF RightAnswers, Own, Asks, TypeOf
  <1> QED BY <1>6, <1>7, <1>8

LEMMA IssueKeeps ==
    ASSUME RTypeOK, InHand, RightAnswers, Issue, UNCHANGED <<recvVars, wants>>
    PROVE  RTypeOK' /\ InHand' /\ RightAnswers'
  <1>1. /\ hpc = "issue" /\ hpc' = "wait" /\ queue' = queue /\ cur' = cur /\ step' = step
        /\ data' = data /\ out' = out /\ wants' = wants /\ posted' = posted /\ TypeOK'
        /\ stale' \in {0, 1} /\ (stale' = 0 => stale = 0 /\ answers = <<>>)
    BY DEF Issue, recvVars, RTypeOK, TypeOK
  <1>2. cur \in 0 .. Frames - 1 /\ step \in 1 .. Len(RfRequests) /\ answers \in Seq(Answer)
    BY AsksFacts DEF RTypeOK
  <1>3. answers' \in Seq(Answer)
        /\ (stale' = 0 => \A i \in 1 .. Len(answers') : answers'[i].of = cur /\ answers'[i].step = step)
    <2>1. CASE answers' = answers
      BY <1>1, <1>2, <2>1
    <2>2. ASSUME NEW ok \in Stats, answers' = Append(answers, [of |-> cur, step |-> step, ok |-> ok])
          PROVE  <1>3!:
      <3>1. [of |-> cur, step |-> step, ok |-> ok] \in Answer
        BY <1>2 DEF Answer, Stats
      <3>2. answers' \in Seq(Answer)
        BY <1>2, <2>2, <3>1, AppendFacts
      <3>3. stale' = 0 => answers' = <<[of |-> cur, step |-> step, ok |-> ok]>>
        BY <1>1, <2>2
      <3> QED BY <3>2, <3>3
    <2> QED BY <2>1, <2>2 DEF Issue
  <1>4. RTypeOK'
    <2>1. Len(Asks(cur))' = Len(Asks(cur))
      BY <1>1 DEF Asks
    <2> QED BY <1>1, <1>3, <2>1 DEF RTypeOK
  <1>5. InHand'
    <2>1. stale' = 0 => Own(cur, data)'
      BY <1>1 DEF InHand, Own, Asks
    <2> QED BY <1>1, <1>3, <2>1 DEF InHand
  <1>6. RightAnswers'
    BY <1>1 DEF RightAnswers, Own, Asks, TypeOf
  <1> QED BY <1>4, <1>5, <1>6

LEMMA DiscardKeeps ==
    ASSUME RTypeOK, InHand, RightAnswers, Discard, UNCHANGED <<recvVars, wants>>
    PROVE  RTypeOK' /\ InHand' /\ RightAnswers'
  <1>1. answers' \in Seq(Answer)
    BY TailFacts DEF Discard, RTypeOK
  <1>2. /\ hpc # "wait" /\ queue' = queue /\ cur' = cur /\ step' = step /\ hpc' = hpc
        /\ data' = data /\ out' = out /\ wants' = wants /\ posted' = posted /\ TypeOK'
        /\ stale' = stale
    BY DEF Discard, recvVars, RTypeOK, TypeOK
  <1>3. RTypeOK'
    BY <1>1, <1>2 DEF RTypeOK, Asks
  <1>4. InHand'
    BY <1>2 DEF InHand, Own, Asks
  <1> QED BY <1>2, <1>3, <1>4 DEF RightAnswers, Own, Asks, TypeOf

LEMMA AnsweredKeeps ==
    ASSUME RTypeOK, InHand, RightAnswers, Answered, UNCHANGED <<recvVars, wants>>
    PROVE  RTypeOK' /\ InHand' /\ RightAnswers'
  <1> DEFINE a == Head(answers)
             d == Collected(a)
  <1>1. /\ hpc = "wait" /\ answers \in Seq(Answer) /\ answers # <<>>
        /\ step \in 1 .. Len(Asks(cur)) /\ data \in SUBSET (Fields \X Answer)
    BY DEF Answered, RTypeOK
  <1>2. Tail(answers) \in Seq(Answer) /\ a = answers[1] /\ a \in Answer /\ 1 \in 1 .. Len(answers)
    BY <1>1, TailFacts
  <1>3. d = data \/ (Asks(cur)[step] # "set" /\ d = data \cup {<<Asks(cur)[step], a>>})
    BY DEF Collected
  <1>4. Asks(cur)[step] # "set" => Asks(cur)[step] \in Fields
    BY <1>1, AsksFacts
  <1>5. d \in SUBSET (Fields \X Answer)
    BY <1>1, <1>2, <1>3, <1>4
  <1>6. stale = 0 => Own(cur, d)
    <2>1. stale = 0 => a.of = cur /\ a.step = step
      BY <1>1, <1>2 DEF InHand
    <2>2. stale = 0 => Own(cur, data)
      BY DEF InHand
    <2> QED BY <1>3, <2>1, <2>2 DEF Own
  <1>7. Finish(d) /\ UNCHANGED <<queue, recvVars, wants>> /\ answers' \in Seq(Answer)
    BY <1>2 DEF Answered
  <1> HIDE DEF d
  <1> QED BY <1>1, <1>5, <1>6, <1>7, FinishKeeps

LEMMA TimedOutKeeps ==
    ASSUME RTypeOK, InHand, RightAnswers, TimedOut, UNCHANGED <<recvVars, wants>>
    PROVE  RTypeOK' /\ InHand' /\ RightAnswers'
  BY FinishKeeps DEF TimedOut, RTypeOK, InHand

\* A step of the receive thread, and the message it may post.
LEMMA PostKeeps ==
    ASSUME ReceiverInv, RTypeOK, InHand, RightAnswers,
           Receive, Post, UNCHANGED <<wants, loopVars>>
    PROVE  RTypeOK' /\ InHand' /\ RightAnswers'
  <1> DEFINE n == Len(posted)
  <1>1. /\ wants' = wants /\ hpc' = hpc /\ cur' = cur /\ step' = step /\ data' = data
        /\ stale' = stale /\ answers' = answers /\ out' = out
        /\ queue \in Seq(0 .. Frames - 1) /\ n \in Nat
    BY DEF loopVars, RTypeOK, ReceiverInv, TypeOK
  <1>2. TypeOK'
    BY ReceiveKeeps DEF ReceiverInv
  <1>3. \/ posted' = posted
        \/ posted' = Append(posted, n) /\ n \in 0 .. Frames - 1
    <2>1. CASE Process
      <3>1. posted' = Append(posted, n) /\ Len(posted') <= Frames
        BY <2>1, ProcessKeeps DEF ReceiverInv
      <3>2. Len(Append(posted, n)) = n + 1
        BY DEF ReceiverInv, TypeOK
      <3> QED BY <1>1, <3>1, <3>2, ReceiverAssumption
    <2> QED BY <2>1 DEF Receive, Recv, Overrun, Keep, Overlap, Underflow
  <1>4. \/ queue' = queue /\ Len(posted') >= n
        \/ /\ queue' = Append(queue, n) /\ Len(posted') = n + 1
           /\ n \in 0 .. Frames - 1 /\ wants[n] \in Messages
    <2>1. CASE posted' = posted
      BY <1>1, <2>1 DEF Post
    <2>2. CASE posted' = Append(posted, n) /\ n \in 0 .. Frames - 1
      <3>1. Len(posted') = n + 1 /\ posted'[n + 1] = n
        BY <1>1, <2>2 DEF ReceiverInv, TypeOK
      <3>2. posted'[Len(posted')] = n /\ n # -1 /\ n + 1 # n /\ n + 1 >= n
        BY <1>1, <3>1
      <3> QED BY <1>1, <2>2, <3>1, <3>2 DEF Post
    <2> QED BY <1>3, <2>1, <2>2
  <1>5. RightAnswers'
    BY <1>1 DEF RightAnswers, Own, Asks, TypeOf
  <1>6. (stale = 0 => Own(cur, data)) => (stale' = 0 => Own(cur, data)')
    BY <1>1 DEF Own, Asks
  <1>7. Len(posted') \in Nat /\ Len(posted') >= n
    BY <1>1, <1>2, <1>4 DEF TypeOK
  <1>8. /\ \A k \in 1 .. Len(out') : /\ out'[k].to \in Nat /\ out'[k].to < n
                                       /\ (hpc' # "idle" => out'[k].to < cur')
        /\ hpc' # "idle" => cur' \in Nat /\ cur' < n
        /\ \A i \in 1 .. Len(queue) : queue[i] \in Nat /\ queue[i] < n
    <2>1. ASSUME NEW k \in 1 .. Len(out) PROVE out[k].to \in Nat
      <3>1. out[k] \in OutFrame
        BY <2>1 DEF RTypeOK
      <3>2. out[k].to \in 0 .. Frames - 1
        BY <3>1 DEF OutFrame
      <3> QED BY <3>2, ReceiverAssumption
    <2>2. cur \in Nat
      BY ReceiverAssumption DEF RTypeOK
    <2>3. \A i \in 1 .. Len(queue) : queue[i] \in Nat
      BY <1>1, ReceiverAssumption
    <2> QED BY <1>1, <2>1, <2>2, <2>3 DEF InHand
  <1>9. CASE queue' = queue
    <2>1. RTypeOK'
      BY <1>1, <1>2, <1>9 DEF RTypeOK, Asks
    <2>2. \A i \in 1 .. Len(queue') : queue'[i] < Len(posted')
      BY <1>1, <1>7, <1>8, <1>9
    <2>3. /\ \A k \in 1 .. Len(out') : out'[k].to < Len(posted')
          /\ hpc' # "idle" => cur' < Len(posted')
      BY <1>1, <1>7, <1>8
    <2>4. InHand'
      BY <1>1, <1>6, <1>9, <2>2, <2>3 DEF InHand
    <2> QED BY <1>5, <2>1, <2>4
  <1>10. CASE /\ queue' = Append(queue, n) /\ Len(posted') = n + 1
              /\ n \in 0 .. Frames - 1 /\ wants[n] \in Messages
    <2>1. /\ queue' \in Seq(0 .. Frames - 1) /\ Len(queue) \in Nat /\ Len(queue') = Len(queue) + 1
          /\ queue'[Len(queue) + 1] = n
          /\ \A i \in 1 .. Len(queue) : queue'[i] = queue[i]
          /\ \A i \in 1 .. Len(queue') : i \in 1 .. Len(queue) \/ i = Len(queue) + 1
      <3> HIDE DEF n
      <3> QED BY <1>1, <1>10, AppendFacts
    <2>2. RTypeOK'
      BY <1>1, <1>2, <2>1 DEF RTypeOK, Asks
    <2>3. ASSUME NEW i \in 1 .. Len(queue')
          PROVE  /\ queue'[i] < Len(posted') /\ wants'[queue'[i]] \in Messages
                 /\ \A j \in 1 .. Len(queue') : i < j => queue'[i] < queue'[j]
                 /\ hpc' # "idle" => cur' < queue'[i]
                 /\ \A k \in 1 .. Len(out') : out'[k].to < queue'[i]
      <3>1. CASE i \in 1 .. Len(queue)
        <4>1. queue'[i] = queue[i] /\ queue[i] \in Nat /\ queue[i] < n
          BY <1>8, <2>1, <3>1
        <4>2. ASSUME NEW j \in 1 .. Len(queue'), i < j
              PROVE  queue'[i] < queue'[j]
          <5>1. CASE j \in 1 .. Len(queue)
            BY <2>1, <3>1, <4>1, <4>2, <5>1 DEF InHand
          <5>2. CASE j = Len(queue) + 1
            BY <2>1, <4>1, <5>2
          <5> QED BY <2>1, <5>1, <5>2
        <4>3. queue'[i] < Len(posted')
          BY <1>1, <1>10, <4>1
        <4> QED BY <1>1, <3>1, <4>1, <4>2, <4>3 DEF InHand
      <3>2. CASE i = Len(queue) + 1
        <4>1. queue'[i] = n
          BY <2>1, <3>2
        <4>2. \A j \in 1 .. Len(queue') : ~(i < j)
          BY <2>1, <3>2
        <4>3. n < Len(posted')
          BY <1>1, <1>10
        <4> QED BY <1>1, <1>8, <1>10, <4>1, <4>2, <4>3
      <3> QED BY <2>1, <3>1, <3>2
    <2>4. /\ \A k \in 1 .. Len(out') : out'[k].to < Len(posted')
          /\ hpc' # "idle" => cur' < Len(posted')
      BY <1>1, <1>7, <1>8
    <2>5. InHand'
      BY <1>1, <1>6, <2>3, <2>4 DEF InHand
    <2> QED BY <1>5, <2>2, <2>5
  <1> QED BY <1>4, <1>9, <1>10

\* The invariant of the composition.
LEMMA LoopKept == Spec => []LoopInv
  <1>1. LoopInv /\ [Next]_vars => LoopInv'
    <2> SUFFICES ASSUME LoopInv, [Next]_vars PROVE LoopInv'
      OBVIOUS
    <2>1. ReceiverInv'
      <3>1. [Receive]_recvVars
        BY DEF Next, vars
      <3> QED BY <3>1, ReceiveKeeps DEF LoopInv
    <2>2. CASE Receive /\ Post /\ UNCHANGED <<wants, loopVars>>
      BY <2>1, <2>2, PostKeeps DEF LoopInv
    <2>3. CASE (EventLoop \/ Discard) /\ UNCHANGED <<recvVars, wants>>
      BY <2>1, <2>3, TakeKeeps, IssueKeeps, AnsweredKeeps, TimedOutKeeps, DiscardKeeps
         DEF EventLoop, LoopInv
    <2>4. CASE UNCHANGED vars
      <3>1. RTypeOK'
        BY <2>1, <2>4 DEF vars, loopVars, LoopInv, ReceiverInv, RTypeOK, Asks
      <3>2. InHand' /\ RightAnswers'
        BY <2>4 DEF vars, recvVars, loopVars, LoopInv, InHand, RightAnswers, Own, Asks, TypeOf
      <3> QED BY <2>1, <3>1, <3>2 DEF LoopInv
    <2> QED BY <2>2, <2>3, <2>4 DEF Next
  <1> QED BY <1>1, LoopInit, PTL DEF Spec

\* The variables of receiver and event loop keep their types.
THEOREM RequestTypes == Spec => []RTypeOK
  BY LoopKept, PTL DEF LoopInv

\* Every frame to the client is of the type, in the place and with the data its
\* request asked for, unless an older answer was still on its way: for any
\* number of requests, of late and of lost answers.
THEOREM AnswersRight == Spec => []RightAnswers
  BY LoopKept, PTL DEF LoopInv
=============================================================================
