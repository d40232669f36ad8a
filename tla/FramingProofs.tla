----------------------------- MODULE FramingProofs -----------------------------
(***************************************************************************)
(* Proofs about Framing, for every stream of frames, every length and      *)
(* every way in which recv() splits and joins them.                        *)
(***************************************************************************)
EXTENDS Framing, SequenceTheorems, TLAPS

\* Until the connection is closed, the front of the buffer is the byte behind the
\* frames queued so far: the receiver never loses step.
InStep ==
  /\ Len(queued) <= Frames
  /\ pc # "closed" => front = ends[Len(queued)]

IInv == TypeOK /\ InStep /\ FramesAsSent /\ NoFrameWaits

-----------------------------------------------------------------------------
\* Lengths are numbers.
LEMMA Lengths ==
  /\ HeaderLength \in Nat /\ HeaderLength >= 1
  /\ MaxPayload \in Nat /\ RecvMax \in Nat /\ Frames \in Nat
BY FramesAssumption, LengthsAssumption

\* The ends of the frames are numbers that increase by at least a frame's length.
LEMMA StreamFacts ==
  ASSUME ends \in Streams
  PROVE  /\ \A k \in 0 .. Frames : ends[k] \in Nat
         /\ ends[0] = 0
         /\ \A j, k \in 0 .. Frames : j < k => ends[k] - ends[j] >= FrameLength(0)
         /\ \A k \in 1 .. Frames : PayloadOf(k) \in 0 .. MaxPayload + 1
                                   /\ ends[k] = ends[k-1] + FrameLength(PayloadOf(k))
<1>1. /\ ends \in [0 .. Frames -> 0 .. Frames * FrameLength(MaxPayload + 1)]
      /\ ends[0] = 0
      /\ \A j, k \in 0 .. Frames : j < k => ends[k] - ends[j] >= FrameLength(0)
      /\ \A k \in 1 .. Frames : ends[k] - ends[k-1] <= FrameLength(MaxPayload + 1)
  BY DEF Streams
<1>2. \A k \in 0 .. Frames : ends[k] \in Nat
  BY <1>1
<1>3. ASSUME NEW k \in 1 .. Frames
      PROVE  /\ PayloadOf(k) \in 0 .. MaxPayload + 1
             /\ ends[k] = ends[k-1] + FrameLength(PayloadOf(k))
  <2>1. k - 1 \in 0 .. Frames /\ k \in 0 .. Frames /\ k - 1 < k
    BY Lengths
  <2>2. ends[k] \in Nat /\ ends[k-1] \in Nat
    BY <1>2, <2>1
  <2>3. ends[k] - ends[k-1] >= FrameLength(0)
    BY <1>1, <2>1
  <2>4. ends[k] - ends[k-1] <= FrameLength(MaxPayload + 1)
    BY <1>1
  <2> QED
    BY <2>2, <2>3, <2>4, Lengths DEF PayloadOf, FrameLength
<1> QED
  BY <1>1, <1>2, <1>3

\* What is in the buffer.
LEMMA Positions ==
  ASSUME TypeOK
  PROVE  /\ arrived \in Nat /\ front \in Nat /\ front <= arrived
         /\ ends[Frames] \in Nat /\ arrived <= ends[Frames]
         /\ Len(queued) \in Nat
<1>1. ends[Frames] \in Nat
  BY StreamFacts, Lengths DEF TypeOK
<1>2. arrived \in 0 .. ends[Frames] /\ front \in 0 .. arrived
  BY DEF TypeOK
<1>3. Len(queued) \in Nat
  BY LenProperties DEF TypeOK
<1> QED
  BY <1>1, <1>2, <1>3

\* The frame after those queued.
LEMMA NextFrame ==
  ASSUME TypeOK, NEW n \in Nat, n + 1 <= Frames
  PROVE  /\ n + 1 \in 1 .. Frames /\ (n + 1) - 1 = n
         /\ ends[n] \in Nat /\ ends[n+1] \in Nat
         /\ PayloadOf(n + 1) \in 0 .. MaxPayload + 1
         /\ FrameLength(PayloadOf(n + 1)) = ends[n+1] - ends[n]
         /\ ends[n+1] - ends[n] >= HeaderLength
<1>1. n + 1 \in 1 .. Frames /\ (n + 1) - 1 = n /\ n \in 0 .. Frames /\ n + 1 \in 0 .. Frames
  BY Lengths
<1>2. ends[n] \in Nat /\ ends[n+1] \in Nat
  BY <1>1, StreamFacts DEF TypeOK
<1>3. PayloadOf(n + 1) \in 0 .. MaxPayload + 1
  BY <1>1, StreamFacts DEF TypeOK
<1>4. ends[n+1] = ends[n] + FrameLength(PayloadOf(n + 1))
  <2>1. ends[n+1] = ends[(n+1)-1] + FrameLength(PayloadOf(n + 1))
    BY <1>1, StreamFacts DEF TypeOK
  <2> QED
    BY <1>1, <2>1
<1>5. FrameLength(PayloadOf(n + 1)) = HeaderLength + PayloadOf(n + 1) + 1
  BY DEF FrameLength
<1> QED
  BY <1>1, <1>2, <1>3, <1>4, <1>5, Lengths

\* While the receiver is in step a header at the front states the length of the
\* next frame, and no header is there once all frames are taken.
LEMMA HeaderStates ==
  ASSUME IInv, pc = "process", HeaderThere
  PROVE  /\ Len(queued) + 1 \in 1 .. Frames
         /\ front = ends[Len(queued)]
         /\ Stated(front) = {PayloadOf(Len(queued) + 1)}
<1> DEFINE n == Len(queued)
<1>1. n \in 0 .. Frames /\ front = ends[n] /\ Frames \in Nat
  BY LenProperties, Lengths DEF IInv, TypeOK, InStep
<1>2. ends \in Streams /\ arrived \in Nat /\ front \in Nat /\ arrived <= ends[Frames]
  BY StreamFacts, Lengths DEF IInv, TypeOK
<1>3. n # Frames
  <2>1. SUFFICES ASSUME n = Frames PROVE FALSE
    OBVIOUS
  <2>2. arrived - front <= 0
    BY <1>1, <1>2, <2>1
  <2> QED
    BY <1>2, <2>2, Lengths DEF HeaderThere
<1>4. n + 1 \in 1 .. Frames
  BY <1>1, <1>3
<1>5. {k \in 1 .. Frames : ends[k-1] = front} = {n + 1}
  <2>1. ASSUME NEW k \in 1 .. Frames, ends[k-1] = front PROVE k = n + 1
    <3>1. k - 1 \in 0 .. Frames /\ ends[k-1] \in Nat /\ ends[n] \in Nat
      BY <1>1, <1>2, StreamFacts
    <3>2. ~(k - 1 < n) /\ ~(n < k - 1)
      <4>1. FrameLength(0) >= 1
        BY Lengths DEF FrameLength
      <4>2. /\ k - 1 < n => ends[n] - ends[k-1] >= FrameLength(0)
            /\ n < k - 1 => ends[k-1] - ends[n] >= FrameLength(0)
        BY <1>1, <1>2, <3>1, StreamFacts
      <4>3. ends[k-1] = ends[n]
        BY <1>1, <2>1
      <4> QED
        BY <3>1, <4>1, <4>2, <4>3, Lengths DEF FrameLength
    <3> QED
      BY <1>1, <3>1, <3>2
  <2>2. ends[(n + 1) - 1] = front
    BY <1>1
  <2> QED
    BY <1>4, <2>1, <2>2
<1> QED
  BY <1>1, <1>4, <1>5 DEF Stated

-----------------------------------------------------------------------------
\* recv() is called when the buffer is without a whole frame; what it returns is
\* looked at before the next call.
LEMMA RecvKeeps == ASSUME IInv, Recv \/ RecvEnd PROVE IInv'
<1>1. UNCHANGED <<ends, front, queued>> /\ pc' \in {"process", "closed"}
      /\ pc = "recv"
  BY DEF Recv, RecvEnd
<1>2. arrived' \in Nat /\ arrived <= arrived' /\ arrived' <= ends[Frames] /\ arrived \in Nat
  <2>1. arrived \in Nat /\ arrived <= ends[Frames]
    BY Positions DEF IInv
  <2> QED
    BY <2>1, Lengths DEF Recv, RecvEnd
<1>3. TypeOK'
  <2>1. front \in Nat /\ front <= arrived /\ ends[Frames] \in Nat
    BY Positions DEF IInv
  <2>2. arrived' \in 0 .. ends[Frames] /\ front \in 0 .. arrived'
    BY <1>2, <2>1
  <2> QED
    BY <1>1, <2>2 DEF IInv, TypeOK
<1>4. FramesAsSent'
  BY <1>1 DEF IInv, FramesAsSent, PayloadOf
<1> QED
  BY <1>1, <1>3, <1>4 DEF IInv, InStep, NoFrameWaits

\* The frame taken is the next one of the client's, whole.
LEMMA TakeFrameKeeps == ASSUME IInv, TakeFrame PROVE IInv'
<1> DEFINE n == Len(queued)
<1>1. /\ n + 1 \in 1 .. Frames /\ front = ends[n]
      /\ Stated(front) = {PayloadOf(n + 1)}
  BY HeaderStates DEF TakeFrame
<1>2. /\ PayloadOf(n + 1) <= MaxPayload
      /\ arrived - front >= FrameLength(PayloadOf(n + 1))
      /\ queued' = Append(queued, <<front, front + FrameLength(PayloadOf(n + 1))>>)
      /\ front' = front + FrameLength(PayloadOf(n + 1))
      /\ UNCHANGED <<ends, arrived, pc>> /\ pc = "process"
  BY <1>1 DEF TakeFrame
<1>3. /\ n \in Nat /\ n \in 0 .. Frames
      /\ ends[n] \in Nat /\ ends[n+1] \in Nat
      /\ FrameLength(PayloadOf(n + 1)) = ends[n+1] - ends[n]
  <2>1. n \in Nat /\ n + 1 <= Frames
    BY <1>1, Positions, Lengths DEF IInv
  <2> QED
    BY <1>1, <2>1, NextFrame, Lengths DEF IInv
<1>4. front' = ends[n+1] /\ queued' = Append(queued, <<ends[n], ends[n+1]>>)
  BY <1>1, <1>2, <1>3
<1>5. queued \in Seq(Nat \X Nat) /\ <<ends[n], ends[n+1]>> \in Nat \X Nat
  BY <1>3 DEF IInv, TypeOK
<1>6. /\ queued' \in Seq(Nat \X Nat) /\ Len(queued') = n + 1
      /\ \A k \in 1 .. n : queued'[k] = queued[k]
      /\ queued'[n+1] = <<ends[n], ends[n+1]>>
  BY <1>4, <1>5, AppendProperties
<1>7. front' \in 0 .. arrived
  BY <1>1, <1>2, <1>3, <1>4, Positions DEF IInv
<1>8. TypeOK'
  BY <1>2, <1>6, <1>7 DEF IInv, TypeOK
<1>9. InStep'
  BY <1>1, <1>2, <1>3, <1>4, <1>6 DEF InStep
<1>10. FramesAsSent'
  <2>1. ASSUME NEW k \in DOMAIN queued'
        PROVE  k <= Frames /\ queued'[k] = <<ends[k-1], ends[k]>> /\ PayloadOf(k) <= MaxPayload
    <3>1. DOMAIN queued' = 1 .. n + 1 /\ DOMAIN queued = 1 .. n
      BY <1>3, <1>5, <1>6, LenProperties
    <3>2. CASE k \in 1 .. n
      BY <1>6, <3>1, <3>2 DEF IInv, FramesAsSent
    <3>3. CASE k = n + 1
      <4>1. k - 1 = n /\ k <= Frames
        BY <1>1, <1>3, <3>3
      <4> QED
        BY <1>2, <1>6, <3>3, <4>1
    <3> QED
      BY <1>3, <3>1, <3>2, <3>3
  <2> QED
    BY <1>2, <2>1 DEF FramesAsSent, PayloadOf
<1>11. NoFrameWaits'
  BY <1>2 DEF NoFrameWaits
<1> QED
  BY <1>8, <1>9, <1>10, <1>11 DEF IInv

\* It goes back to recv() when the next frame, or its header, is incomplete.
LEMMA NeedMoreKeeps == ASSUME IInv, NeedMore PROVE IInv'
<1> DEFINE n == Len(queued)
<1>1. UNCHANGED <<ends, arrived, front, queued>> /\ pc = "process" /\ pc' = "recv"
  BY DEF NeedMore
<1>2. TypeOK' /\ InStep' /\ FramesAsSent'
  BY <1>1 DEF IInv, TypeOK, InStep, FramesAsSent, PayloadOf
<1>3. ASSUME n < Frames
      PROVE  /\ arrived < ends[n+1]
             /\ PayloadOf(n + 1) > MaxPayload => arrived < ends[n] + HeaderLength
  <2>1. n \in Nat /\ n + 1 <= Frames /\ front = ends[n]
    BY <1>1, <1>3, Positions, Lengths DEF IInv, InStep
  <2>2. /\ ends[n] \in Nat /\ ends[n+1] \in Nat /\ arrived \in Nat
        /\ FrameLength(PayloadOf(n + 1)) = ends[n+1] - ends[n]
        /\ ends[n+1] - ends[n] >= HeaderLength
    BY <2>1, NextFrame, Positions DEF IInv
  <2>3. CASE HeaderThere
    <3>1. PayloadOf(n + 1) <= MaxPayload /\ arrived - front < FrameLength(PayloadOf(n + 1))
      BY <1>1, <2>3, HeaderStates DEF NeedMore
    <3>2. PayloadOf(n + 1) \in 0 .. MaxPayload + 1
      BY <2>1, NextFrame DEF IInv
    <3> QED
      BY <2>1, <2>2, <3>1, <3>2, Lengths
  <2>4. CASE ~HeaderThere
    BY <2>1, <2>2, <2>4, Lengths DEF HeaderThere
  <2> QED
    BY <2>3, <2>4
<1>4. NoFrameWaits'
  <2>1. n < Frames =>
          LET k == n + 1 IN
          /\ arrived < ends[k]
          /\ PayloadOf(k) > MaxPayload => arrived < ends[k-1] + HeaderLength
    BY <1>3, Positions DEF IInv
  <2> QED
    BY <1>1, <2>1 DEF NoFrameWaits, PayloadOf
<1> QED
  BY <1>2, <1>4 DEF IInv

\* An oversize frame ends the connection.
LEMMA OversizeKeeps == ASSUME IInv, Oversize PROVE IInv'
<1>1. UNCHANGED <<ends, arrived, queued>> /\ pc' = "closed" /\ front' = arrived
  BY DEF Oversize
<1>2. TypeOK'
  BY <1>1, StreamFacts, Lengths DEF IInv, TypeOK
<1>3. FramesAsSent'
  BY <1>1 DEF IInv, FramesAsSent, PayloadOf
<1> QED
  BY <1>1, <1>2, <1>3 DEF IInv, InStep, NoFrameWaits

-----------------------------------------------------------------------------
THEOREM Inductive == Spec => []IInv
<1>1. ASSUME Init PROVE IInv
  <2>1. queued \in Seq(Nat \X Nat) /\ Len(queued) = 0 /\ DOMAIN queued = {}
    BY <1>1, EmptySeq DEF Init
  <2>2. ends \in Streams /\ ends[0] = 0 /\ ends[Frames] \in Nat /\ Frames \in Nat
    BY <1>1, StreamFacts, Lengths DEF Init
  <2>3. TypeOK
    BY <1>1, <2>1, <2>2 DEF Init, TypeOK
  <2>4. InStep /\ FramesAsSent
    BY <1>1, <2>1, <2>2 DEF Init, InStep, FramesAsSent
  <2>5. NoFrameWaits
    <3>1. ASSUME 0 < Frames
          PROVE  0 < ends[1] /\ (PayloadOf(1) > MaxPayload => 0 < ends[0] + HeaderLength)
      <4>1. 0 \in 0 .. Frames /\ 1 \in 0 .. Frames
        BY <2>2, <3>1
      <4>2. ends[1] - ends[0] >= FrameLength(0)
        BY <2>2, <4>1, StreamFacts
      <4>3. ends[1] \in Nat /\ FrameLength(0) \in Nat /\ FrameLength(0) >= 1
        BY <2>2, <4>1, StreamFacts, Lengths DEF FrameLength
      <4>4. 0 < ends[1]
        BY <2>2, <4>2, <4>3
      <4> QED
        BY <2>2, <4>4, Lengths
    <3>2. 0 + 1 = 1 /\ 1 - 1 = 0
      OBVIOUS
    <3> QED
      BY <1>1, <2>1, <3>1, <3>2 DEF Init, NoFrameWaits
  <2> QED
    BY <2>3, <2>4, <2>5 DEF IInv
<1>2. IInv /\ [Next]_vars => IInv'
  <2> SUFFICES ASSUME IInv, [Next]_vars PROVE IInv'
    OBVIOUS
  <2>1. CASE UNCHANGED vars
    BY <2>1 DEF vars, IInv, TypeOK, InStep, FramesAsSent, NoFrameWaits, PayloadOf
  <2> QED
    BY <2>1, RecvKeeps, TakeFrameKeeps, NeedMoreKeeps, OversizeKeeps DEF Next
<1> QED
  BY <1>1, <1>2, PTL DEF Spec

\* Type correctness: the buffer never ends beyond what has arrived.
THEOREM FramingTypeOK == Spec => []TypeOK
<1>1. IInv => TypeOK
  BY DEF IInv
<1> QED
  BY <1>1, Inductive, PTL

\* The frames queued are those the client sent, whole, in order, none left out,
\* however recv() cuts the stream (ProcessMessages, aioenetd.cpp:861).
THEOREM QueuedAsSent == Spec => []FramesAsSent
<1>1. IInv => FramesAsSent
  BY DEF IInv
<1> QED
  BY <1>1, Inductive, PTL

\* A frame that is whole is not left in the buffer until more bytes come.
THEOREM WholeFramesTaken == Spec => []NoFrameWaits
<1>1. IInv => NoFrameWaits
  BY DEF IInv
<1> QED
  BY <1>1, Inductive, PTL
=============================================================================
