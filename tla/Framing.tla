-------------------------------- MODULE Framing --------------------------------
(***************************************************************************)
(* How a receiver thread cuts the bytes of a control connection into       *)
(* frames: threadReceiver appends what recv() returns to its buffer, and   *)
(* ProcessMessages takes frames off the front while whole ones are there.  *)
(*                                                                         *)
(* Bytes are numbered from 0 in the order they were sent, and the bytes    *)
(* that frame k occupies are those from ends[k-1] up to ends[k] - 1: a     *)
(* header of HeaderLength bytes with the payload's length, the payload and *)
(* one checksum byte.  The buffer holds the bytes from front to            *)
(* arrived - 1.                                                            *)
(***************************************************************************)
EXTENDS Integers, Sequences

CONSTANTS
  Frames,        \* bound: frames that the client sends
  HeaderLength,  \* sizeof(TMessageId) + sizeof(TMessagePayloadSize)
  MaxPayload,    \* maxPayloadLength
  RecvMax        \* the most that one recv() returns

ASSUME FramesAssumption == Frames \in Nat
ASSUME LengthsAssumption ==
  HeaderLength \in Nat \ {0} /\ MaxPayload \in Nat /\ RecvMax \in Nat \ {0}

VARIABLES
  ends,     \* where the client's frames end
  arrived,  \* number of bytes that recv() has returned
  front,    \* the byte at the front of the buffer
  pc,       \* what the receiver thread does
  queued    \* the frames queued: where each starts and ends

vars == <<ends, arrived, front, pc, queued>>

\* sizeof(TCheckSum) is 1.
FrameLength(len) == HeaderLength + len + 1

\* The streams a client may send; a payload of MaxPayload + 1 stands for any longer.
Streams ==
  {e \in [0 .. Frames -> 0 .. Frames * FrameLength(MaxPayload + 1)] :
    /\ e[0] = 0
    /\ \A j, k \in 0 .. Frames : j < k => e[k] - e[j] >= FrameLength(0)
    /\ \A k \in 1 .. Frames : e[k] - e[k-1] <= FrameLength(MaxPayload + 1)}

TypeOK ==
  /\ ends \in Streams
  /\ arrived \in 0 .. ends[Frames]
  /\ front \in 0 .. arrived
  /\ pc \in {"recv", "process", "closed"}
  /\ queued \in Seq(Nat \X Nat)

Init ==
  /\ ends \in Streams
  /\ arrived = 0 /\ front = 0
  /\ pc = "recv"
  /\ queued = <<>>

PayloadOf(k) == ends[k] - ends[k-1] - FrameLength(0)

\* The length field of a header at byte p; anything if no frame starts there.
Stated(p) ==
  LET starting == {k \in 1 .. Frames : ends[k-1] = p}
  IN  IF starting = {} THEN 0 .. MaxPayload + 1 ELSE {PayloadOf(k) : k \in starting}

\* recv() returns some bytes.
Recv ==
  /\ pc = "recv"
  /\ \E n \in 1 .. RecvMax : arrived + n <= ends[Frames] /\ arrived' = arrived + n
  /\ pc' = "process"
  /\ UNCHANGED <<ends, front, queued>>

\* It returns 0 or fails.
RecvEnd ==
  /\ pc = "recv"
  /\ pc' = "closed"
  /\ UNCHANGED <<ends, arrived, front, queued>>

HeaderThere == arrived - front >= HeaderLength

\* FAULT (TakeFrame): the checksum byte stays in the buffer.
TakeFrameShort ==
  /\ pc = "process" /\ HeaderThere
  /\ \E len \in Stated(front) :
       /\ len <= MaxPayload /\ arrived - front >= FrameLength(len)
       /\ queued' = Append(queued, <<front, front + FrameLength(len)>>)
       /\ front' = front + HeaderLength + len
  /\ UNCHANGED <<ends, arrived, pc>>

\* The frame at the front is complete: it is parsed, queued and erased.
TakeFrame ==
  /\ pc = "process" /\ HeaderThere
  /\ \E len \in Stated(front) :
       /\ len <= MaxPayload /\ arrived - front >= FrameLength(len)
       /\ queued' = Append(queued, <<front, front + FrameLength(len)>>)
       /\ front' = front + FrameLength(len)
  /\ UNCHANGED <<ends, arrived, pc>>

\* FAULT (NeedMore): one frame is taken for each recv().
NeedMoreTooEarly ==
  /\ pc = "process"
  /\ HeaderThere => \E len \in Stated(front) : len <= MaxPayload
  /\ pc' = "recv"
  /\ UNCHANGED <<ends, arrived, front, queued>>

\* The header or the frame is incomplete: back to recv().
NeedMore ==
  /\ pc = "process"
  /\ HeaderThere =>
       \E len \in Stated(front) : len <= MaxPayload /\ arrived - front < FrameLength(len)
  /\ pc' = "recv"
  /\ UNCHANGED <<ends, arrived, front, queued>>

\* FAULT (Oversize): the frame is dropped, and what follows is taken for a header.
OversizeSkips ==
  /\ pc = "process" /\ HeaderThere
  /\ \E len \in Stated(front) : len > MaxPayload
  /\ front' = front + HeaderLength
  /\ UNCHANGED <<ends, arrived, pc, queued>>

\* The stated length is too long: the buffer is cleared, the connection closed.
Oversize ==
  /\ pc = "process" /\ HeaderThere
  /\ \E len \in Stated(front) : len > MaxPayload
  /\ front' = arrived
  /\ pc' = "closed"
  /\ UNCHANGED <<ends, arrived, queued>>

Next == Recv \/ RecvEnd \/ TakeFrame \/ NeedMore \/ Oversize

Spec == Init /\ [][Next]_vars

-----------------------------------------------------------------------------
\* However recv() splits or joins what the client sent, the frames queued are those
\* it sent, whole, in order, and none is left out; none is oversize, and none comes
\* after an oversize one (ProcessMessages, aioenetd.cpp:861).
FramesAsSent ==
  \A k \in DOMAIN queued :
    k <= Frames /\ queued[k] = <<ends[k-1], ends[k]>> /\ PayloadOf(k) <= MaxPayload

\* The receiver does not go back to recv() while a whole frame, or the header of an
\* oversize one, lies in its buffer.
NoFrameWaits ==
  pc = "recv" /\ Len(queued) < Frames =>
    LET k == Len(queued) + 1 IN
    /\ arrived < ends[k]
    /\ PayloadOf(k) > MaxPayload => arrived < ends[k-1] + HeaderLength

=============================================================================
