----------------------------- MODULE TMessageProofs -----------------------------
(***************************************************************************)
(* Proofs about TMessage, for frames of any number of data items and texts *)
(* of any length: which items run, and what the reply says of them.        *)
(***************************************************************************)
EXTENDS TMessage, SequenceTheorems, TLAPS

Place   == 1 .. MaxItems
OneItem == [of : Place, as : {"itself", "SYS_ItemError", "SYS_Error"}]

\* What was constructed so far are the first items of the payload, all well-formed.
Shape ==
  /\ frame \in Frames
  /\ listed \in BOOLEAN /\ (frame.mid # "unknown" => listed)
  /\ built \in Nat /\ built <= Len(frame.payload)
  /\ \A k \in 1 .. built : frame.payload[k] \in Runnable
  /\ next \in 1 .. built + 1
  /\ message \in [mid : {"run", "other", "unknown", "R", "E", "X", "zero"}, items : Seq(OneItem)]
  /\ anyError \in BOOLEAN
  /\ ran \in Seq(Place)

NotRun == ran = <<>> /\ ~anyError

\* Parsing has ended where it should.
Stopped  == built < Len(frame.payload) => frame.payload[built + 1] \in Enders \cup {"badlen"}
Accepted == listed /\ frame.sumOK /\ Stopped

Parsed(mid) ==
  /\ message.mid = mid /\ Len(message.items) = built
  /\ \A k \in 1 .. built : message.items[k] = [of |-> k, as |-> "itself"]

\* All that was parsed is gone.
Discarded ==
  /\ message.items = <<>>
  /\ \/ /\ message.mid = "X"
        /\ \E k \in DOMAIN frame.payload : frame.payload[k] \in {"refused", "unknown"}
     \/ message.mid = "zero" /\ (~listed \/ ~frame.sumOK)

\* The items before the n-th have run, and those that left a code are marked.
RunBefore(n) ==
  /\ Len(message.items) = built
  /\ Len(ran) = n - 1 /\ \A k \in 1 .. n - 1 : ran[k] = k
  /\ \A k \in 1 .. built : message.items[k] =
       [of |-> k,
        as |-> IF k < n /\ frame.payload[k] = "code" THEN "SYS_ItemError" ELSE "itself"]
  /\ anyError <=> \E k \in 1 .. n - 1 : Failed(k)

AtId     == pc = "id" => NotRun /\ built = 0 /\ message = NoMessage
AtParse  == pc = "parse" => NotRun /\ listed /\ next = built + 1 /\ Parsed("zero")
AtSum    == pc = "sum" => NotRun /\ listed /\ Stopped /\ Parsed("zero")
AtQueued == pc = "queued" => NotRun /\ (Discarded \/ (Accepted /\ Parsed(frame.mid)))
AtRun    == pc = "run" =>
              frame.mid = "run" /\ Accepted /\ message.mid = "run" /\ RunBefore(next)
AtReply  == pc = "reply" =>
  \/ NotRun /\ (Discarded \/ (Accepted /\ frame.mid # "run" /\ Parsed(frame.mid)))
  \/ /\ frame.mid = "run" /\ Accepted /\ RunBefore(built + 1)
     /\ message.mid = IF anyError THEN "E" ELSE "R"

Stations ==
  /\ pc \in {"id", "parse", "sum", "queued", "run", "reply"}
  /\ AtId /\ AtParse /\ AtSum /\ AtQueued /\ AtRun /\ AtReply

IInv == Shape /\ Stations

-----------------------------------------------------------------------------
\* A frame's payload is a sequence, and only its last item may end it.
LEMMA FrameFacts ==
  ASSUME NEW f \in Frames
  PROVE  /\ f.mid \in {"run", "other", "unknown"} /\ f.sumOK \in BOOLEAN
         /\ f.payload \in Seq(Kinds)
         /\ Len(f.payload) \in 0 .. MaxItems /\ DOMAIN f.payload = 1 .. Len(f.payload)
         /\ \A k \in 1 .. Len(f.payload) - 1 : f.payload[k] \notin Enders
<1>1. f.payload \in Payloads /\ f.mid \in {"run", "other", "unknown"} /\ f.sumOK \in BOOLEAN
  BY DEF Frames
<1>2. PICK n \in 0 .. MaxItems :
        f.payload \in {p \in [1 .. n -> Kinds] : \A k \in 1 .. n - 1 : p[k] \notin Enders}
  BY <1>1 DEF Payloads
<1>3. f.payload \in [1 .. n -> Kinds] /\ n \in Nat
  BY <1>2, MaxItemsAssumption
<1>4. f.payload \in Seq(Kinds) /\ Len(f.payload) = n
  BY <1>3
<1> QED
  BY <1>1, <1>2, <1>3, <1>4

LEMMA FactsOfFrame ==
  ASSUME Shape
  PROVE  /\ frame.mid \in {"run", "other", "unknown"} /\ frame.sumOK \in BOOLEAN
         /\ frame.payload \in Seq(Kinds)
         /\ Len(frame.payload) \in 0 .. MaxItems
         /\ DOMAIN frame.payload = 1 .. Len(frame.payload)
         /\ \A k \in 1 .. Len(frame.payload) - 1 : frame.payload[k] \notin Enders
BY FrameFacts DEF Shape

\* An error item with a text is too long to be built, one without is not.
LEMMA ErrorItems ==
  ASSUME NEW k, NEW did
  PROVE  ErrorItem(k, did, TextLength) = <<>> /\ ErrorItem(k, did, 0) = <<[of |-> k, as |-> did]>>
BY TextAssumption DEF ErrorItem, FixedLength, MaxLength

LEMMA IInvInit == Init => IInv
<1> SUFFICES ASSUME Init PROVE IInv
  OBVIOUS
<1>1. Len(frame.payload) \in Nat
  BY FrameFacts, MaxItemsAssumption DEF Init
<1>2. Shape
  <2>1. frame \in Frames /\ listed \in BOOLEAN /\ (frame.mid # "unknown" => listed)
    BY DEF Init
  <2>2. message \in [mid : {"run", "other", "unknown", "R", "E", "X", "zero"}, items : Seq(OneItem)]
    BY EmptySeq DEF Init, NoMessage
  <2>3. built = 0 /\ next = 1 /\ anyError = FALSE /\ ran = <<>>
    BY DEF Init
  <2>4. \A k \in 1 .. built : frame.payload[k] \in Runnable
    BY <2>3
  <2>5. built \in Nat /\ built <= Len(frame.payload) /\ next \in 1 .. built + 1
    BY <1>1, <2>3
  <2>6. anyError \in BOOLEAN /\ ran \in Seq(Place)
    BY <2>3, EmptySeq
  <2> QED
    BY <2>1, <2>2, <2>4, <2>5, <2>6 DEF Shape
<1> QED
  BY <1>2 DEF IInv, Init, Stations, AtId, AtParse, AtSum, AtQueued, AtRun, AtReply, NotRun

\* An unlisted MId: the message stays as TMessage() made it.
LEMMA CheckIdKeeps == ASSUME IInv, CheckId PROVE IInv'
<1>1. Shape'
  BY DEF IInv, Shape, CheckId
<1>2. NotRun' /\ message' = NoMessage /\ built' = 0 /\ next' = 1 /\ pc' \in {"parse", "queued"}
  BY DEF IInv, Shape, Stations, AtId, CheckId, NotRun
<1>3. pc' = "parse" => listed' /\ Parsed("zero")'
  BY <1>2, EmptySeq DEF CheckId, Parsed, NoMessage, IInv, Shape
<1>4. pc' = "queued" => Discarded'
  BY <1>2 DEF CheckId, Discarded, NoMessage, IInv, Shape
<1> QED
  BY <1>1, <1>2, <1>3, <1>4 DEF IInv, Stations, AtId, AtParse, AtSum, AtQueued, AtRun, AtReply

LEMMA ParseItemKeeps == ASSUME IInv, ParseItem PROVE IInv'
<1>1. /\ pc = "parse" /\ pc' = "parse" /\ next = built + 1 /\ Parsed("zero") /\ NotRun /\ listed
      /\ next <= Len(frame.payload) /\ frame.payload[next] \in Runnable
      /\ next' = next + 1 /\ built' = built + 1
      /\ UNCHANGED <<frame, listed, anyError, ran>>
      /\ message' = [message EXCEPT !.items = Append(@, [of |-> next, as |-> "itself"])]
  BY DEF IInv, Stations, AtParse, ParseItem, Item, InPayload
<1>2. Len(frame.payload) \in 0 .. MaxItems /\ built \in Nat
  BY FactsOfFrame DEF IInv, Shape
<1>3. message.items \in Seq(OneItem) /\ [of |-> next, as |-> "itself"] \in OneItem
  BY <1>1, <1>2, MaxItemsAssumption DEF IInv, Shape, OneItem, Place
<1>4. /\ message'.items = Append(message.items, [of |-> next, as |-> "itself"])
      /\ message'.mid = message.mid
      /\ message' \in [mid : {"run", "other", "unknown", "R", "E", "X", "zero"}, items : Seq(OneItem)]
  BY <1>1, <1>3, AppendProperties DEF IInv, Shape
<1>5. Shape'
  BY <1>1, <1>2, <1>4, SMTT(30) DEF IInv, Shape
<1>6. Parsed("zero")'
  BY <1>1, <1>2, <1>3, <1>4, AppendProperties DEF Parsed
<1> QED
  BY <1>1, <1>5, <1>6
     DEF IInv, Stations, AtId, AtParse, AtSum, AtQueued, AtRun, AtReply, NotRun

LEMMA ParseEndKeeps == ASSUME IInv, ParseEnd PROVE IInv'
<1>1. /\ pc = "parse" /\ pc' = "sum" /\ next = built + 1 /\ Parsed("zero") /\ NotRun /\ listed
      /\ next <= Len(frame.payload) => frame.payload[next] \in Enders \cup {"badlen"}
      /\ UNCHANGED <<frame, listed, next, built, message, anyError, ran>>
  BY DEF IInv, Stations, AtParse, ParseEnd, Item, InPayload
<1>2. Shape'
  BY <1>1 DEF IInv, Shape
<1>3. Stopped
  BY <1>1, FactsOfFrame DEF IInv, Shape, Stopped
<1> QED
  BY <1>1, <1>2, <1>3 DEF IInv, Stations, AtId, AtParse, AtSum, AtQueued, AtRun, AtReply,
                          NotRun, Stopped, Parsed

LEMMA ThrowKeeps == ASSUME IInv, ParseThrows PROVE IInv'
<1>1. /\ pc = "parse" /\ pc' = "queued" /\ NotRun
      /\ next <= Len(frame.payload) /\ frame.payload[next] \in {"refused", "unknown"}
      /\ message' = [mid |-> "X", items |-> <<>>]
      /\ UNCHANGED <<frame, listed, next, built, anyError, ran>>
  BY ErrorItems DEF IInv, Stations, AtParse, ParseThrows, Item, InPayload, XMessage
<1>2. next \in DOMAIN frame.payload
  BY <1>1, FactsOfFrame DEF IInv, Shape
<1>3. Shape'
  BY <1>1, EmptySeq DEF IInv, Shape
<1>4. Discarded'
  BY <1>1, <1>2 DEF Discarded
<1> QED
  BY <1>1, <1>3, <1>4 DEF IInv, Stations, AtId, AtParse, AtSum, AtQueued, AtRun, AtReply, NotRun

LEMMA CheckSumKeeps == ASSUME IInv, CheckSum PROVE IInv'
<1>1. /\ pc = "sum" /\ pc' = "queued" /\ NotRun /\ listed /\ Stopped /\ Parsed("zero")
      /\ message' = IF frame.sumOK THEN [message EXCEPT !.mid = frame.mid] ELSE NoMessage
      /\ UNCHANGED <<frame, listed, next, built, anyError, ran>>
  BY DEF IInv, Stations, AtSum, CheckSum
<1>2. Shape'
  BY <1>1, FactsOfFrame, EmptySeq DEF IInv, Shape, NoMessage
<1>3. CASE frame.sumOK
  <2>1. message'.mid = frame.mid /\ message'.items = message.items
    BY <1>1, <1>3 DEF IInv, Shape
  <2>2. Parsed(frame.mid)'
    BY <1>1, <2>1 DEF Parsed
  <2>3. Accepted'
    BY <1>1, <1>3 DEF Accepted, Stopped
  <2> QED
    BY <1>1, <1>2, <2>2, <2>3
       DEF IInv, Stations, AtId, AtParse, AtSum, AtQueued, AtRun, AtReply, NotRun
<1>4. CASE ~frame.sumOK
  <2>1. Discarded'
    BY <1>1, <1>4 DEF Discarded, NoMessage
  <2> QED
    BY <1>1, <1>2, <2>1
       DEF IInv, Stations, AtId, AtParse, AtSum, AtQueued, AtRun, AtReply, NotRun
<1> QED
  BY <1>3, <1>4

-----------------------------------------------------------------------------
\* The ActionThread takes the message.
LEMMA DequeueKeeps == ASSUME IInv, Dequeue PROVE IInv'
<1>1. /\ pc = "queued" /\ NotRun /\ (Discarded \/ (Accepted /\ Parsed(frame.mid)))
      /\ pc' = (IF message.mid = "run" THEN "run" ELSE "reply") /\ next' = 1
      /\ UNCHANGED <<frame, listed, built, message, anyError, ran>>
  BY DEF IInv, Stations, AtQueued, Dequeue
<1>2. Shape' /\ built \in Nat
  BY <1>1 DEF IInv, Shape
<1>3. (Accepted' <=> Accepted) /\ (Discarded' <=> Discarded) /\ (NotRun' <=> NotRun)
  BY <1>1 DEF Accepted, Stopped, Discarded, NotRun
<1>4. ASSUME message.mid = "run" PROVE frame.mid = "run" /\ Accepted /\ RunBefore(1)'
  <2>1. Accepted /\ Parsed(frame.mid) /\ frame.mid = "run"
    BY <1>1, <1>4 DEF Discarded, Parsed
  <2> QED
    BY <1>1, <1>2, <2>1 DEF Parsed, RunBefore, NotRun
<1>5. ASSUME message.mid # "run"
      PROVE  Discarded \/ (Accepted /\ frame.mid # "run" /\ Parsed(frame.mid)')
  BY <1>1, <1>5 DEF Parsed
<1> QED
  BY <1>1, <1>2, <1>3, <1>4, <1>5
     DEF IInv, Stations, AtId, AtParse, AtSum, AtQueued, AtRun, AtReply

LEMMA RunItemKeeps == ASSUME IInv, RunItem PROVE IInv'
<1>0. PICK n : n = next
  OBVIOUS
<1>1. /\ pc = "run" /\ pc' = "run" /\ frame.mid = "run" /\ Accepted /\ message.mid = "run"
      /\ RunBefore(n) /\ n <= Len(message.items)
      /\ next' = n + 1
      /\ UNCHANGED <<frame, listed, built>>
  BY <1>0 DEF IInv, Stations, AtRun, RunItem
<1>2. /\ n \in 1 .. built /\ built \in Nat /\ built <= MaxItems
      /\ Len(message.items) = built /\ message.items \in Seq(OneItem)
      /\ message \in [mid : {"run", "other", "unknown", "R", "E", "X", "zero"}, items : Seq(OneItem)]
  BY <1>0, <1>1, FactsOfFrame, MaxItemsAssumption DEF IInv, Shape, RunBefore
<1>3. /\ message.items[n] = [of |-> n, as |-> "itself"]
      /\ frame.payload[n] \in {"ok", "code", "throws"}
      /\ Running = frame.payload[n]
  BY <1>0, <1>1, <1>2 DEF RunBefore, IInv, Shape, Runnable, Running
<1>4. /\ ran' = Append(ran, n) /\ ran \in Seq(Place) /\ n \in Place
      /\ Len(ran) = n - 1
  BY <1>0, <1>1, <1>2, <1>3, MaxItemsAssumption DEF RunItem, IInv, Shape, Place, RunBefore
<1>5. ran' \in Seq(Place) /\ Len(ran') = n /\ \A k \in 1 .. n : ran'[k] = k
  BY <1>1, <1>2, <1>4, AppendProperties DEF RunBefore
<1>6. anyError' \in BOOLEAN /\ (anyError' <=> \E k \in 1 .. n : Failed(k))
  <2>1. /\ anyError \in BOOLEAN /\ (anyError <=> \E k \in 1 .. n - 1 : Failed(k))
        /\ anyError' = (IF Running = "ok" THEN anyError ELSE TRUE)
    BY <1>1 DEF RunBefore, RunItem, IInv, Shape
  <2>2. Failed(n) <=> Running # "ok"
    BY <1>3 DEF Failed
  <2>3. (\E k \in 1 .. n : Failed(k)) <=> (\E k \in 1 .. n - 1 : Failed(k)) \/ Failed(n)
    <3>1. \A k : k \in 1 .. n <=> k \in 1 .. n - 1 \/ k = n
      BY <1>2
    <3> QED
      BY <3>1
  <2> QED
    BY <2>1, <2>2, <2>3
<1>7. /\ message' \in [mid : {"run", "other", "unknown", "R", "E", "X", "zero"}, items : Seq(OneItem)]
      /\ message'.mid = "run" /\ Len(message'.items) = built
      /\ \A k \in 1 .. built : k # n => message'.items[k] = message.items[k]
      /\ message'.items[n] =
           [of |-> n, as |-> IF frame.payload[n] = "code" THEN "SYS_ItemError" ELSE "itself"]
  <2>1. CASE Running = "ok" \/ Running = "throws"
    <3>1. message' = message
      BY <1>0, <2>1, <1>3, ErrorItems DEF RunItem, ErrorText
    <3> QED
      BY <1>1, <1>2, <1>3, <2>1, <3>1
  <2>2. CASE Running = "code"
    <3>1. message' = [message EXCEPT !.items = [@ EXCEPT ![n] = [of |-> n, as |-> "SYS_ItemError"]]]
      <4>1. ErrorItem(message.items[next].of, "SYS_ItemError", ErrorText)
              = <<[of |-> n, as |-> "SYS_ItemError"]>>
        BY <1>0, <1>3, <2>2, ErrorItems DEF ErrorText
      <4>2. message' = [message EXCEPT !.items[next] =
                          ErrorItem(message.items[next].of, "SYS_ItemError", ErrorText)[1]]
        <5>1. ErrorItem(message.items[next].of, "SYS_ItemError", ErrorText) # <<>>
          BY <4>1
        <5> QED
          BY <2>2, <5>1, Zenon DEF RunItem
      <4>3. ErrorItem(message.items[next].of, "SYS_ItemError", ErrorText)[1]
              = [of |-> n, as |-> "SYS_ItemError"]
        BY <4>1
      <4> QED
        BY <1>0, <4>2, <4>3, Zenon
    <3>2. [of |-> n, as |-> "SYS_ItemError"] \in OneItem
      BY <1>4 DEF OneItem
    <3>3. /\ message'.items = [message.items EXCEPT ![n] = [of |-> n, as |-> "SYS_ItemError"]]
          /\ message'.mid = message.mid
      BY <1>2, <3>1
    <3>4. /\ message'.items \in Seq(OneItem) /\ Len(message'.items) = built
          /\ \A k \in 1 .. built : k # n => message'.items[k] = message.items[k]
          /\ message'.items[n] = [of |-> n, as |-> "SYS_ItemError"]
      BY <1>2, <3>2, <3>3, ExceptSeq
    <3> QED
      BY <1>1, <1>2, <1>3, <2>2, <3>1, <3>4
  <2> QED
    BY <1>3, <2>1, <2>2
<1>8. RunBefore(n + 1)'
  <2>1. \A k \in 1 .. built : message'.items[k] =
          [of |-> k,
           as |-> IF k < n + 1 /\ frame.payload[k] = "code" THEN "SYS_ItemError" ELSE "itself"]
    <3> TAKE k \in 1 .. built
    <3>1. CASE k = n
      BY <1>2, <1>7, <3>1
    <3>2. CASE k # n
      <4>1. k < n <=> k < n + 1
        BY <1>2, <3>2
      <4> QED
        BY <1>1, <1>7, <3>2, <4>1 DEF RunBefore
    <3> QED
      BY <3>1, <3>2
  <2>2. (n + 1) - 1 = n /\ (\A k \in 1 .. n : Failed(k)' <=> Failed(k))
    BY <1>1, <1>2 DEF Failed
  <2> QED
    BY <1>1, <1>5, <1>6, <1>7, <2>1, <2>2 DEF RunBefore
<1>9. Shape' /\ Accepted'
  BY <1>0, <1>1, <1>2, <1>5, <1>6, <1>7 DEF IInv, Shape, Accepted, Stopped
<1> QED
  BY <1>0, <1>1, <1>7, <1>8, <1>9
     DEF IInv, Stations, AtId, AtParse, AtSum, AtQueued, AtRun, AtReply

LEMMA RunEndKeeps == ASSUME IInv, RunEnd PROVE IInv'
<1>1. /\ pc = "run" /\ pc' = "reply" /\ frame.mid = "run" /\ Accepted
      /\ RunBefore(next) /\ next > Len(message.items)
      /\ message' = [message EXCEPT !.mid = IF anyError THEN "E" ELSE "R"]
      /\ UNCHANGED <<frame, listed, next, built, anyError, ran>>
  BY DEF IInv, Stations, AtRun, RunEnd
<1>2. next = built + 1 /\ built \in Nat
  BY <1>1 DEF IInv, Shape, RunBefore
<1>3. /\ message'.mid = (IF anyError THEN "E" ELSE "R") /\ message'.items = message.items
      /\ message' \in [mid : {"run", "other", "unknown", "R", "E", "X", "zero"}, items : Seq(OneItem)]
  BY <1>1 DEF IInv, Shape
<1>4. Shape' /\ Accepted'
  BY <1>1, <1>3 DEF IInv, Shape, Accepted, Stopped
<1>5. RunBefore(built + 1)'
  BY <1>1, <1>2, <1>3 DEF RunBefore, Failed
<1> QED
  BY <1>1, <1>3, <1>4, <1>5
     DEF IInv, Stations, AtId, AtParse, AtSum, AtQueued, AtRun, AtReply

LEMMA IInvStep == IInv /\ [Next]_vars => IInv'
<1> SUFFICES ASSUME IInv, [Next]_vars PROVE IInv'
  OBVIOUS
<1>1. CASE Next
  BY <1>1, CheckIdKeeps, ParseItemKeeps, ParseEndKeeps, ThrowKeeps, CheckSumKeeps,
     DequeueKeeps, RunItemKeeps, RunEndKeeps DEF Next
<1>2. CASE UNCHANGED vars
  BY <1>2 DEF vars, IInv, Shape, Stations, AtId, AtParse, AtSum, AtQueued, AtRun, AtReply,
              NotRun, Stopped, Accepted, Parsed, Discarded, RunBefore, Failed
<1> QED
  BY <1>1, <1>2

\* The inductive invariant holds throughout.
THEOREM Inductive == Spec => []IInv
BY IInvInit, IInvStep, PTL DEF Spec

\* A message, its items and the places they come from keep their types, for any bound
\* on the items of a frame.
THEOREM TMessageTypeOK == Spec => []TypeOK
<1>1. IInv => TypeOK
  <2> SUFFICES ASSUME IInv PROVE TypeOK
    OBVIOUS
  <2>1. built \in 0 .. MaxItems /\ next \in 1 .. MaxItems + 1
    BY FactsOfFrame, MaxItemsAssumption DEF IInv, Shape
  <2> QED
    BY <2>1 DEF IInv, Shape, Stations, TypeOK, Place, OneItem
<1> QED
  BY <1>1, Inductive, PTL

\* The k-th item of a reply is that of the k-th item of the request, and an error item
\* only where one has failed.
THEOREM ReplyPositions == Spec => []PositionsMatch
<1>1. IInv => PositionsMatch
  <2> SUFFICES ASSUME IInv, pc = "reply", NEW k \in DOMAIN message.items
               PROVE  /\ message.items[k].of = k
                      /\ message.items[k].as = "SYS_ItemError" => Failed(k)
    BY DEF PositionsMatch, Replied
  <2>1. message.items \in Seq(OneItem) /\ k \in 1 .. Len(message.items)
    BY LenProperties DEF IInv, Shape
  <2>2. message.items # <<>> => ~Discarded
    BY DEF Discarded
  <2>3. CASE message.items = <<>>
    BY <2>1, <2>3
  <2>4. CASE Parsed(frame.mid)
    <3>1. message.items[k] = [of |-> k, as |-> "itself"]
      BY <2>1, <2>4 DEF Parsed
    <3> QED
      BY <3>1
  <2>5. CASE RunBefore(built + 1)
    <3>1. message.items[k] =
            [of |-> k,
             as |-> IF k < built + 1 /\ frame.payload[k] = "code" THEN "SYS_ItemError" ELSE "itself"]
      BY <2>1, <2>5 DEF RunBefore
    <3> QED
      BY <3>1 DEF Failed
  <2> QED
    BY <2>2, <2>3, <2>4, <2>5 DEF IInv, Stations, AtReply
<1> QED
  BY <1>1, Inductive, PTL

\* What a reply R or E is made of.
LEMMA AfterRun ==
  ASSUME IInv, pc = "reply", message.mid \in {"R", "E"}
  PROVE  /\ RunBefore(built + 1) /\ message.mid = IF anyError THEN "E" ELSE "R"
         /\ built \in Nat /\ ran \in Seq(Place) /\ Len(ran) = built
         /\ \A k \in 1 .. built : ran[k] = k
<1>1. frame.mid \notin {"R", "E"} /\ built \in Nat /\ ran \in Seq(Place)
  BY FactsOfFrame DEF IInv, Shape
<1>2. ~Discarded /\ ~Parsed(frame.mid)
  BY <1>1 DEF Discarded, Parsed
<1>3. RunBefore(built + 1) /\ message.mid = IF anyError THEN "E" ELSE "R"
  BY <1>2 DEF IInv, Stations, AtReply
<1> QED
  BY <1>1, <1>3 DEF RunBefore

\* RunMessage runs every item that was constructed, once and in order, whatever the
\* others do.
THEOREM EveryItemRuns == Spec => []AllItemsRun
<1>1. IInv => AllItemsRun
  <2> SUFFICES ASSUME IInv, pc = "reply", message.mid \in {"R", "E"}
               PROVE  ran = [k \in 1 .. built |-> k]
    BY DEF AllItemsRun, Replied
  <2>1. ran \in Seq(Place) /\ Len(ran) = built /\ \A k \in 1 .. built : ran[k] = k
    BY AfterRun
  <2>2. ran \in [1 .. built -> Place]
    BY <2>1, LenProperties
  <2> QED
    BY <2>1, <2>2
<1> QED
  BY <1>1, Inductive, PTL

\* The MId of a reply says whether an item has failed.
THEOREM ErrorShown == Spec => []ErrorsShowInMId
<1>1. IInv => ErrorsShowInMId
  <2> SUFFICES ASSUME IInv, pc = "reply", message.mid \in {"R", "E"}
               PROVE  message.mid = "E" <=> \E k \in DOMAIN ran : Failed(ran[k])
    BY DEF ErrorsShowInMId, Replied
  <2>1. DOMAIN ran = 1 .. built /\ \A k \in 1 .. built : ran[k] = k
    BY AfterRun, LenProperties
  <2>2. message.mid = "E" <=> anyError
    BY AfterRun
  <2>3. anyError <=> \E k \in 1 .. (built + 1) - 1 : Failed(k)
    BY AfterRun DEF RunBefore
  <2>4. (built + 1) - 1 = built
    BY AfterRun
  <2> QED
    BY <2>1, <2>2, <2>3, <2>4
<1> QED
  BY <1>1, Inductive, PTL

\* An accepted message holds no item that the parser throws on.
LEMMA AcceptedSound == ASSUME Shape, Accepted PROVE ~Rejected
<1> SUFFICES ASSUME NEW k \in DOMAIN frame.payload,
                    frame.payload[k] \in {"refused", "unknown"},
                    \A j \in 1 .. k - 1 : frame.payload[j] # "badlen"
             PROVE  FALSE
  BY DEF Rejected, Accepted
<1>1. k \in 1 .. Len(frame.payload) /\ Len(frame.payload) \in Nat /\ built \in Nat
  BY FactsOfFrame, MaxItemsAssumption DEF Shape
<1>2. k > built
  BY <1>1, SMTT(30) DEF Shape, Runnable
<1>3. frame.payload[built + 1] \in Enders \cup {"badlen"}
  BY <1>1, <1>2 DEF Accepted, Stopped
<1>4. k # built + 1
  BY <1>3 DEF Enders
<1>5. built + 1 \in 1 .. k - 1 /\ built + 1 \in 1 .. Len(frame.payload) - 1
  BY <1>1, <1>2, <1>4
<1> QED
  BY <1>3, <1>5, FactsOfFrame

\* A message that is rejected runs nothing, not even the items before the one that is
\* at fault.
THEOREM RejectedNotRun == Spec => []RejectedRunsNothing
<1>1. IInv => RejectedRunsNothing
  <2> SUFFICES ASSUME IInv, Rejected PROVE ran = <<>>
    BY DEF RejectedRunsNothing
  <2>1. ~Accepted
    BY AcceptedSound DEF IInv
  <2> QED
    BY <2>1 DEF IInv, Stations, AtId, AtParse, AtSum, AtQueued, AtRun, AtReply, NotRun
<1> QED
  BY <1>1, Inductive, PTL

\* A sound request is answered in full: every item of it has its place in the reply,
\* whichever of them fail, and one that reports an error code is marked.
THEOREM AnsweredInFull == Spec => []SoundAnsweredInFull
<1>1. IInv => SoundAnsweredInFull
  <2> DEFINE P == frame.payload
  <2> SUFFICES ASSUME IInv, pc = "reply", frame.mid = "run", ~SyntaxError,
                      \A k \in DOMAIN P : P[k] \in Runnable
               PROVE  /\ message.mid \in {"R", "E"}
                      /\ Len(message.items) = Len(P)
                      /\ \A k \in DOMAIN P :
                           P[k] = "code" => message.items[k].as = "SYS_ItemError"
    BY DEF SoundAnsweredInFull, Replied
  <2>1. DOMAIN P = 1 .. Len(P) /\ Len(P) \in Nat /\ built \in Nat /\ built <= Len(P)
    BY FactsOfFrame, MaxItemsAssumption DEF IInv, Shape
  <2>2. ~Discarded
    BY DEF Discarded, SyntaxError, IInv, Shape, Runnable
  <2>3. Accepted /\ RunBefore(built + 1) /\ message.mid = IF anyError THEN "E" ELSE "R"
    BY <2>2 DEF IInv, Stations, AtReply
  <2>4. built = Len(P)
    <3>1. built + 1 \in DOMAIN P => P[built + 1] \notin Enders \cup {"badlen"}
      BY DEF Runnable, Enders
    <3> QED
      BY <2>1, <2>3, <3>1 DEF Accepted, Stopped
  <2>5. (built + 1) - 1 = built /\ \A k \in 1 .. built : k < built + 1
    BY <2>1
  <2>7. \A k \in 1 .. built : P[k] = "code" => message.items[k].as = "SYS_ItemError"
    <3> TAKE k \in 1 .. built
    <3>1. message.items[k] =
            [of |-> k,
             as |-> IF k < built + 1 /\ P[k] = "code" THEN "SYS_ItemError" ELSE "itself"]
      BY <2>3 DEF RunBefore
    <3>2. k < built + 1
      BY <2>5
    <3> QED
      BY <3>1, <3>2
  <2>8. Len(message.items) = built
    BY <2>3 DEF RunBefore
  <2> QED
    BY <2>1, <2>3, <2>4, <2>7, <2>8
<1> QED
  BY <1>1, Inductive, PTL

=============================================================================
