-------------------------------- MODULE TMessage --------------------------------
(***************************************************************************)
(* The life of one message: a receiver thread parses the frame             *)
(* (TMessage::FromBytes, called by GotMessage), the ActionThread runs its  *)
(* data items (RunMessage) and what is left of it is the reply.            *)
(*                                                                         *)
(* A data item is what the code will make of it:                           *)
(*   "ok"       well-formed, and its Go() succeeds                         *)
(*   "code"     well-formed, and its Go() leaves an error code             *)
(*   "throws"   well-formed, and its Go() throws                           *)
(*   "refused"  its constructor throws (a bad parameter, mostly)           *)
(*   "unknown"  its DId is not in DIdDict                                  *)
(*   "badlen"   its length is not one that its DId allows                  *)
(*   "overrun"  its length exceeds what is left of the payload             *)
(*   "scrap"    one to three bytes, too few for a data item's header       *)
(* The last two end a payload.  A text is "" or not: what counts is whether*)
(* it still fits into an error item.                                       *)
(***************************************************************************)
EXTENDS Integers, Sequences, FiniteSets

CONSTANTS
  MaxItems,   \* bound: data items of a frame
  TextLength  \* length of an exception's text

ASSUME MaxItemsAssumption == MaxItems \in Nat
ASSUME TextAssumption == TextLength \in Nat \ {0}

Runnable == {"ok", "code", "throws"}
Enders   == {"overrun", "scrap"}
Kinds    == Runnable \cup Enders \cup {"refused", "unknown", "badlen"}

Payloads == UNION {{p \in [1 .. n -> Kinds] : \A k \in 1 .. n - 1 : p[k] \notin Enders}
                     : n \in 0 .. MaxItems}

\* "run" stands for the MIds Q, C and M, "other" for R, X, E and H.
Frames == [mid : {"run", "other", "unknown"}, sumOK : BOOLEAN, payload : Payloads]

VARIABLES
  frame,      \* the frame received
  listed,     \* does isValidMessageID find its MId?
  pc,         \* how far the message is
  next,       \* the data item handled next
  built,      \* how many data items were constructed
  message,    \* the TMessage object, later the reply
  anyError,   \* RunMessage's local variable
  ran         \* history: the data items run, in order

vars == <<frame, listed, pc, next, built, message, anyError, ran>>

TypeOK ==
  /\ frame \in Frames
  /\ listed \in BOOLEAN
  /\ pc \in {"id", "parse", "sum", "queued", "run", "reply"}
  /\ next \in 1 .. MaxItems + 1 /\ built \in 0 .. MaxItems
  /\ message.mid \in {"run", "other", "unknown", "R", "E", "X", "zero"}
  /\ message.items \in Seq([of : 1 .. MaxItems, as : {"itself", "SYS_ItemError", "SYS_Error"}])
  /\ anyError \in BOOLEAN
  /\ ran \in Seq(1 .. MaxItems)

\* TMessage(): value-initialised, so its MId is 0; and TMessage('X').
NoMessage == [mid |-> "zero", items |-> <<>>]
XMessage  == [mid |-> "X", items |-> <<>>]

\* ValidMessageIDs has 7 entries; the loop compares the sizeof of a vector, 24, and
\* may find any byte that lies behind them.
Init ==
  /\ frame \in Frames
  /\ listed \in IF frame.mid = "unknown" THEN BOOLEAN ELSE {TRUE}
  /\ pc = "id" /\ next = 1 /\ built = 0
  /\ message = NoMessage
  /\ anyError = FALSE
  /\ ran = <<>>

-----------------------------------------------------------------------------
(* The receiver thread: TMessage::FromBytes.                               *)

CheckId ==
  /\ pc = "id"
  /\ pc' = IF listed THEN "parse" ELSE "queued"
  /\ UNCHANGED <<frame, listed, next, built, message, anyError, ran>>

Item == frame.payload[next]
InPayload == next <= Len(frame.payload)

\* FAULT (ParseItem): a data item of bad length is left out and parsing goes on.
ParseItemSkips ==
  /\ pc = "parse" /\ InPayload /\ Item \in Runnable \cup {"badlen"}
  /\ next' = next + 1 /\ built' = built + 1
  /\ message' = [message EXCEPT !.items =
       IF Item = "badlen" THEN @ ELSE Append(@, [of |-> next, as |-> "itself"])]
  /\ UNCHANGED <<frame, listed, pc, anyError, ran>>

\* The next data item is constructed.
ParseItem ==
  /\ pc = "parse" /\ InPayload /\ Item \in Runnable
  /\ next' = next + 1 /\ built' = built + 1
  /\ message' = [message EXCEPT !.items = Append(@, [of |-> next, as |-> "itself"])]
  /\ UNCHANGED <<frame, listed, pc, anyError, ran>>

\* The loop ends: at the end of the payload, or at an item whose length is wrong.
\* The result code says so, but GotMessage does not read it.
ParseEnd ==
  /\ pc = "parse" /\ (InPayload => Item \in Enders \cup {"badlen"})
  /\ pc' = "sum"
  /\ UNCHANGED <<frame, listed, next, built, message, anyError, ran>>

\* What an error item carries beside its text, and the longest that DIdDict allows.
FixedLength == 12
MaxLength   == 12

\* BuildSysError, BuildSysItemError: BuildDataItem returns nullptr when the payload
\* is longer than the DId allows.
ErrorItem(k, did, text) ==
  IF FixedLength + text <= MaxLength THEN <<[of |-> k, as |-> did]>> ELSE <<>>

\* FAULT (ParseThrows): what was parsed so far is kept.
ParseThrowsKeeps ==
  /\ pc = "parse" /\ InPayload /\ Item \in {"refused", "unknown"}
  /\ pc' = "sum"
  /\ UNCHANGED <<frame, listed, next, built, message, anyError, ran>>

\* An exception: GotMessage makes an X message of it.
ParseThrows ==
  /\ pc = "parse" /\ InPayload /\ Item \in {"refused", "unknown"}
  /\ message' = [XMessage EXCEPT !.items = ErrorItem(next, "SYS_Error", TextLength)]
  /\ pc' = "queued"
  /\ UNCHANGED <<frame, listed, next, built, anyError, ran>>

\* The checksum is tested after the data items were constructed.
CheckSum ==
  /\ pc = "sum"
  /\ message' = IF frame.sumOK THEN [message EXCEPT !.mid = frame.mid] ELSE NoMessage
  /\ pc' = "queued"
  /\ UNCHANGED <<frame, listed, next, built, anyError, ran>>

-----------------------------------------------------------------------------
(* The ActionThread: RunMessage.                                           *)

\* Any MId but Q, C and M is taken for a reply.
Dequeue ==
  /\ pc = "queued"
  /\ pc' = IF message.mid = "run" THEN "run" ELSE "reply"
  /\ next' = 1
  /\ UNCHANGED <<frame, listed, built, message, anyError, ran>>

Running == frame.payload[message.items[next].of]

\* The text that comes with the error, if any.
ErrorText == IF Running = "throws" THEN TextLength ELSE 0

\* FAULT (RunItem): the first error ends the message.
RunItemStops ==
  /\ pc = "run" /\ next <= Len(message.items)
  /\ ran' = Append(ran, message.items[next].of)
  /\ next' = IF Running = "ok" THEN next + 1 ELSE Len(message.items) + 1
  /\ \/ Running = "ok" /\ UNCHANGED <<message, anyError>>
     \/ /\ Running # "ok"
        /\ anyError' = TRUE
        /\ message' = [message EXCEPT !.items = [@ EXCEPT ![next].as = "SYS_ItemError"]]
  /\ UNCHANGED <<frame, listed, pc, built>>

\* FAULT (RunItem): the error of an earlier item is forgotten.
RunItemForgets ==
  /\ pc = "run" /\ next <= Len(message.items)
  /\ ran' = Append(ran, message.items[next].of)
  /\ next' = next + 1
  /\ anyError' = (Running # "ok")
  /\ UNCHANGED <<frame, listed, pc, built, message>>

\* FAULT (RunItem): a failed item for which no error item can be built is dropped.
RunItemDropsFailed ==
  /\ pc = "run" /\ next <= Len(message.items)
  /\ ran' = Append(ran, message.items[next].of)
  /\ LET error == ErrorItem(message.items[next].of, "SYS_ItemError", ErrorText)
         before == SubSeq(message.items, 1, next - 1)
         after == SubSeq(message.items, next + 1, Len(message.items))
     IN \/ Running = "ok" /\ next' = next + 1 /\ UNCHANGED <<message, anyError>>
        \/ /\ Running # "ok"
           /\ anyError' = TRUE /\ next' = next + Len(error)
           /\ message' = [message EXCEPT !.items = before \o error \o after]
  /\ UNCHANGED <<frame, listed, pc, built>>

\* Go(), and the error item that takes the place of one that failed.
RunItem ==
  /\ pc = "run" /\ next <= Len(message.items)
  /\ ran' = Append(ran, message.items[next].of)
  /\ next' = next + 1
  /\ \/ Running = "ok" /\ UNCHANGED <<message, anyError>>
     \/ /\ Running # "ok"
        /\ anyError' = TRUE
        /\ LET error == ErrorItem(message.items[next].of, "SYS_ItemError", ErrorText) IN
           \/ error = <<>> /\ UNCHANGED message
           \/ error # <<>> /\ message' = [message EXCEPT !.items[next] = error[1]]
  /\ UNCHANGED <<frame, listed, pc, built>>

\* setMId(anyError ? 'E' : 'R')
RunEnd ==
  /\ pc = "run" /\ next > Len(message.items)
  /\ message' = [message EXCEPT !.mid = IF anyError THEN "E" ELSE "R"]
  /\ pc' = "reply"
  /\ UNCHANGED <<frame, listed, next, built, anyError, ran>>

Next ==
  \/ CheckId \/ ParseItem \/ ParseEnd \/ ParseThrows \/ CheckSum
  \/ Dequeue \/ RunItem \/ RunEnd

Spec == Init /\ [][Next]_vars

-----------------------------------------------------------------------------
(* What a client may conclude from a reply.                                *)

Replied == pc = "reply"
Failed(k) == frame.payload[k] \in {"code", "throws"}

\* The k-th item of a reply is that of the k-th item of the request, and it is an
\* error item only if that one failed.
PositionsMatch ==
  Replied => \A k \in DOMAIN message.items :
    /\ message.items[k].of = k
    /\ message.items[k].as = "SYS_ItemError" => Failed(k)

\* Every data item that was constructed and not discarded is run, once and in order,
\* whatever the others do: an error does not keep a later item from running.
AllItemsRun ==
  Replied /\ message.mid \in {"R", "E"} => ran = [k \in 1 .. built |-> k]

\* R says that no item that was run has failed, E that one has.
ErrorsShowInMId ==
  Replied /\ message.mid \in {"R", "E"} =>
    (message.mid = "E" <=> \E k \in DOMAIN ran : Failed(ran[k]))

\* A data item that throws while it is constructed, a wrong checksum or an unlisted
\* MId keeps the whole message from running, the items before it included.
Rejected ==
  \/ ~listed \/ ~frame.sumOK
  \/ \E k \in DOMAIN frame.payload :
       /\ frame.payload[k] \in {"refused", "unknown"}
       /\ \A j \in 1 .. k - 1 : frame.payload[j] # "badlen"

RejectedRunsNothing == Rejected => ran = <<>>

\* Syntax Errors (README.md:78-82), as a function of the frame.
SyntaxError == \/ frame.mid = "unknown" \/ ~frame.sumOK
               \/ \E k \in DOMAIN frame.payload : frame.payload[k] \notin Runnable \cup {"refused"}

\* The Response to Messages that are "well formed", even if other categories of errors
\* are encountered, has the same number of TDataItems as the Message (README.md:72-74),
\* and an item that reports an error code is there as SYS_ItemError.  Of an item that
\* throws, FailedItemsMarked says what it should be and is not.
SoundAnsweredInFull ==
  Replied /\ frame.mid = "run" /\ ~SyntaxError
    /\ (\A k \in DOMAIN frame.payload : frame.payload[k] \in Runnable) =>
    /\ message.mid \in {"R", "E"}
    /\ Len(message.items) = Len(frame.payload)
    /\ \A k \in DOMAIN frame.payload :
         frame.payload[k] = "code" => message.items[k].as = "SYS_ItemError"

-----------------------------------------------------------------------------
(* What the documentation says beyond that.                                *)

\* Syntax Errors are caught, and reported, while the TByte Message is being parsed,
\* before any Actions are taken (TMessage.h:89).
SyntaxErrorsStopActions == Replied /\ SyntaxError => ran = <<>>

\* The MId for the Response to Messages that encounter a Syntax Error (during parse)
\* is "X" (TMessage.h:93).
BadSumsAnsweredX == Replied /\ frame.mid = "run" /\ ~frame.sumOK => message.mid = "X"

\* [...] with a single TDataItem of type DId == SYS_Error (TMessage.h:91).
XNamesTheError == Replied /\ message.mid = "X" => Len(message.items) = 1

\* [...] the TDataItem generated for TDataItems that had Semantic Errors will so
\* indicate via a special DId, SYS_ItemError (TMessage.h:106).
FailedItemsMarked ==
  Replied /\ message.mid = "E" => \A k \in DOMAIN message.items :
    Failed(k) => message.items[k].as = "SYS_ItemError"

\* Semantic Errors are caught, and the offending TDataItem is skipped, during the
\* execution of the Message's bundle of TDataItems (TMessage.h:101).
BadParametersSkipped ==
  Replied /\ frame.mid = "run" /\ ~SyntaxError =>
    \A k \in DOMAIN frame.payload :
      frame.payload[k] = "ok" => \E j \in DOMAIN ran : ran[j] = k

=============================================================================
