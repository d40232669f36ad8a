----------------------------- MODULE UploadProofs -----------------------------
(***************************************************************************)
(* Proofs about Upload, for any clients, paths, messages and number of     *)
(* failures.                                                               *)
(***************************************************************************)
EXTENDS Upload, SequenceTheorems, TLAPS

\* A file that is open was opened by its path; the buffer is one of an open file.
OpenHasPath == IF open THEN target \in Names ELSE pending = <<>>

\* Items are run on behalf of a client.
RunsForClient == msg # <<>> => by \in Clients

\* As long as the stream is good, what has reached the file and what waits in the
\* buffer are, together, the data items run since the name.
NothingLost == open /\ ~bad => files[target] \o pending = asked

IInv == TypeOK /\ OpenHasPath /\ RunsForClient /\ OpenIsNamed /\ NothingLost

-----------------------------------------------------------------------------
\* The two parts into which a sequence is cut.
LEMMA Cut ==
  ASSUME NEW S, NEW s \in Seq(S), NEW k \in 0 .. Len(s)
  PROVE  /\ First(s, k) \in Seq(S) /\ Rest(s, k) \in Seq(S)
         /\ First(s, k) \o Rest(s, k) = s
<1>1. Len(s) \in Nat /\ k \in Int /\ \A i \in 1 .. Len(s) : s[i] \in S
  BY LenProperties, ElementOfSeq
<1>2. First(s, k) \in Seq(S)
  <2>1. \A i \in 1 .. k : s[i] \in S
    BY <1>1
  <2> QED
    BY <1>1, <2>1, SubSeqProperties DEF First
<1>3. Rest(s, k) \in Seq(S)
  <2>1. \A i \in k + 1 .. Len(s) : s[i] \in S
    BY <1>1
  <2> QED
    BY <1>1, <2>1, SubSeqProperties DEF Rest
<1>4. SubSeq(s, 1, k) \o SubSeq(s, k + 1, Len(s)) = SubSeq(s, 1, Len(s))
  <2>1. 1 \in 1 .. Len(s) + 1 /\ k \in 1 - 1 .. Len(s) /\ Len(s) \in k .. Len(s)
    BY <1>1
  <2> QED
    BY <2>1, ConcatAdjacentSubSeq
<1> QED
  BY <1>2, <1>3, <1>4, SubSeqFull DEF First, Rest

\* The whole of a sequence is its first part.
LEMMA WholeIsFirst == ASSUME NEW S, NEW s \in Seq(S) PROVE First(s, Len(s)) = s
BY SubSeqFull DEF First

\* Data written in two pieces, or in one.
LEMMA UnitsAssociate ==
  \A s, t, u \in Seq(Units) : (s \o t) \o u = s \o (t \o u)
BY ConcatAssociative

\* Writing leaves the other files alone, and the files well formed.
LEMMA WriteAppends ==
  ASSUME files \in [Names -> Seq(Units)], target \in Names,
         NEW s \in Seq(Units), NEW k \in 0 .. Len(s), Write(s, k)
  PROVE  /\ files' \in [Names -> Seq(Units)]
         /\ files'[target] = files[target] \o First(s, k)
<1>1. First(s, k) \in Seq(Units)
  BY Cut
<1>2. files[target] \o First(s, k) \in Seq(Units)
  BY <1>1, ConcatProperties
<1> QED
  BY <1>2 DEF Write

\* A failed call counts, a good one does not.
LEMMA FailsCounted == fails \in Nat /\ (Works \/ Fails) => fails' \in Nat
BY UploadAssumption DEF Works, Fails

\* Closing leaves the file with all of the buffer or the stream bad.
LEMMA CloseFlushes ==
  ASSUME TypeOK, target \in Names, Close
  PROVE  /\ files' \in [Names -> Seq(Units)] /\ bad' \in BOOLEAN /\ fails' \in Nat
         /\ open' = FALSE /\ pending' = <<>>
         /\ ~bad' => ~bad /\ files'[target] = files[target] \o pending
<1>1. CASE Works /\ bad' = bad /\ Write(pending, Len(pending))
  <2>1. pending \in Seq(Units) /\ Len(pending) \in 0 .. Len(pending)
    BY LenProperties DEF TypeOK
  <2>2. /\ files' \in [Names -> Seq(Units)]
        /\ files'[target] = files[target] \o First(pending, Len(pending))
    BY <1>1, <2>1, WriteAppends DEF TypeOK
  <2> QED
    BY <1>1, <2>1, <2>2, WholeIsFirst, FailsCounted DEF Close, TypeOK
<1>2. CASE Fails /\ bad' = TRUE /\ \E k \in 0 .. Len(pending) : Write(pending, k)
  <2>1. PICK k \in 0 .. Len(pending) : Write(pending, k)
    BY <1>2
  <2>2. files' \in [Names -> Seq(Units)]
    BY <2>1, WriteAppends DEF TypeOK
  <2> QED
    BY <1>2, <2>2, FailsCounted DEF Close, TypeOK
<1> QED
  BY <1>1, <1>2 DEF Close

\* A good write loses nothing: the item is on the file or in the buffer.
LEMMA WriteKeeps ==
  ASSUME TypeOK, target \in Names, NEW unit \in Units, WriteData(unit), open
  PROVE  /\ files' \in [Names -> Seq(Units)] /\ pending' \in Seq(Units)
         /\ bad' \in BOOLEAN /\ fails' \in Nat /\ open'
         /\ ~bad' => /\ ~bad
                     /\ files'[target] \o pending' = Append(files[target] \o pending, unit)
<1> DEFINE data == Append(pending, unit)
<1>1. data \in Seq(Units) /\ data = pending \o <<unit>> /\ <<unit>> \in Seq(Units)
  BY AppendProperties, AppendIsConcat DEF TypeOK
<1>2. CASE /\ ~bad /\ Works /\ UNCHANGED <<open, bad>>
           /\ \E k \in 0 .. Len(data) : Write(data, k) /\ pending' = Rest(data, k)
  <2>1. PICK k \in 0 .. Len(data) : Write(data, k) /\ pending' = Rest(data, k)
    BY <1>2
  <2>2. /\ First(data, k) \in Seq(Units) /\ Rest(data, k) \in Seq(Units)
        /\ First(data, k) \o Rest(data, k) = data
    BY <1>1, Cut
  <2>3. /\ files' \in [Names -> Seq(Units)]
        /\ files'[target] = files[target] \o First(data, k)
    BY <1>1, <2>1, WriteAppends DEF TypeOK
  <2>4. files[target] \in Seq(Units) /\ pending \in Seq(Units)
    BY DEF TypeOK
  <2>5. files'[target] \o pending' = files[target] \o data
    <3>1. (files[target] \o First(data, k)) \o Rest(data, k)
            = files[target] \o (First(data, k) \o Rest(data, k))
      BY <2>2, <2>4, UnitsAssociate
    <3> QED
      BY <2>1, <2>2, <2>3, <3>1
  <2>6. files[target] \o data = Append(files[target] \o pending, unit)
    <3>1. (files[target] \o pending) \o <<unit>> = files[target] \o (pending \o <<unit>>)
      BY <1>1, <2>4, UnitsAssociate
    <3>2. files[target] \o pending \in Seq(Units)
      BY <2>4, ConcatProperties
    <3>3. Append(files[target] \o pending, unit) = (files[target] \o pending) \o <<unit>>
      BY <3>2, AppendIsConcat
    <3> QED
      BY <1>1, <3>1, <3>3
  <2> HIDE DEF data
  <2> QED
    BY <1>2, <2>1, <2>2, <2>3, <2>5, <2>6, FailsCounted DEF TypeOK
<1>3. CASE /\ ~bad /\ Fails /\ bad' = TRUE /\ UNCHANGED open
           /\ pending' \in {pending, data}
           /\ \E k \in 0 .. Len(pending) : Write(data, k)
  <2>1. PICK k \in 0 .. Len(pending) : Write(data, k)
    BY <1>3
  <2>2. k \in 0 .. Len(data)
    BY AppendProperties, LenProperties DEF TypeOK
  <2>3. files' \in [Names -> Seq(Units)]
    BY <1>1, <2>1, <2>2, WriteAppends DEF TypeOK
  <2> HIDE DEF data
  <2> QED
    BY <1>1, <1>3, <2>3, FailsCounted DEF TypeOK
<1>4. CASE bad /\ Works /\ UNCHANGED <<open, bad, pending, files>>
  BY <1>4, FailsCounted DEF TypeOK
<1> QED
  BY <1>2, <1>3, <1>4 DEF WriteData

-----------------------------------------------------------------------------
\* At the start no file is open.
LEMMA InitInv == Init => IInv
<1> SUFFICES ASSUME Init PROVE IInv
  OBVIOUS
<1>1. <<>> \in Seq(Units) /\ <<>> \in Seq(Kinds)
  BY EmptySeq
<1>2. TypeOK
  BY <1>1 DEF Init, TypeOK
<1>3. OpenHasPath /\ RunsForClient /\ OpenIsNamed /\ NothingLost
  BY DEF Init, OpenHasPath, RunsForClient, OpenIsNamed, NothingLost
<1> QED
  BY <1>2, <1>3 DEF IInv

\* Every step keeps the invariant.
LEMMA StepInv == IInv /\ [Next]_vars => IInv'
<1> SUFFICES ASSUME IInv, [Next]_vars PROVE IInv'
  OBVIOUS
<1> USE DEF IInv
<1>e. <<>> \in Seq(Units) /\ <<>> \in Seq(Kinds)
  BY EmptySeq
<1>t. msg # <<>> => Tail(msg) \in Seq(Kinds)
  BY HeadTailProperties DEF TypeOK
<1>1. ASSUME NEW c \in Clients, Begin(c) PROVE IInv'
  <2>1. TypeOK'
    BY <1>1, UploadAssumption DEF Begin, TypeOK, stream
  <2> QED
    BY <1>1, <2>1
    DEF Begin, stream, OpenHasPath, RunsForClient, OpenIsNamed, NothingLost
<1>2. CASE CloseLast
  <2>1. target \in Names
    BY <1>2 DEF CloseLast, OpenHasPath
  <2>2. /\ files' \in [Names -> Seq(Units)] /\ bad' \in BOOLEAN /\ fails' \in Nat
        /\ open' = FALSE /\ pending' = <<>> /\ target' = target
    BY <1>2, <2>1, CloseFlushes DEF CloseLast
  <2>3. /\ msg' \in Seq(Kinds) /\ by' = by /\ arg' = arg /\ sent' = sent
        /\ refused' \in BOOLEAN /\ (msg' # <<>> => msg # <<>>)
        /\ named' \in {named, arg} /\ asked' \in {asked, <<>>}
    BY <1>2, <1>t DEF CloseLast, ItemRun, NameRun, message, TypeOK
  <2>4. TypeOK'
    BY <1>e, <2>2, <2>3 DEF TypeOK
  <2> QED
    BY <2>2, <2>3, <2>4 DEF OpenHasPath, RunsForClient, OpenIsNamed, NothingLost
<1>3. CASE OpenNamed
  <2>1. /\ target' \in Names \cup {NoName} /\ (target' # NoName => target' = arg)
        /\ named' = arg /\ asked' = <<>> /\ pending' = pending /\ pending = <<>>
    BY <1>3 DEF OpenNamed, NameRun, OpenHasPath, TypeOK
  <2>2. /\ msg' \in Seq(Kinds) /\ by' = by /\ arg' = arg /\ sent' = sent
        /\ (msg' # <<>> => msg # <<>>) /\ refused' = (refused \/ bad')
    BY <1>3, <1>t DEF OpenNamed, ItemRun, NameRun
  <2>3. CASE /\ target' # NoName /\ Works /\ open' = TRUE /\ bad' = FALSE
             /\ files' = [files EXCEPT ![target'] = <<>>]
    <3>1. files' \in [Names -> Seq(Units)] /\ files'[target'] = <<>> /\ fails' \in Nat
      BY <1>e, <2>1, <2>3, FailsCounted DEF TypeOK
    <3>2. TypeOK'
      BY <1>e, <2>1, <2>2, <2>3, <3>1 DEF TypeOK
    <3>3. <<>> \o <<>> = <<>>
      BY <1>e, ConcatEmptySeq
    <3> QED
      BY <2>1, <2>2, <2>3, <3>1, <3>2, <3>3
      DEF OpenHasPath, RunsForClient, OpenIsNamed, NothingLost
  <2>4. CASE /\ IF target' = NoName THEN Works ELSE Fails
             /\ open' = FALSE /\ bad' = TRUE /\ UNCHANGED files
    <3>1. TypeOK'
      BY <1>e, <2>1, <2>2, <2>4, FailsCounted DEF TypeOK
    <3> QED
      BY <2>1, <2>2, <2>4, <3>1 DEF OpenHasPath, RunsForClient, OpenIsNamed, NothingLost
  <2> QED
    BY <1>3, <2>3, <2>4 DEF OpenNamed, Open
<1>4. CASE GoData
  <2> DEFINE unit == <<by, sent>>
  <2>1. unit \in Units
    BY <1>4 DEF GoData, RunsForClient, Units, TypeOK
  <2>2. /\ asked' = Append(asked, unit) /\ asked' \in Seq(Units) /\ sent' \in Nat
        /\ target' = target /\ named' = named
    BY <1>4, <2>1, AppendProperties DEF GoData, TypeOK
  <2>3. CASE open /\ WriteData(unit) /\ ItemRun(bad')
    <3>1. target \in Names
      BY <2>3 DEF OpenHasPath
    <3>2. /\ files' \in [Names -> Seq(Units)] /\ pending' \in Seq(Units)
          /\ bad' \in BOOLEAN /\ fails' \in Nat /\ open'
          /\ ~bad' => /\ ~bad
                      /\ files'[target] \o pending' = Append(files[target] \o pending, unit)
      BY <2>1, <2>3, <3>1, WriteKeeps
    <3>3. /\ msg' \in Seq(Kinds) /\ by' = by /\ arg' = arg
          /\ (msg' # <<>> => msg # <<>>) /\ refused' \in BOOLEAN
      BY <1>4, <1>t, <2>3, <3>2 DEF GoData, ItemRun, TypeOK
    <3>4. open' = TRUE
      BY <2>3 DEF WriteData, TypeOK
    <3>5. TypeOK'
      BY <2>2, <3>2, <3>3, <3>4 DEF TypeOK
    <3> QED
      BY <2>2, <2>3, <3>1, <3>2, <3>3, <3>5
      DEF OpenHasPath, RunsForClient, OpenIsNamed, NothingLost
  <2>4. CASE ~open /\ Works /\ ItemRun(TRUE) /\ UNCHANGED <<open, bad, pending, files>>
    <3>1. /\ msg' \in Seq(Kinds) /\ by' = by /\ arg' = arg
          /\ (msg' # <<>> => msg # <<>>) /\ refused' = TRUE
      BY <1>4, <1>t, <2>4 DEF GoData, ItemRun
    <3>2. TypeOK'
      BY <2>2, <2>4, <3>1, FailsCounted DEF TypeOK
    <3> QED
      BY <2>2, <2>4, <3>1, <3>2 DEF OpenHasPath, RunsForClient, OpenIsNamed, NothingLost
  <2> QED
    BY <1>4, <2>3, <2>4 DEF GoData
<1>5. CASE GoEnd
  <2>1. /\ target' = target /\ sent' = sent /\ named' = named /\ asked' = asked
    BY <1>5 DEF GoEnd
  <2>2. CASE open /\ Close /\ ItemRun(bad')
    <3>1. /\ files' \in [Names -> Seq(Units)] /\ bad' \in BOOLEAN /\ fails' \in Nat
          /\ open' = FALSE /\ pending' = <<>>
      BY <2>2, CloseFlushes DEF OpenHasPath
    <3>2. /\ msg' \in Seq(Kinds) /\ by' = by /\ arg' = arg
          /\ (msg' # <<>> => msg # <<>>) /\ refused' \in BOOLEAN
      BY <1>5, <1>t, <2>2, <3>1 DEF GoEnd, ItemRun, TypeOK
    <3>3. TypeOK'
      BY <1>e, <2>1, <3>1, <3>2 DEF TypeOK
    <3> QED
      BY <2>1, <3>1, <3>2, <3>3 DEF OpenHasPath, RunsForClient, OpenIsNamed, NothingLost
  <2>3. CASE ~open /\ Works /\ ItemRun(TRUE) /\ UNCHANGED <<open, bad, pending, files>>
    <3>1. /\ msg' \in Seq(Kinds) /\ by' = by /\ arg' = arg
          /\ (msg' # <<>> => msg # <<>>) /\ refused' = TRUE
      BY <1>5, <1>t, <2>3 DEF GoEnd, ItemRun
    <3>2. TypeOK'
      BY <2>1, <2>3, <3>1, FailsCounted DEF TypeOK
    <3> QED
      BY <2>1, <2>3, <3>1, <3>2 DEF OpenHasPath, RunsForClient, OpenIsNamed, NothingLost
  <2> QED
    BY <1>5, <2>2, <2>3 DEF GoEnd
<1>6. CASE Reply
  <2>1. TypeOK'
    BY <1>6 DEF Reply, stream, TypeOK
  <2> QED
    BY <1>6, <2>1
    DEF Reply, stream, OpenHasPath, RunsForClient, OpenIsNamed, NothingLost
<1>7. CASE Crash
  <2>1. TypeOK'
    BY <1>7, <1>e DEF Crash, TypeOK
  <2> QED
    BY <1>7, <2>1 DEF Crash, OpenHasPath, RunsForClient, OpenIsNamed, NothingLost
<1>8. CASE UNCHANGED vars
  BY <1>8 DEF vars, stream, message, TypeOK, OpenHasPath, RunsForClient, OpenIsNamed,
              NothingLost
<1> QED
  BY <1>1, <1>2, <1>3, <1>4, <1>5, <1>6, <1>7, <1>8 DEF Next

\* The invariant holds in every state.
LEMMA Invariant == Spec => []IInv
BY InitInv, StepInv, PTL DEF Spec

-----------------------------------------------------------------------------
\* Type correctness.
THEOREM UploadTypeOK == Spec => []TypeOK
<1>1. IInv => TypeOK
  BY DEF IInv
<1> QED
  BY <1>1, Invariant, PTL

\* Data never goes to the file of an earlier session (SYS_.cpp:135-146).
THEOREM OpenStaysNamed == Spec => []OpenIsNamed
<1>1. IInv => OpenIsNamed
  BY DEF IInv
<1> QED
  BY <1>1, Invariant, PTL

\* A file closed without an error is complete (SYS_.cpp:137, 161): no failed write,
\* retry, crash or other client makes an incomplete one pass for it.
THEOREM ClosedComplete == Spec => ClosedFilesComplete
<1> DEFINE Complete == open /\ ~open' /\ ~bad' /\ by' # NoClient => files'[target] = asked
<1>1. IInv /\ [Next]_vars => [Complete]_vars
  <2> SUFFICES ASSUME IInv, Next, open, ~open', ~bad', by' # NoClient
               PROVE  files'[target] = asked
    BY DEF vars, stream
  <2>1. target \in Names
    BY DEF IInv, OpenHasPath
  <2>2. Close => files'[target] = asked
    BY <2>1, CloseFlushes DEF IInv, NothingLost
  <2>3. ASSUME NEW c \in Clients, Begin(c) PROVE FALSE
    BY <2>3 DEF Begin, stream
  <2>4. CASE GoData
    <3>1. WriteData(<<by, sent>>)
      BY <2>4 DEF GoData
    <3> QED
      BY <3>1 DEF WriteData
  <2>5. CASE GoEnd
    BY <2>2, <2>5 DEF GoEnd
  <2> QED
    BY <2>2, <2>3, <2>4, <2>5 DEF Next, CloseLast, OpenNamed, Reply, Crash, stream
<1> QED
  BY <1>1, Invariant, PTL DEF Spec, ClosedFilesComplete

=============================================================================
