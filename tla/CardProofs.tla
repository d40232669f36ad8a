------------------------------ MODULE CardProofs ------------------------------
(***************************************************************************)
(* Proofs about the data items that work on the card: AdcScan, for any     *)
(* number of channels and of scans, and after it CardItems, for any        *)
(* receivers, registers and bounds.  The two have no name in common.       *)
(***************************************************************************)
EXTENDS AdcScan, CardItems, SequenceTheorems, FiniteSetTheorems, TLAPS

-----------------------------------------------------------------------------
(* AdcScan.                                                                *)

\* The range has been read and is not empty.
InScan == pc \in {"single", "discard", "mode", "drain", "start", "collect"}

\* What the steps of a scan have found out and left behind.
Shape ==
  /\ cfg.expected = cfg.nChannels
  /\ pc # "idle" => oversamples = 0 /\ scan >= 1
  /\ InScan => /\ cfg.start = startCh /\ cfg.nChannels = endCh - startCh + 1
               /\ cfg.nChannels >= 1
  /\ pc \in {"read", "single", "discard", "mode", "drain", "start"} => raw = <<>>
  /\ \A k \in DOMAIN raw : ~raw[k].inv
  /\ pc \in {"drain", "start"} /\ disturbed = {} => trigger = "scan"
  /\ pc \notin {"start", "collect", "idle"} => "late" \notin disturbed

ScanBase == ScanTypeOK /\ Shape

-----------------------------------------------------------------------------
(* Sequences of samples, and what the card begins with.                    *)

LEMMA RangeIs ==
  ASSUME ScanTypeOK
  PROVE  /\ Len(ScanRange) = IF endCh >= startCh THEN endCh - startCh + 1 ELSE 0
         /\ DOMAIN ScanRange = 1 .. Len(ScanRange) /\ Len(ScanRange) \in 0 .. LastChannel + 1
         /\ \A k \in 1 .. Len(ScanRange) : ScanRange[k] = startCh + k - 1 /\ ScanRange[k] \in Channel
<1> DEFINE n == IF endCh >= startCh THEN endCh - startCh + 1 ELSE 0
<1>1. startCh \in Int /\ endCh \in Int /\ LastChannel \in Nat
      /\ 0 <= startCh /\ startCh <= LastChannel /\ 0 <= endCh /\ endCh <= LastChannel
  BY LastChannelAssumption DEF ScanTypeOK, Channel
<1>2. n \in 0 .. LastChannel + 1 /\ n \in Nat
  BY <1>1
<1>3. \A k \in 1 .. n : startCh + k - 1 \in Channel
  BY <1>1 DEF Channel
<1>4. ScanRange = [k \in 1 .. n |-> startCh + k - 1]
  BY DEF ScanRange
<1>5. ScanRange \in Seq(Channel) /\ Len(ScanRange) = n
  <2> HIDE DEF n
  <2> QED
    BY <1>2, <1>3, <1>4
<1>6. DOMAIN ScanRange = 1 .. n /\ \A k \in 1 .. n : ScanRange[k] = startCh + k - 1
  <2> HIDE DEF n
  <2> QED
    BY <1>4
<1> QED
  BY <1>2, <1>3, <1>5, <1>6

LEMMA ByOne == \A k \in Nat : k \div 1 = k /\ k * 1 = k
OBVIOUS

\* A start of the card, once for each channel.
LEMMA Begun ==
  ASSUME ScanBase, InScan, Start
  PROVE  \E begun \in Seq(Sample) :
           /\ converting' \in {converting \o begun, begun}
           /\ Len(begun) >= 1 /\ Len(begun) <= cfg.expected
           /\ trigger = "scan" => Len(begun) = cfg.expected
           /\ \A k \in DOMAIN begun : /\ begun[k].ch = cfg.start + k - 1
                                      /\ begun[k].scan = scan /\ ~begun[k].inv
<1> DEFINE once == IF trigger = "scan" THEN ScanRange ELSE <<startCh>>
           begun == [k \in 1 .. Len(once) * (oversamples + 1) |->
                      [ch |-> once[(k - 1) \div (oversamples + 1) + 1], scan |-> scan, inv |-> FALSE]]
           same == [k \in 1 .. Len(once) |-> [ch |-> startCh + k - 1, scan |-> scan, inv |-> FALSE]]
<1>1. /\ oversamples = 0 /\ scan \in 1 .. MaxScans
      /\ cfg.start = startCh /\ cfg.expected = endCh - startCh + 1 /\ cfg.expected >= 1
      /\ startCh \in Channel /\ endCh \in Int /\ startCh \in Int /\ trigger \in {"channel", "scan"}
  BY MaxScansAssumption, LastChannelAssumption DEF ScanBase, Shape, ScanTypeOK, InScan, Channel
<1>2. Len(ScanRange) = cfg.expected /\ DOMAIN ScanRange = 1 .. Len(ScanRange)
      /\ \A k \in 1 .. Len(ScanRange) : ScanRange[k] = startCh + k - 1 /\ ScanRange[k] \in Channel
  <2>1. endCh >= startCh
    BY <1>1
  <2> QED
    BY <1>1, <2>1, RangeIs DEF ScanBase
<1>3. /\ Len(<<startCh>>) = 1 /\ <<startCh>>[1] = startCh
  OBVIOUS
<1>4. /\ Len(once) \in Nat /\ Len(once) >= 1 /\ Len(once) <= cfg.expected
      /\ trigger = "scan" => Len(once) = cfg.expected
      /\ \A k \in 1 .. Len(once) : once[k] = startCh + k - 1 /\ once[k] \in Channel
  <2>1. CASE trigger = "scan"
    BY <1>1, <1>2, <2>1
  <2>2. CASE trigger # "scan"
    <3>1. once = <<startCh>>
      BY <2>2
    <3> HIDE DEF once
    <3>2. \A k \in 1 .. 1 : k = 1 /\ startCh + k - 1 = startCh
      BY <1>1
    <3> QED
      BY <1>1, <1>3, <2>2, <3>1, <3>2
  <2> QED
    BY <2>1, <2>2
<1>5. begun = same
  <2> HIDE DEF once
  <2>1. Len(once) * (oversamples + 1) = Len(once)
    BY <1>1, <1>4
  <2>2. ASSUME NEW k \in 1 .. Len(once)
        PROVE  once[(k - 1) \div (oversamples + 1) + 1] = startCh + k - 1
    <3>1. k - 1 \in Nat /\ oversamples + 1 = 1 /\ k \in Int
      BY <1>1, <1>4
    <3>2. (k - 1) \div (oversamples + 1) = k - 1
      BY <3>1, ByOne
    <3>3. (k - 1) \div (oversamples + 1) + 1 = k
      BY <3>1, <3>2
    <3> QED
      BY <1>4, <3>3
  <2> QED
    BY <2>1, <2>2
<1>6. converting' \in {converting \o begun, begun}
  BY DEF Start
<1>7. \A k \in 1 .. Len(once) : [ch |-> startCh + k - 1, scan |-> scan, inv |-> FALSE] \in Sample
  <2> HIDE DEF once
  <2> QED
    BY <1>1, <1>4 DEF Sample
<1>8. same \in Seq(Sample) /\ Len(same) = Len(once) /\ DOMAIN same = 1 .. Len(once)
  <2> HIDE DEF once
  <2> QED
    BY <1>4, <1>7
<1>9. \A k \in DOMAIN same : /\ same[k].ch = cfg.start + k - 1
                             /\ same[k].scan = scan /\ ~same[k].inv
  <2> HIDE DEF once
  <2> QED
    BY <1>1, <1>8
<1> HIDE DEF once, begun, same
<1> QED
  BY <1>4, <1>5, <1>6, <1>8, <1>9

-----------------------------------------------------------------------------
(* Types, and what a scan has found out so far.                            *)

LEMMA Empty == \A S : <<>> \in Seq(S)
BY EmptySeq

LEMMA FirstAndRest ==
  ASSUME NEW S, NEW s \in Seq(S), s # <<>>
  PROVE  /\ Len(s) \in Nat /\ Len(s) >= 1
         /\ Head(s) \in S /\ Head(s) = s[1] /\ Tail(s) \in Seq(S)
         /\ Len(Tail(s)) = Len(s) - 1
         /\ \A k \in 1 .. Len(s) - 1 : Tail(s)[k] = s[k + 1]
BY EmptySeq, HeadTailProperties, LenProperties

LEMMA ScanBaseInit == ScanInit => ScanBase
<1> SUFFICES ASSUME ScanInit PROVE ScanBase
  OBVIOUS
<1>1. NoCfg \in [start : Channel, nChannels : 0 .. LastChannel + 1, expected : 0 .. LastChannel + 1]
  BY LastChannelAssumption DEF NoCfg, Channel
<1>2. Len(<<>>) = 0 /\ DOMAIN <<>> = {}
  BY EmptySeq
<1>3. ScanTypeOK
  <2>1. startCh \in Channel /\ endCh \in Channel /\ ending \in BOOLEAN
    BY DEF ScanInit
  <2>2. scan \in 0 .. MaxScans
    BY MaxScansAssumption DEF ScanInit
  <2>3. cfg.expected = 0
    BY DEF ScanInit, NoCfg
  <2>4. converting \in Seq(Sample) /\ fifo \in Seq(Sample) /\ raw \in Seq(Sample)
        /\ reply \in Seq(Sample \cup {Missing})
    BY Empty DEF ScanInit
  <2>5. Len(raw) <= cfg.expected
    BY <1>2, <2>3 DEF ScanInit
  <2> QED
    BY <1>1, <2>1, <2>2, <2>4, <2>5 DEF ScanInit, ScanTypeOK
<1>4. Shape
  BY <1>2 DEF ScanInit, Shape, InScan, NoCfg
<1> QED
  BY <1>3, <1>4 DEF ScanBase

LEMMA ScanCardTyped ==
  ASSUME ScanBase, Deliver \/ Configure \/ WorkerEnds
  PROVE  ScanBase'
<1>1. CASE Deliver
  <2>1. fifo' \in Seq(Sample) /\ converting' \in Seq(Sample)
    <3>1. converting \in Seq(Sample) /\ converting # <<>> /\ fresh \in BOOLEAN /\ fifo \in Seq(Sample)
      BY <1>1 DEF Deliver, ScanBase, ScanTypeOK
    <3>2. Head(converting) \in Sample /\ Tail(converting) \in Seq(Sample)
      BY <3>1, FirstAndRest
    <3>3. [Head(converting) EXCEPT !.inv = fresh] \in Sample
      BY <3>1, <3>2 DEF Sample
    <3> QED
      BY <1>1, <3>1, <3>2, <3>3, AppendProperties DEF Deliver
  <2>2. ScanTypeOK'
    BY <1>1, <2>1 DEF Deliver, ScanBase, ScanTypeOK
  <2>3. Shape'
    BY <1>1 DEF Deliver, ScanBase, Shape, InScan
  <2> QED
    BY <2>2, <2>3 DEF ScanBase
<1>2. CASE Configure
  <2>1. ScanTypeOK'
    BY <1>2 DEF Configure, ScanBase, ScanTypeOK, card
  <2>2. Shape'
    BY <1>2 DEF Configure, ScanBase, Shape, InScan
  <2> QED
    BY <2>1, <2>2 DEF ScanBase
<1>3. CASE WorkerEnds
  <2>1. disturbed' # {} /\ disturbed' \subseteq {"late", "closed"}
        /\ ("late" \in disturbed' <=> "late" \in disturbed)
    BY <1>3 DEF WorkerEnds, ScanBase, ScanTypeOK
  <2>2. ScanTypeOK'
    BY <1>3, <2>1, Empty DEF WorkerEnds, ScanBase, ScanTypeOK
  <2>3. Shape'
    BY <1>3, <2>1 DEF WorkerEnds, ScanBase, Shape, InScan
  <2> QED
    BY <2>2, <2>3 DEF ScanBase
<1> QED
  BY <1>1, <1>2, <1>3

LEMMA BeginTyped == ASSUME ScanBase, Begin PROVE ScanBase'
<1>1. NoCfg \in [start : Channel, nChannels : 0 .. LastChannel + 1, expected : 0 .. LastChannel + 1]
  BY LastChannelAssumption DEF NoCfg, Channel
<1>2. Len(<<>>) = 0 /\ DOMAIN <<>> = {}
  BY EmptySeq
<1>3. scan' \in 0 .. MaxScans /\ scan' >= 1
  BY MaxScansAssumption DEF Begin, ScanBase, ScanTypeOK
<1>4. ScanTypeOK'
  <2>1. cfg'.expected = 0
    BY DEF Begin, NoCfg
  <2>2. raw' \in Seq(Sample) /\ reply' \in Seq(Sample \cup {Missing}) /\ Len(raw') <= cfg'.expected
    BY <1>2, <2>1, Empty DEF Begin
  <2> QED
    BY <1>1, <1>3, <2>2 DEF Begin, ScanBase, ScanTypeOK, card
<1>5. Shape'
  BY <1>2, <1>3 DEF Begin, Shape, InScan, NoCfg
<1> QED
  BY <1>4, <1>5 DEF ScanBase

LEMMA ReadTyped == ASSUME ScanBase, ReadScanCfg PROVE ScanBase'
<1> DEFINE n == Len(ScanRange)
<1>1. /\ n = IF endCh >= startCh THEN endCh - startCh + 1 ELSE 0
      /\ n \in 0 .. LastChannel + 1 /\ n \in Nat /\ startCh \in Int /\ endCh \in Int
  BY RangeIs, LastChannelAssumption DEF ScanBase, ScanTypeOK, Channel
<1>2. oversamples = 0 /\ pc = "read"
  BY DEF ReadScanCfg, ScanBase, Shape
<1>3. cfg' = [start |-> startCh, nChannels |-> n, expected |-> n]
  <2>1. n * (oversamples + 1) = n
    BY <1>1, <1>2
  <2> QED
    BY <2>1 DEF ReadScanCfg
<1>4. cfg' \in [start : Channel, nChannels : 0 .. LastChannel + 1, expected : 0 .. LastChannel + 1]
  BY <1>1, <1>3 DEF ScanBase, ScanTypeOK
<1>5. raw = <<>> /\ Len(<<>>) = 0 /\ raw' = raw
  BY <1>2, EmptySeq DEF ScanBase, Shape, ReadScanCfg
<1>6. /\ IF n = 0 THEN pc' = "idle" /\ reply' = <<>> ELSE pc' = "single" /\ reply' = reply
      /\ UNCHANGED <<startCh, endCh, oversamples, trigger, card, scan, raw, ending, disturbed>>
  BY DEF ReadScanCfg, Answer
<1> HIDE DEF n
<1>7. ScanTypeOK'
  <2>1. Len(raw') <= cfg'.expected
    BY <1>1, <1>3, <1>5
  <2>2. reply' \in Seq(Sample \cup {Missing}) /\ pc' \in {"idle", "single"}
    BY <1>6, Empty DEF ScanBase, ScanTypeOK
  <2> QED
    BY <1>4, <1>6, <2>1, <2>2 DEF ScanBase, ScanTypeOK, card
<1>8. Shape'
  <2>1. cfg'.expected = n /\ cfg'.nChannels = n /\ cfg'.start = startCh
    BY <1>3
  <2>2. n # 0 => n = endCh - startCh + 1 /\ n >= 1
    BY <1>1
  <2> QED
    BY <1>2, <1>5, <1>6, <2>1, <2>2 DEF ScanBase, Shape, InScan
<1> QED
  BY <1>7, <1>8 DEF ScanBase

LEMMA ModeTyped ==
  ASSUME ScanBase, SetSingle \/ SetScan \/ Drain \/ DrainEnd \/ Timeout
  PROVE  ScanBase'
<1>1. CASE Drain
  <2>1. fifo' \in Seq(Sample)
    BY <1>1, FirstAndRest DEF Drain, ScanBase, ScanTypeOK
  <2>2. ScanTypeOK'
    BY <1>1, <2>1 DEF Drain, ScanBase, ScanTypeOK
  <2>3. Shape'
    BY <1>1 DEF Drain, ScanBase, Shape, InScan
  <2> QED
    BY <2>2, <2>3 DEF ScanBase
<1>2. CASE SetSingle \/ SetScan \/ DrainEnd \/ Timeout
  <2>1. ScanTypeOK'
    BY <1>2, Empty DEF SetSingle, SetScan, DrainEnd, Timeout, Answer, ScanBase, ScanTypeOK, card
  <2>2. Shape'
    BY <1>2 DEF SetSingle, SetScan, DrainEnd, Timeout, Answer, ScanBase, Shape, InScan
  <2> QED
    BY <2>1, <2>2 DEF ScanBase
<1> QED
  BY <1>1, <1>2

LEMMA StartTyped == ASSUME ScanBase, StartDiscarded \/ StartScan PROVE ScanBase'
<1>1. InScan /\ Start
  BY DEF StartDiscarded, StartScan, InScan
<1>2. converting' \in Seq(Sample)
  <2>1. PICK begun \in Seq(Sample) : converting' \in {converting \o begun, begun}
    BY <1>1, Begun
  <2>2. converting \in Seq(Sample)
    BY DEF ScanBase, ScanTypeOK
  <2>3. converting \o begun \in Seq(Sample)
    BY <2>2, ConcatProperties
  <2> QED
    BY <2>1, <2>3
<1>3. ScanTypeOK'
  BY <1>2 DEF StartDiscarded, StartScan, ScanBase, ScanTypeOK
<1>4. Shape'
  BY DEF StartDiscarded, StartScan, ScanBase, Shape, InScan
<1> QED
  BY <1>3, <1>4 DEF ScanBase

LEMMA CollectTyped == ASSUME ScanBase, Collect PROVE ScanBase'
<1>1. /\ fifo \in Seq(Sample) /\ fifo # <<>> /\ raw \in Seq(Sample) /\ Len(raw) \in Nat
      /\ Len(raw) < cfg.expected /\ cfg.expected \in Nat
  BY LastChannelAssumption, LenProperties DEF Collect, ScanBase, ScanTypeOK
<1>2. Head(fifo) \in Sample /\ Tail(fifo) \in Seq(Sample)
  BY <1>1, FirstAndRest
<1>3. /\ raw' \in Seq(Sample) /\ Len(raw') <= cfg.expected
      /\ \A k \in DOMAIN raw' : ~raw'[k].inv
  <2>1. CASE Head(fifo).inv
    BY <1>1, <2>1 DEF Collect, ScanBase, Shape
  <2>2. CASE ~Head(fifo).inv
    <3>1. raw' = Append(raw, Head(fifo))
      BY <2>2 DEF Collect
    <3>2. Append(raw, Head(fifo)) \in Seq(Sample) /\ Len(Append(raw, Head(fifo))) = Len(raw) + 1
          /\ DOMAIN raw = 1 .. Len(raw) /\ DOMAIN Append(raw, Head(fifo)) = 1 .. Len(raw) + 1
          /\ \A k \in 1 .. Len(raw) : Append(raw, Head(fifo))[k] = raw[k]
          /\ Append(raw, Head(fifo))[Len(raw) + 1] = Head(fifo)
      BY <1>1, <1>2, AppendProperties, LenProperties
    <3>3. \A k \in 1 .. Len(raw) : ~raw[k].inv
      BY <3>2 DEF ScanBase, Shape
    <3> QED
      BY <1>1, <2>2, <3>1, <3>2, <3>3
  <2> QED
    BY <2>1, <2>2
<1>4. ScanTypeOK'
  BY <1>2, <1>3 DEF Collect, ScanBase, ScanTypeOK
<1>5. Shape'
  BY <1>3 DEF Collect, ScanBase, Shape, InScan
<1> QED
  BY <1>4, <1>5 DEF ScanBase

\* An answer is a value for each channel.
LEMMA ReduceIs ==
  ASSUME ScanBase
  PROVE  /\ Reduce \in Seq(Sample \cup {Missing}) /\ Len(Reduce) = cfg.nChannels
         /\ DOMAIN Reduce = 1 .. cfg.nChannels
         /\ \A k \in 1 .. cfg.nChannels :
              \/ Reduce[k] = Missing /\ ~\E j \in DOMAIN raw : IsFirst(j, cfg.start + k - 1)
              \/ \E j \in DOMAIN raw : Reduce[k] = raw[j] /\ IsFirst(j, cfg.start + k - 1)
<1> DEFINE first(k) == {j \in DOMAIN raw : IsFirst(j, cfg.start + k - 1)}
           val(k) == IF first(k) = {} THEN Missing ELSE raw[CHOOSE j \in first(k) : TRUE]
<1>1. cfg.nChannels \in Nat
  BY LastChannelAssumption DEF ScanBase, ScanTypeOK
<1>2. Reduce = [k \in 1 .. cfg.nChannels |-> val(k)]
  BY DEF Reduce
<1>3. ASSUME NEW k \in 1 .. cfg.nChannels
      PROVE  \/ val(k) = Missing /\ first(k) = {}
             \/ \E j \in first(k) : val(k) = raw[j]
  OBVIOUS
<1>4. \A j \in DOMAIN raw : raw[j] \in Sample
  BY ElementOfSeq, LenProperties DEF ScanBase, ScanTypeOK
<1>5. \A k \in 1 .. cfg.nChannels : val(k) \in Sample \cup {Missing}
  BY <1>3, <1>4
<1> HIDE DEF val
<1>6. Reduce \in Seq(Sample \cup {Missing}) /\ Len(Reduce) = cfg.nChannels
      /\ DOMAIN Reduce = 1 .. cfg.nChannels
      /\ \A k \in 1 .. cfg.nChannels : Reduce[k] = val(k)
  BY <1>1, <1>2, <1>5
<1> QED
  BY <1>3, <1>6

LEMMA FinishTyped == ASSUME ScanBase, Finish PROVE ScanBase'
<1>1. ScanTypeOK'
  BY ReduceIs DEF Finish, Answer, ScanBase, ScanTypeOK, card
<1>2. Shape'
  BY DEF Finish, Answer, ScanBase, Shape, InScan
<1> QED
  BY <1>1, <1>2 DEF ScanBase

LEMMA ScanBaseStep == ScanBase /\ [ScanNext]_scanVars => ScanBase'
<1> SUFFICES ASSUME ScanBase, [ScanNext]_scanVars PROVE ScanBase'
  OBVIOUS
<1>1. CASE UNCHANGED scanVars
  BY <1>1 DEF scanVars, card, ScanBase, ScanTypeOK, Shape, InScan
<1> QED
  BY <1>1, ScanCardTyped, BeginTyped, ReadTyped, ModeTyped, StartTyped, CollectTyped, FinishTyped
     DEF ScanNext, GoScan

\* Never more samples are collected than expected, and what is collected and answered
\* are samples (ADC_DrainAdcFifoRaw, DataItems/ADC_.cpp:841-879).
THEOREM ScanTypes == ScanSpec => []ScanTypeOK
BY ScanBaseInit, ScanBaseStep, PTL DEF ScanSpec, ScanBase

-----------------------------------------------------------------------------
(* Every value is its channel's.                                           *)

\* What a step that is not Finish makes of an answer.
LEMMA AnswersStay ==
  ASSUME ScanBase, [ScanNext]_scanVars, ~Finish, Answered'
  PROVE  /\ Answered /\ UNCHANGED <<reply, cfg, scan>>
         /\ "late" \in disturbed => "late" \in disturbed'
<1> SUFFICES pc = "idle" /\ UNCHANGED <<reply, cfg, scan>> /\ disturbed \subseteq disturbed'
  BY DEF Answered
<1>1. CASE UNCHANGED scanVars
  BY <1>1 DEF scanVars, Answered
<1>2. CASE Deliver \/ Configure \/ WorkerEnds
  BY <1>2 DEF Deliver, Configure, WorkerEnds, Answered
<1>3. CASE Begin \/ SetSingle \/ StartDiscarded \/ Drain \/ DrainEnd \/ StartScan \/ Collect
  BY <1>3 DEF Begin, SetSingle, StartDiscarded, Drain, DrainEnd, StartScan, Collect, Answered
<1>4. CASE ReadScanCfg \/ SetScan \/ Timeout
  BY <1>4 DEF ReadScanCfg, SetScan, Timeout, Answer, Answered
<1> QED
  BY <1>1, <1>2, <1>3, <1>4 DEF ScanNext, GoScan

LEMMA MatchStep == ScanBase /\ ValuesMatchChannels /\ [ScanNext]_scanVars => ValuesMatchChannels'
<1> SUFFICES ASSUME ScanBase, ValuesMatchChannels, [ScanNext]_scanVars, Answered'
             PROVE  /\ Len(reply') = cfg'.nChannels
                    /\ \A k \in DOMAIN reply' : reply'[k] # Missing => reply'[k].ch = cfg'.start + k - 1
  BY DEF ValuesMatchChannels
<1>1. CASE ~Finish
  BY <1>1, AnswersStay DEF ValuesMatchChannels
<1>2. CASE Finish
  <2>1. reply' = Reduce /\ cfg' = cfg
    BY <1>2 DEF Finish, Answer
  <2> QED
    BY <2>1, ReduceIs DEF IsFirst
<1> QED
  BY <1>1, <1>2

\* An answer to ADC_RawAll, ADC_CountsAll or ADC_VoltsAll has one value for each channel
\* of the range that the scan read, and it is that channel's, whatever the card delivers
\* and in whatever order (AccumulateByChannel, DataItems/ADC_.cpp:708-752).
THEOREM MatchingValues == ScanSpec => []ValuesMatchChannels
<1>1. ScanInit => ValuesMatchChannels
  BY DEF ScanInit, ValuesMatchChannels, Answered
<1> QED
  BY <1>1, ScanBaseInit, ScanBaseStep, MatchStep, PTL DEF ScanSpec

-----------------------------------------------------------------------------
(* Every value is of this scan.                                            *)

\* Sample s is what this scan makes of its k-th channel.
Own(s, k) == s.ch = cfg.start + k - 1 /\ s.scan = scan

\* What has come or will come.
Total == Len(raw) + Len(fifo) + Len(converting)

\* If there are enough samples for the whole scan, none of them is of another one.
Current ==
  /\ pc = "start" /\ "late" \notin disturbed => fifo = <<>> /\ converting = <<>>
  /\ pc = "collect" /\ "late" \notin disturbed =>
      /\ Total <= cfg.expected
      /\ Total = cfg.expected =>
          /\ \A k \in DOMAIN raw : Own(raw[k], k)
          /\ \A k \in DOMAIN fifo : Own(fifo[k], Len(raw) + k)
          /\ \A k \in DOMAIN converting : Own(converting[k], Len(raw) + Len(fifo) + k)

\* The three lengths, for arithmetic.
LEMMA Lengths ==
  ASSUME ScanTypeOK
  PROVE  /\ Len(raw) \in Nat /\ Len(fifo) \in Nat /\ Len(converting) \in Nat
         /\ cfg.expected \in Nat /\ cfg.start \in Nat
         /\ DOMAIN raw = 1 .. Len(raw) /\ DOMAIN fifo = 1 .. Len(fifo)
         /\ DOMAIN converting = 1 .. Len(converting)
BY LastChannelAssumption, LenProperties DEF ScanTypeOK, Channel

LEMMA CurrentInit == ScanInit => Current
BY DEF ScanInit, Current

LEMMA CurrentDeliver == ASSUME ScanBase, Current, Deliver PROVE Current'
<1> DEFINE new == [Head(converting) EXCEPT !.inv = fresh]
<1>1. /\ converting \in Seq(Sample) /\ converting # <<>> /\ fifo \in Seq(Sample) /\ fresh \in BOOLEAN
      /\ fifo' = Append(fifo, new) /\ converting' = Tail(converting)
      /\ UNCHANGED <<pc, cfg, scan, raw, disturbed>>
  BY DEF Deliver, ScanBase, ScanTypeOK
<1>2. /\ Head(converting) \in Sample /\ Head(converting) = converting[1]
      /\ Tail(converting) \in Seq(Sample) /\ Len(converting) >= 1
      /\ Len(Tail(converting)) = Len(converting) - 1
      /\ \A k \in 1 .. Len(converting) - 1 : Tail(converting)[k] = converting[k + 1]
  BY <1>1, FirstAndRest
<1>3. new \in Sample /\ new.ch = converting[1].ch /\ new.scan = converting[1].scan
  BY <1>1, <1>2 DEF Sample
<1> HIDE DEF new
<1>4. /\ Len(fifo') = Len(fifo) + 1 /\ fifo'[Len(fifo) + 1] = new
      /\ \A k \in 1 .. Len(fifo) : fifo'[k] = fifo[k]
      /\ DOMAIN fifo' = 1 .. Len(fifo) + 1 /\ DOMAIN converting' = 1 .. Len(converting) - 1
  <2>1. fifo' \in Seq(Sample) /\ converting' \in Seq(Sample)
    BY <1>1, <1>2, <1>3, AppendProperties
  <2> QED
    BY <1>1, <1>2, <1>3, <2>1, AppendProperties, LenProperties
<1>5. Len(raw) \in Nat /\ Len(fifo) \in Nat /\ Len(converting) \in Nat
      /\ DOMAIN raw = 1 .. Len(raw) /\ DOMAIN fifo = 1 .. Len(fifo)
      /\ DOMAIN converting = 1 .. Len(converting) /\ cfg.expected \in Nat
  BY Lengths DEF ScanBase
<1>6. Total' = Total
  BY <1>1, <1>2, <1>4, <1>5 DEF Total
<1>7. pc # "start" \/ "late" \in disturbed
  BY <1>1 DEF Current
<1>8. ASSUME pc = "collect", "late" \notin disturbed, Total = cfg.expected
      PROVE  /\ \A k \in DOMAIN raw : Own(raw[k], k)
             /\ \A k \in DOMAIN fifo' : Own(fifo'[k], Len(raw) + k)
             /\ \A k \in DOMAIN converting' : Own(converting'[k], Len(raw) + Len(fifo') + k)
  <2>1. /\ \A k \in DOMAIN raw : Own(raw[k], k)
        /\ \A k \in DOMAIN fifo : Own(fifo[k], Len(raw) + k)
        /\ \A k \in DOMAIN converting : Own(converting[k], Len(raw) + Len(fifo) + k)
    BY <1>8 DEF Current
  <2>2. Own(converting[1], Len(raw) + Len(fifo) + 1)
    BY <1>2, <1>5, <2>1
  <2>3. Own(new, Len(raw) + (Len(fifo) + 1))
    BY <1>3, <1>5, <2>2 DEF Own
  <2>4. ASSUME NEW k \in DOMAIN fifo' PROVE Own(fifo'[k], Len(raw) + k)
    <3>1. k \in 1 .. Len(fifo) \/ k = Len(fifo) + 1
      BY <1>4, <1>5
    <3> QED
      BY <1>4, <1>5, <2>1, <2>3, <3>1
  <2>5. ASSUME NEW k \in DOMAIN converting' PROVE Own(converting'[k], Len(raw) + Len(fifo') + k)
    <3>1. k + 1 \in DOMAIN converting /\ converting'[k] = converting[k + 1]
          /\ Len(raw) + Len(fifo') + k = Len(raw) + Len(fifo) + (k + 1)
      BY <1>1, <1>2, <1>4, <1>5
    <3> QED
      BY <2>1, <3>1
  <2> QED
    BY <2>1, <2>4, <2>5
<1>9. \A s, k : Own(s, k)' <=> Own(s, k)
  BY <1>1 DEF Own
<1> QED
  BY <1>1, <1>6, <1>7, <1>8, <1>9 DEF Current, Own

\* A start after an empty FIFO and an idle card.
LEMMA CurrentStart == ASSUME ScanBase, Current, StartScan PROVE Current'
<1>1. /\ pc = "start" /\ pc' = "collect" /\ InScan /\ Start
      /\ UNCHANGED <<fifo, cfg, scan, raw, disturbed>>
  BY DEF StartScan, InScan
<1>2. PICK begun \in Seq(Sample) :
           /\ converting' \in {converting \o begun, begun}
           /\ Len(begun) >= 1 /\ Len(begun) <= cfg.expected
           /\ \A k \in DOMAIN begun : begun[k].ch = cfg.start + k - 1 /\ begun[k].scan = scan
  BY <1>1, Begun
<1>3. raw = <<>> /\ cfg.expected \in Nat /\ Len(<<>>) = 0 /\ DOMAIN <<>> = {}
  BY <1>1, Lengths, EmptySeq DEF ScanBase, Shape
<1>4. SUFFICES ASSUME "late" \notin disturbed
               PROVE  /\ Total' <= cfg.expected
                      /\ \A k \in DOMAIN raw : Own(raw[k], k)
                      /\ \A k \in DOMAIN fifo : Own(fifo[k], Len(raw) + k)
                      /\ \A k \in DOMAIN converting' : Own(converting'[k], Len(raw) + Len(fifo) + k)
  <2>1. \A s, k : Own(s, k)' <=> Own(s, k)
    BY <1>1 DEF Own
  <2> QED
    BY <1>1, <2>1 DEF Current
<1>5. fifo = <<>> /\ converting = <<>>
  BY <1>1, <1>4 DEF Current
<1>6. converting' = begun
  <2>1. <<>> \o begun = begun
    BY ConcatEmptySeq
  <2> QED
    BY <1>2, <1>5, <2>1
<1>7. Len(begun) \in Nat /\ DOMAIN begun = 1 .. Len(begun)
  BY <1>2, LenProperties
<1>8. Total' = Len(begun)
  BY <1>1, <1>3, <1>5, <1>6, <1>7 DEF Total
<1>9. \A k \in DOMAIN begun : 0 + 0 + k = k
  BY <1>7
<1> QED
  BY <1>1, <1>2, <1>3, <1>5, <1>6, <1>8, <1>9 DEF Own

LEMMA CurrentCollect == ASSUME ScanBase, Current, Collect PROVE Current'
<1>1. /\ pc = "collect" /\ fifo # <<>> /\ fifo \in Seq(Sample) /\ raw \in Seq(Sample)
      /\ raw' = IF Head(fifo).inv THEN raw ELSE Append(raw, Head(fifo))
      /\ fifo' = Tail(fifo)
      /\ UNCHANGED <<converting, pc, cfg, scan, disturbed>>
  BY DEF Collect, ScanBase, ScanTypeOK
<1>2. /\ Head(fifo) \in Sample /\ Head(fifo) = fifo[1]
      /\ Tail(fifo) \in Seq(Sample) /\ Len(fifo) >= 1
      /\ Len(Tail(fifo)) = Len(fifo) - 1
      /\ \A k \in 1 .. Len(fifo) - 1 : Tail(fifo)[k] = fifo[k + 1]
  BY <1>1, FirstAndRest
<1>3. Len(raw) \in Nat /\ Len(fifo) \in Nat /\ Len(converting) \in Nat
      /\ DOMAIN raw = 1 .. Len(raw) /\ DOMAIN fifo = 1 .. Len(fifo)
      /\ DOMAIN converting = 1 .. Len(converting) /\ cfg.expected \in Nat
  BY Lengths DEF ScanBase
<1>4. SUFFICES ASSUME "late" \notin disturbed
               PROVE  /\ Total' <= cfg.expected
                      /\ Total' = cfg.expected =>
                          /\ \A k \in DOMAIN raw' : Own(raw'[k], k)
                          /\ \A k \in DOMAIN fifo' : Own(fifo'[k], Len(raw') + k)
                          /\ \A k \in DOMAIN converting : Own(converting[k], Len(raw') + Len(fifo') + k)
  <2>1. \A s, k : Own(s, k)' <=> Own(s, k)
    BY <1>1 DEF Own
  <2> QED
    BY <1>1, <2>1 DEF Current
<1>5. Total <= cfg.expected
  BY <1>1, <1>4 DEF Current
<1>6. CASE Head(fifo).inv
  <2>1. Total' = Total - 1 /\ Total \in Int
    BY <1>1, <1>2, <1>3, <1>6 DEF Total
  <2> QED
    BY <1>3, <1>5, <2>1
<1>7. CASE ~Head(fifo).inv
  <2>1. raw' = Append(raw, fifo[1])
    BY <1>1, <1>2, <1>7
  <2>2. /\ Len(raw') = Len(raw) + 1 /\ raw'[Len(raw) + 1] = fifo[1]
        /\ \A k \in 1 .. Len(raw) : raw'[k] = raw[k]
        /\ DOMAIN raw' = 1 .. Len(raw) + 1 /\ DOMAIN fifo' = 1 .. Len(fifo) - 1
    BY <1>1, <1>2, <2>1, AppendProperties, LenProperties
  <2>3. Total' = Total
    BY <1>1, <1>2, <1>3, <2>2 DEF Total
  <2>4. ASSUME Total = cfg.expected
        PROVE  /\ \A k \in DOMAIN raw' : Own(raw'[k], k)
               /\ \A k \in DOMAIN fifo' : Own(fifo'[k], Len(raw') + k)
               /\ \A k \in DOMAIN converting : Own(converting[k], Len(raw') + Len(fifo') + k)
    <3>1. /\ \A k \in DOMAIN raw : Own(raw[k], k)
          /\ \A k \in DOMAIN fifo : Own(fifo[k], Len(raw) + k)
          /\ \A k \in DOMAIN converting : Own(converting[k], Len(raw) + Len(fifo) + k)
      BY <1>1, <1>4, <2>4 DEF Current
    <3>2. Own(fifo[1], Len(raw) + 1)
      BY <1>2, <1>3, <3>1
    <3>3. ASSUME NEW k \in DOMAIN raw' PROVE Own(raw'[k], k)
      <4>1. k \in 1 .. Len(raw) \/ k = Len(raw) + 1
        BY <1>3, <2>2
      <4> QED
        BY <1>3, <2>2, <3>1, <3>2, <4>1
    <3>4. ASSUME NEW k \in DOMAIN fifo' PROVE Own(fifo'[k], Len(raw') + k)
      <4>0. k \in 1 .. Len(fifo) - 1 /\ k \in Int
        BY <1>3, <2>2
      <4>1. k + 1 \in DOMAIN fifo
        BY <1>2, <1>3, <4>0
      <4>2. fifo'[k] = fifo[k + 1]
        BY <1>1, <1>2, <4>0
      <4>3. Len(raw') + k = Len(raw) + (k + 1)
        BY <1>3, <2>2, <4>0
      <4> QED
        BY <3>1, <4>1, <4>2, <4>3
    <3>5. Len(raw') + Len(fifo') = Len(raw) + Len(fifo)
      BY <1>1, <1>2, <1>3, <2>2
    <3> QED
      BY <3>1, <3>3, <3>4, <3>5
  <2> QED
    BY <1>5, <2>3, <2>4
<1> QED
  BY <1>6, <1>7

\* Samples that will not come make the scan fall short, and never mix it up.
LEMMA CurrentCloses == ASSUME ScanBase, Current, WorkerEnds PROVE Current'
<1>1. /\ converting' \in {converting, <<>>}
      /\ UNCHANGED <<pc, fifo, cfg, scan, raw>>
      /\ disturbed' = disturbed \cup {"closed"}
  BY DEF WorkerEnds
<1>2. "late" \in disturbed' <=> "late" \in disturbed
  BY <1>1
<1>3. \A s, k : Own(s, k)' <=> Own(s, k)
  BY <1>1 DEF Own
<1>4. CASE converting' = converting
  BY <1>1, <1>2, <1>3, <1>4 DEF Current, Total
<1>5. CASE converting' = <<>>
  <2>1. Len(raw) \in Nat /\ Len(fifo) \in Nat /\ Len(converting) \in Nat /\ cfg.expected \in Nat
    BY Lengths DEF ScanBase
  <2>2. Len(<<>>) = 0 /\ DOMAIN <<>> = {}
    BY EmptySeq
  <2>3. Total' = Len(raw) + Len(fifo)
    BY <1>1, <1>5, <2>1, <2>2 DEF Total
  <2>4. Total' <= Total /\ (Total <= cfg.expected /\ Total' = cfg.expected => Total = cfg.expected)
        /\ Total \in Int /\ Total' \in Int
    BY <2>1, <2>3 DEF Total
  <2>5. ASSUME pc = "collect", "late" \notin disturbed
        PROVE  /\ Total' <= cfg.expected
               /\ Total' = cfg.expected =>
                    /\ \A k \in DOMAIN raw : Own(raw[k], k)
                    /\ \A k \in DOMAIN fifo : Own(fifo[k], Len(raw) + k)
    <3>1. Total <= cfg.expected
      BY <2>5 DEF Current
    <3> QED
      BY <2>1, <2>4, <2>5, <3>1 DEF Current
  <2>6. pc = "start" /\ "late" \notin disturbed => fifo = <<>>
    BY DEF Current
  <2> QED
    BY <1>1, <1>2, <1>3, <1>5, <2>2, <2>5, <2>6 DEF Current
<1> QED
  BY <1>1, <1>4, <1>5

LEMMA CurrentStep == ScanBase /\ Current /\ [ScanNext]_scanVars => Current'
<1> SUFFICES ASSUME ScanBase, Current, [ScanNext]_scanVars PROVE Current'
  OBVIOUS
<1>1. CASE UNCHANGED scanVars
  BY <1>1 DEF scanVars, card, Current, Total, Own
<1>2. CASE DrainEnd
  <2>1. /\ pc' = "start" /\ fifo' = <<>> /\ converting' = converting
        /\ "late" \notin disturbed' => converting = <<>>
    BY <1>2 DEF DrainEnd, card
  <2> QED
    BY <2>1 DEF Current
<1>3. CASE \/ Configure \/ Begin \/ ReadScanCfg \/ SetSingle \/ StartDiscarded \/ SetScan
           \/ Drain \/ Timeout \/ Finish
  <2>1. pc' \notin {"start", "collect"}
    BY <1>3 DEF Configure, Begin, ReadScanCfg, SetSingle, StartDiscarded, SetScan, Drain,
                Timeout, Finish, Answer
  <2> QED
    BY <2>1 DEF Current
<1> QED
  BY <1>1, <1>2, <1>3, CurrentDeliver, CurrentStart, CurrentCollect, CurrentCloses DEF ScanNext, GoScan

\* What Finish answers.
LEMMA FinishCurrent ==
  ASSUME ScanBase, Current, Finish, "late" \notin disturbed, NEW k \in 1 .. cfg.nChannels
  PROVE  Reduce[k] # Missing /\ Reduce[k].scan = scan /\ ~Reduce[k].inv
<1>1. /\ pc = "collect" /\ Len(raw) = cfg.expected /\ cfg.expected = cfg.nChannels
      /\ raw \in Seq(Sample)
  BY DEF Finish, ScanBase, Shape, ScanTypeOK
<1>2. Len(raw) \in Nat /\ Len(fifo) \in Nat /\ Len(converting) \in Nat
      /\ DOMAIN raw = 1 .. Len(raw) /\ cfg.start \in Nat
  BY Lengths DEF ScanBase
<1>3. Total = cfg.expected
  <2>1. Total <= cfg.expected
    BY <1>1 DEF Current
  <2> QED
    BY <1>1, <1>2, <2>1 DEF Total
<1>4. \A j \in DOMAIN raw : Own(raw[j], j)
  BY <1>1, <1>3 DEF Current
<1>5. k \in DOMAIN raw /\ k \in Nat
  BY <1>1, <1>2
<1>6. IsFirst(k, cfg.start + k - 1)
  <2>1. raw[k].ch = cfg.start + k - 1
    BY <1>4, <1>5 DEF Own
  <2>2. ASSUME NEW i \in 1 .. k - 1 PROVE raw[i].ch # cfg.start + k - 1
    <3>1. i \in DOMAIN raw /\ i \in Int
      BY <1>1, <1>2, <1>5
    <3>2. raw[i].ch = cfg.start + i - 1
      BY <1>4, <3>1 DEF Own
    <3> QED
      BY <1>2, <1>5, <3>1, <3>2
  <2> QED
    BY <2>1, <2>2 DEF IsFirst
<1>7. PICK j \in DOMAIN raw : Reduce[k] = raw[j]
  BY <1>5, <1>6, ReduceIs
<1>8. raw[j] \in Sample /\ raw[j].scan = scan /\ ~raw[j].inv
  <2>1. raw[j] \in Sample
    BY <1>1, <1>2, ElementOfSeq
  <2> QED
    BY <1>4, <2>1 DEF Own, ScanBase, Shape
<1> QED
  BY <1>7, <1>8, MissingAssumption

LEMMA ScanIsCurrentStep ==
  ScanBase /\ Current /\ ScanIsCurrent /\ [ScanNext]_scanVars => ScanIsCurrent'
<1> SUFFICES ASSUME ScanBase, Current, ScanIsCurrent, [ScanNext]_scanVars, Answered', "late" \notin disturbed'
             PROVE  \A k \in DOMAIN reply' :
                      reply'[k] # Missing /\ reply'[k].scan = scan' /\ ~reply'[k].inv
  BY DEF ScanIsCurrent
<1>1. CASE ~Finish
  BY <1>1, AnswersStay DEF ScanIsCurrent
<1>2. CASE Finish
  <2>1. reply' = Reduce /\ UNCHANGED <<scan, disturbed>>
    BY <1>2 DEF Finish, Answer
  <2> QED
    BY <1>2, <2>1, ReduceIs, FinishCurrent
<1> QED
  BY <1>1, <1>2

\* If the card was through with earlier conversions when ADC_DrainFIFO found the FIFO
\* empty, an answer holds a valid sample of this very scan for every channel, even if
\* a worker that ends drops conversions meanwhile: then the scan falls short and times
\* out (ADC_DrainAdcFifoRaw, DataItems/ADC_.cpp:841-879).
THEOREM CurrentScan == ScanSpec => []ScanIsCurrent
<1>1. ScanInit => ScanBase /\ Current /\ ScanIsCurrent
  <2>1. ScanInit => ScanIsCurrent
    BY DEF ScanInit, ScanIsCurrent, Answered
  <2> QED
    BY <2>1, ScanBaseInit, CurrentInit
<1>2. ScanBase /\ Current /\ ScanIsCurrent /\ [ScanNext]_scanVars => ScanBase' /\ Current' /\ ScanIsCurrent'
  BY ScanBaseStep, CurrentStep, ScanIsCurrentStep
<1> QED
  BY <1>1, <1>2, PTL DEF ScanSpec

-----------------------------------------------------------------------------
(* No sample is awaited that the card does not owe.                        *)

\* Undisturbed, the conversion that is thrown away takes the card's invalid sample,
\* and from then on what has come and what will come make up the scan.
Owed ==
  /\ pc \in {"mode", "drain", "start"} /\ disturbed = {} => ~fresh \/ converting # <<>>
  /\ pc = "collect" /\ disturbed = {} =>
       /\ ~fresh /\ Total = cfg.expected /\ \A k \in DOMAIN fifo : ~fifo[k].inv

LEMMA OwedInit == ScanInit => Owed
BY DEF ScanInit, Owed

LEMMA OwedDeliver == ASSUME ScanBase, Owed, Deliver PROVE Owed'
<1> DEFINE new == [Head(converting) EXCEPT !.inv = fresh]
<1>1. /\ converting \in Seq(Sample) /\ converting # <<>> /\ fifo \in Seq(Sample) /\ fresh \in BOOLEAN
      /\ fifo' = Append(fifo, new) /\ converting' = Tail(converting) /\ fresh' = FALSE
      /\ UNCHANGED <<pc, cfg, raw, disturbed>>
  BY DEF Deliver, ScanBase, ScanTypeOK
<1>2. /\ Head(converting) \in Sample /\ Tail(converting) \in Seq(Sample)
      /\ Len(converting) \in Nat /\ Len(converting) >= 1
      /\ Len(Tail(converting)) = Len(converting) - 1
  BY <1>1, FirstAndRest
<1>3. new \in Sample /\ new.inv = fresh
  BY <1>1, <1>2 DEF Sample
<1> HIDE DEF new
<1>4. /\ Len(fifo') = Len(fifo) + 1 /\ fifo'[Len(fifo) + 1] = new
      /\ \A k \in 1 .. Len(fifo) : fifo'[k] = fifo[k]
      /\ Len(fifo) \in Nat /\ DOMAIN fifo' = 1 .. Len(fifo) + 1 /\ DOMAIN fifo = 1 .. Len(fifo)
  BY <1>1, <1>3, AppendProperties, LenProperties
<1>5. Total' = Total
  <2>1. Len(raw) \in Nat
    BY Lengths DEF ScanBase
  <2> QED
    BY <1>1, <1>2, <1>4, <2>1 DEF Total
<1>6. ASSUME ~fresh, \A k \in DOMAIN fifo : ~fifo[k].inv, NEW k \in DOMAIN fifo'
      PROVE  ~fifo'[k].inv
  <2>1. k \in 1 .. Len(fifo) \/ k = Len(fifo) + 1
    BY <1>4
  <2> QED
    BY <1>3, <1>4, <1>6, <2>1
<1> QED
  BY <1>1, <1>5, <1>6 DEF Owed

LEMMA OwedStart == ASSUME ScanBase, Current, Owed, StartDiscarded \/ StartScan PROVE Owed'
<1>1. InScan /\ Start
  BY DEF StartDiscarded, StartScan, InScan
<1>2. PICK begun \in Seq(Sample) :
           /\ converting' \in {converting \o begun, begun}
           /\ Len(begun) >= 1
           /\ trigger = "scan" => Len(begun) = cfg.expected
  BY <1>1, Begun
<1>3. Len(begun) \in Nat /\ Len(<<>>) = 0 /\ DOMAIN <<>> = {} /\ <<>> \o begun = begun
  BY <1>2, LenProperties, EmptySeq, ConcatEmptySeq
<1>4. CASE StartDiscarded
  <2>1. Len(converting \o begun) = Len(converting) + Len(begun) /\ Len(converting) \in Nat
    <3>1. converting \in Seq(Sample)
      BY DEF ScanBase, ScanTypeOK
    <3> QED
      BY <1>2, <3>1, ConcatProperties, LenProperties
  <2>2. converting' # <<>>
    BY <1>2, <1>3, <2>1
  <2> QED
    BY <1>4, <2>2 DEF StartDiscarded, Owed
<1>5. CASE StartScan
  <2>1. /\ pc = "start" /\ pc' = "collect" /\ raw = <<>>
        /\ UNCHANGED <<fifo, fresh, cfg, raw, disturbed>>
    BY <1>5 DEF StartScan, ScanBase, Shape
  <2> SUFFICES ASSUME disturbed = {}
               PROVE  ~fresh /\ Total' = cfg.expected /\ \A k \in DOMAIN fifo : ~fifo[k].inv
    BY <2>1 DEF Owed
  <2>2. fifo = <<>> /\ converting = <<>> /\ trigger = "scan"
    BY <2>1 DEF Current, ScanBase, Shape
  <2>3. converting' = begun
    BY <1>2, <1>3, <2>2
  <2>4. Total' = cfg.expected
    BY <1>2, <1>3, <2>1, <2>2, <2>3 DEF Total
  <2> QED
    BY <1>3, <2>1, <2>2, <2>4 DEF Owed
<1> QED
  BY <1>4, <1>5

LEMMA OwedCollect == ASSUME ScanBase, Owed, Collect PROVE Owed'
<1>1. /\ pc = "collect" /\ pc' = pc /\ fifo # <<>> /\ fifo \in Seq(Sample) /\ raw \in Seq(Sample)
      /\ raw' = IF Head(fifo).inv THEN raw ELSE Append(raw, Head(fifo))
      /\ fifo' = Tail(fifo)
      /\ UNCHANGED <<converting, fresh, cfg, disturbed>>
  BY DEF Collect, ScanBase, ScanTypeOK
<1>2. /\ Head(fifo) \in Sample /\ Head(fifo) = fifo[1] /\ Tail(fifo) \in Seq(Sample)
      /\ Len(fifo) \in Nat /\ Len(fifo) >= 1 /\ Len(Tail(fifo)) = Len(fifo) - 1
      /\ \A k \in 1 .. Len(fifo) - 1 : Tail(fifo)[k] = fifo[k + 1]
  BY <1>1, FirstAndRest
<1>3. DOMAIN fifo = 1 .. Len(fifo) /\ DOMAIN fifo' = 1 .. Len(fifo) - 1
  BY <1>1, <1>2, LenProperties
<1> SUFFICES ASSUME disturbed = {}
             PROVE  ~fresh /\ Total' = cfg.expected /\ \A k \in DOMAIN fifo' : ~fifo'[k].inv
  BY <1>1 DEF Owed
<1>4. ~fresh /\ Total = cfg.expected /\ \A k \in DOMAIN fifo : ~fifo[k].inv
  BY <1>1 DEF Owed
<1>5. raw' = Append(raw, Head(fifo))
  BY <1>1, <1>2, <1>3, <1>4
<1>6. Len(raw') = Len(raw) + 1 /\ Len(raw) \in Nat /\ Len(converting) \in Nat
  BY <1>1, <1>2, <1>5, AppendProperties, Lengths DEF ScanBase
<1>7. Total' = Total
  BY <1>1, <1>2, <1>6 DEF Total
<1>8. ASSUME NEW k \in DOMAIN fifo' PROVE ~fifo'[k].inv
  <2>1. k + 1 \in DOMAIN fifo /\ k \in 1 .. Len(fifo) - 1
    BY <1>2, <1>3
  <2>2. fifo'[k] = fifo[k + 1]
    BY <1>1, <1>2, <2>1
  <2> QED
    BY <1>4, <2>1, <2>2
<1> QED
  BY <1>4, <1>7, <1>8

LEMMA OwedStep == ScanBase /\ Current /\ Owed /\ [ScanNext]_scanVars => Owed'
<1> SUFFICES ASSUME ScanBase, Current, Owed, [ScanNext]_scanVars PROVE Owed'
  OBVIOUS
<1>1. CASE UNCHANGED scanVars
  BY <1>1 DEF scanVars, card, Owed, Total
<1>2. CASE WorkerEnds
  <2>1. disturbed' # {}
    BY <1>2 DEF WorkerEnds
  <2> QED
    BY <2>1 DEF Owed
<1>3. CASE SetScan \/ Drain \/ DrainEnd
  <2>1. /\ pc \in {"mode", "drain"} /\ pc' # "collect"
        /\ disturbed' = {} => disturbed = {}
        /\ UNCHANGED <<converting, fresh>>
    BY <1>3 DEF SetScan, Drain, DrainEnd, Answer, card
  <2> QED
    BY <2>1 DEF Owed
<1>4. CASE Configure \/ Begin \/ ReadScanCfg \/ SetSingle \/ Timeout \/ Finish
  <2>1. pc' \notin {"mode", "drain", "start", "collect"}
    BY <1>4 DEF Configure, Begin, ReadScanCfg, SetSingle, Timeout, Finish, Answer
  <2> QED
    BY <2>1 DEF Owed
<1> QED
  BY <1>1, <1>2, <1>3, <1>4, OwedDeliver, OwedStart, OwedCollect DEF ScanNext, GoScan

LEMMA OwedAwaited == ScanBase /\ Owed => AwaitsOwedSamples
<1> DEFINE valid == {k \in DOMAIN fifo : ~fifo[k].inv}
<1> SUFFICES ASSUME ScanBase, Owed, pc = "collect", disturbed = {}
             PROVE  Len(raw) + (Cardinality(valid) + Len(converting) - (IF fresh THEN 1 ELSE 0))
                      >= cfg.expected
  BY DEF AwaitsOwedSamples
<1>1. ~fresh /\ Total = cfg.expected /\ valid = DOMAIN fifo
  BY DEF Owed
<1>2. Len(raw) \in Nat /\ Len(fifo) \in Nat /\ Len(converting) \in Nat /\ cfg.expected \in Nat
      /\ DOMAIN fifo = 1 .. Len(fifo)
  BY Lengths DEF ScanBase
<1>3. Cardinality(1 .. Len(fifo)) = Len(fifo)
  <2>1. 1 \in Int /\ Len(fifo) \in Int
    BY <1>2
  <2>2. Cardinality(1 .. Len(fifo)) = IF 1 > Len(fifo) THEN 0 ELSE Len(fifo) - 1 + 1
    BY <2>1, FS_Interval
  <2> QED
    BY <1>2, <2>2
<1>4. Cardinality(valid) = Len(fifo)
  BY <1>1, <1>2, <1>3
<1> HIDE DEF valid
<1> QED
  BY <1>1, <1>2, <1>4 DEF Total

\* Go() waits only for samples that the card still owes it: an undisturbed scan never
\* ends in the timeout because a sample was thrown away that it counts on, as the
\* invalid one after a reset would be without the conversion that goes before
\* (ADC_SetScanStartMode, DataItems/ADC_.cpp:820-826).
THEOREM OwedSamples == ScanSpec => []AwaitsOwedSamples
<1>1. ScanInit => ScanBase /\ Current /\ Owed
  BY ScanBaseInit, CurrentInit, OwedInit
<1>2. ScanBase /\ Current /\ Owed /\ [ScanNext]_scanVars => ScanBase' /\ Current' /\ Owed'
  BY ScanBaseStep, CurrentStep, OwedStep
<1> QED
  BY <1>1, <1>2, OwedAwaited, PTL DEF ScanSpec

-----------------------------------------------------------------------------
(* CardItems.                                                              *)

\* A DAC output under construction.
Outputting == [at : Parts, with : Version, settled : BOOLEAN]

\* Where the ActionThread stands with the item that it runs.
Stations ==
  /\ apc = "modify" => Running.kind = "bit" /\ Running.op # "read"
  /\ apc = "modify" /\ Running.register # "trigger" =>
       value \cap Bits = register[Running.register]
  /\ apc \in {"wait", "put"} => MustWait
  /\ apc = "wait" => tries <= MaxTries
  /\ apc \notin {"wait", "put"} => tries = 0
  /\ apc = "offset" => Running.kind = "calibrate"

\* What the receivers have under construction or have queued.
Sending ==
  /\ \A m \in DOMAIN queue : queue[m] # <<>>
  /\ \A r \in Receivers : /\ output[r] \in {NoOutput} \cup Outputting
                          /\ output[r] # NoOutput => Len(message[r]) < MaxItems
  /\ message = [r \in Receivers |-> message[r]] /\ output = [r \in Receivers |-> output[r]]

Base == TypeOK /\ Stations /\ Sending

LEMMA Kinds ==
  ASSUME NEW i \in Item
  PROVE  /\ i.kind \in {"bit", "write", "range", "calibrate", "output"}
         /\ i.kind = "bit" => /\ i.op \in {"read", "clear", "set", "toggle"}
                              /\ i.register \in Registers /\ i.bit \in Bits
         /\ i.kind = "write" => i.register \in Registers /\ i.waits \in BOOLEAN
         /\ i.kind = "output" => i.with \in Version /\ i.settled \in BOOLEAN
<1>1. CASE i \in BitItem
  BY <1>1 DEF BitItem
<1>2. CASE i \in WriteItem
  <2>1. PICK r \in Registers :
          i \in [kind : {"write"}, register : {r}, bits : {{}, Width[r]},
                 waits : IF BusOf(r) = {} THEN {FALSE} ELSE BOOLEAN]
    BY <1>2 DEF WriteItem
  <2> QED
    BY <2>1
<1>3. CASE i \in SettingItem
  BY <1>3 DEF SettingItem
<1>4. CASE i \in OutputItem
  BY <1>4 DEF OutputItem
<1> QED
  BY <1>1, <1>2, <1>3, <1>4 DEF Item

\* The item that is run.
LEMMA RunningItem ==
  ASSUME Base, current # <<>>
  PROVE  /\ Running \in Item /\ Running = current[1] /\ Len(current) \in Nat /\ Len(current) >= 1
         /\ DOMAIN current = 1 .. Len(current)
         /\ Tail(current) \in Seq(Item) /\ Len(Tail(current)) = Len(current) - 1
         /\ \A k \in 1 .. Len(current) - 1 : Tail(current)[k] = current[k + 1]
<1>1. current \in Seq(Item)
  BY DEF Base, TypeOK
<1> QED
  BY <1>1, EmptySeq, HeadTailProperties, LenProperties DEF Running

LEMMA BaseInit == Init => Base
<1> SUFFICES ASSUME Init PROVE Base
  OBVIOUS
<1>1. \A S : <<>> \in Seq(S)
  BY EmptySeq
<1>2. Len(<<>>) = 0 /\ DOMAIN <<>> = {}
  BY EmptySeq
<1>3. [p \in Parts |-> 0] \in Version
  BY DEF Version
<1>4. TypeOK
  <2>1. register \in [Registers -> SUBSET Bits] /\ \A r \in Registers : register[r] \subseteq Width[r]
    BY DEF Init
  <2>2. \A r \in Receivers : /\ message[r] \in Seq(Item) /\ Len(message[r]) <= MaxItems
                             /\ output[r].at = "none"
    <3>1. MaxItems >= 0
      BY BoundsAssumption
    <3> QED
      BY <1>1, <1>2, <3>1 DEF Init, NoOutput
  <2>3. sent \in 0 .. MaxSent /\ tries \in 0 .. MaxTries + 1
    BY BoundsAssumption DEF Init
  <2>4. queue \in Seq(Seq(Item)) /\ current \in Seq(Item)
    BY <1>1 DEF Init
  <2>5. closing \in BOOLEAN /\ apc = "idle" /\ busy = {} /\ value = {}
    BY DEF Init
  <2> QED
    BY <1>3, <2>1, <2>2, <2>3, <2>4, <2>5 DEF Init, TypeOK
<1>5. Stations /\ Sending
  BY <1>2 DEF Init, Stations, Sending
<1> QED
  BY <1>4, <1>5 DEF Base

\* The card and the receivers leave the ActionThread where it is.
LEMMA CardTyped ==
  ASSUME Base, WorkerCloses \/ \E b \in Bus : SpiDone(b)
  PROVE  Base'
<1>1. CASE WorkerCloses
  <2>1. /\ register' = [register EXCEPT !["trigger"] = {}] /\ closing' = FALSE
        /\ UNCHANGED <<dac, busy, Config, receiverVars, queue, actionVars>>
    BY <1>1 DEF WorkerCloses
  <2>2. /\ register' \in [Registers -> SUBSET Bits]
        /\ \A r \in Registers : register'[r] \subseteq Width[r]
        /\ \A r \in Registers : r # "trigger" => register'[r] = register[r]
    BY <2>1 DEF Base, TypeOK
  <2>3. TypeOK'
    BY <2>1, <2>2 DEF Base, TypeOK, receiverVars, actionVars
  <2>4. Stations'
    <3>1. apc = "modify" => Running \in Item /\ Running.register \in Registers
      BY RunningItem, Kinds DEF Base, Stations, TypeOK
    <3> QED
      BY <2>1, <2>2, <3>1 DEF Base, Stations, actionVars, Running, MustWait
  <2>5. Sending'
    BY <2>1 DEF Base, Sending, receiverVars
  <2> QED
    BY <2>3, <2>4, <2>5 DEF Base
<1>2. CASE \E b \in Bus : SpiDone(b)
  <2>1. /\ busy' \subseteq busy
        /\ UNCHANGED <<register, dac, closing, Config, receiverVars, queue, actionVars>>
    BY <1>2 DEF SpiDone
  <2>2. TypeOK'
    BY <2>1 DEF Base, TypeOK, receiverVars, actionVars
  <2>3. Stations'
    BY <2>1 DEF Base, Stations, actionVars, Running, MustWait
  <2>4. Sending'
    BY <2>1 DEF Base, Sending, receiverVars
  <2> QED
    BY <2>2, <2>3, <2>4 DEF Base
<1> QED
  BY <1>1, <1>2

\* A step of a receiver, by what it makes of its message and its output.
LEMMA ReceiverFrame ==
  ASSUME Base, UNCHANGED <<cardVars, closing, Config, actionVars>>,
         sent' \in 0 .. MaxSent, queue' \in Seq(Seq(Item)),
         \A m \in DOMAIN queue' : queue'[m] # <<>>,
         NEW r \in Receivers, NEW s \in Seq(Item), NEW o \in {NoOutput} \cup Outputting,
         Len(s) <= MaxItems, o # NoOutput => Len(s) < MaxItems,
         message' = [message EXCEPT ![r] = s], output' = [output EXCEPT ![r] = o]
  PROVE  Base'
<1>1. \A q \in Receivers : /\ message'[q] = IF q = r THEN s ELSE message[q]
                           /\ output'[q] = IF q = r THEN o ELSE output[q]
  BY DEF Base, Sending
<1>2. message' = [q \in Receivers |-> message'[q]] /\ output' = [q \in Receivers |-> output'[q]]
  BY DEF Base, Sending
<1>3. o.at \in {"none"} \cup Parts
  BY DEF NoOutput, Outputting
<1>4. TypeOK'
  BY <1>1, <1>3 DEF Base, TypeOK, cardVars, actionVars
<1>5. Stations'
  BY DEF Base, Stations, cardVars, actionVars, Running, MustWait
<1>6. Sending'
  BY <1>1, <1>2 DEF Base, Sending
<1> QED
  BY <1>4, <1>5, <1>6 DEF Base

LEMMA ReceiverTyped == ASSUME Base, NEW r \in Receivers, Receiver(r) PROVE Base'
<1>0. /\ message[r] \in Seq(Item) /\ Len(message[r]) \in Nat /\ Len(message[r]) <= MaxItems
      /\ queue \in Seq(Seq(Item)) /\ sent \in 0 .. MaxSent
      /\ output[r] \in {NoOutput} \cup Outputting /\ Config \in Version
      /\ output[r] # NoOutput => Len(message[r]) < MaxItems
      /\ \A m \in DOMAIN queue : queue[m] # <<>>
      /\ message = [message EXCEPT ![r] = message[r]] /\ output = [output EXCEPT ![r] = output[r]]
      /\ MaxItems \in Nat /\ MaxSent \in Nat
  BY LenProperties, BoundsAssumption DEF Base, TypeOK, Sending
<1>1. ASSUME NEW i \in Item PROVE Append(message[r], i) \in Seq(Item)
                                  /\ Len(Append(message[r], i)) = Len(message[r]) + 1
  BY <1>0, AppendProperties
<1>2. CASE Construct(r)
  <2>1. PICK i \in Item : message' = [message EXCEPT ![r] = Append(message[r], i)]
    BY <1>2 DEF Construct, Item
  <2>2. /\ UNCHANGED <<cardVars, closing, Config, output, queue, actionVars>>
        /\ output[r] = NoOutput /\ Len(message[r]) < MaxItems /\ sent' \in 0 .. MaxSent
    BY <1>0, <1>2 DEF Construct, MaySend
  <2>3. Len(Append(message[r], i)) <= MaxItems
    BY <1>0, <1>1, <2>2
  <2>4. output' = [output EXCEPT ![r] = NoOutput]
    BY <1>0, <2>2
  <2> QED
    BY <1>0, <1>1, <2>1, <2>2, <2>3, <2>4, ReceiverFrame
<1>3. CASE ConstructOutput(r)
  <2> DEFINE o == [at |-> "scale", with |-> Config, settled |-> Settled(r)]
  <2>1. /\ UNCHANGED <<cardVars, closing, Config, message, queue, actionVars>>
        /\ output' = [output EXCEPT ![r] = o]
        /\ Len(message[r]) < MaxItems /\ sent' \in 0 .. MaxSent
    BY <1>0, <1>3 DEF ConstructOutput, MaySend
  <2>2. o \in Outputting
    <3>1. Settled(r) \in BOOLEAN
      BY DEF Settled
    <3> QED
      BY <1>0, <3>1 DEF Outputting, Parts
  <2> HIDE DEF o
  <2> QED
    BY <1>0, <2>1, <2>2, ReceiverFrame
<1>4. CASE ReadSetting(r)
  <2> DEFINE p == output[r].at
             o == [output[r] EXCEPT !.with[p] = Config[p], !.at = After(p)]
  <2>1. /\ UNCHANGED <<cardVars, closing, Config, message, sent, queue, actionVars>>
        /\ output' = [output EXCEPT ![r] = o]
        /\ output[r].at \in {"scale", "offset"}
    BY <1>0, <1>4 DEF ReadSetting
  <2>2. output[r] \in Outputting
    BY <1>0, <2>1 DEF NoOutput
  <2>3. o \in Outputting
    BY <1>0, <2>1, <2>2 DEF Outputting, Version, Parts, After
  <2> HIDE DEF o
  <2>4. output[r] # NoOutput
    BY <2>1 DEF NoOutput
  <2> QED
    BY <1>0, <2>1, <2>3, <2>4, ReceiverFrame
<1>5. CASE ReadRange(r)
  <2> DEFINE i == [kind |-> "output", with |-> [output[r].with EXCEPT !["range"] = Config["range"]],
                   settled |-> output[r].settled]
  <2>1. /\ UNCHANGED <<cardVars, closing, Config, sent, queue, actionVars>>
        /\ message' = [message EXCEPT ![r] = Append(message[r], i)]
        /\ output' = [output EXCEPT ![r] = NoOutput] /\ output[r].at = "range"
    BY <1>5 DEF ReadRange
  <2>2. output[r] \in Outputting /\ output[r] # NoOutput
    BY <1>0, <2>1 DEF NoOutput
  <2>3. i \in Item
    <3>1. [output[r].with EXCEPT !["range"] = Config["range"]] \in Version
      BY <1>0, <2>2 DEF Outputting, Version, Parts
    <3> QED
      BY <2>2, <3>1 DEF Outputting, Item, OutputItem
  <2> HIDE DEF i
  <2>4. Len(Append(message[r], i)) <= MaxItems
    BY <1>0, <1>1, <2>2, <2>3
  <2> QED
    BY <1>0, <1>1, <2>1, <2>3, <2>4, ReceiverFrame
<1>6. CASE Enqueue(r)
  <2>1. /\ UNCHANGED <<cardVars, closing, Config, output, sent, actionVars>>
        /\ message' = [message EXCEPT ![r] = <<>>] /\ message[r] # <<>>
        /\ queue' = Append(queue, message[r])
    BY <1>6 DEF Enqueue
  <2>2. /\ Append(queue, message[r]) \in Seq(Seq(Item))
        /\ \A m \in DOMAIN Append(queue, message[r]) : Append(queue, message[r])[m] # <<>>
    <3>1. /\ Append(queue, message[r]) \in Seq(Seq(Item))
          /\ Len(queue) \in Nat /\ DOMAIN queue = 1 .. Len(queue)
          /\ DOMAIN Append(queue, message[r]) = 1 .. Len(queue) + 1
          /\ \A m \in 1 .. Len(queue) : Append(queue, message[r])[m] = queue[m]
          /\ Append(queue, message[r])[Len(queue) + 1] = message[r]
      BY <1>0, AppendProperties, LenProperties
    <3>2. \A m \in 1 .. Len(queue) + 1 : m \in 1 .. Len(queue) \/ m = Len(queue) + 1
      BY <3>1
    <3> QED
      BY <1>0, <2>1, <3>1, <3>2
  <2>3. <<>> \in Seq(Item) /\ Len(<<>>) = 0 /\ output[r] = NoOutput
    BY <1>6, EmptySeq DEF Enqueue
  <2>4. output' = [output EXCEPT ![r] = NoOutput]
    BY <1>0, <2>1, <2>3
  <2>5. /\ UNCHANGED <<cardVars, closing, Config, actionVars>>
        /\ sent' \in 0 .. MaxSent /\ queue' \in Seq(Seq(Item))
        /\ \A m \in DOMAIN queue' : queue'[m] # <<>>
    BY <1>0, <2>1, <2>2
  <2> DEFINE s == <<>>
  <2>6. /\ s \in Seq(Item) /\ Len(s) <= MaxItems
        /\ message' = [message EXCEPT ![r] = s]
    BY <1>0, <2>1, <2>3
  <2> HIDE DEF s
  <2> QED
    BY <2>4, <2>5, <2>6, ReceiverFrame
<1> QED
  BY <1>2, <1>3, <1>4, <1>5, <1>6 DEF Receiver

\* A write leaves the register within its width.
LEMMA OutTyped ==
  ASSUME Base, NEW r \in Registers, NEW bits, Out(r, bits)
  PROVE  /\ register' \in [Registers -> SUBSET Bits]
         /\ \A q \in Registers : register'[q] \subseteq Width[q]
         /\ busy' \subseteq Bus /\ dac' = dac
<1>1. /\ register \in [Registers -> SUBSET Bits]
      /\ \A q \in Registers : register[q] \subseteq Width[q] /\ Width[q] \subseteq Bits
      /\ busy \subseteq Bus
  BY WidthAssumption DEF Base, TypeOK
<1>2. register' = [register EXCEPT ![r] = bits \cap Width[r]] \/ register' = register
  BY DEF Out
<1>3. busy' = busy \cup BusOf(r) /\ dac' = dac /\ BusOf(r) \subseteq Bus
  BY DEF Out, BusOf, Bus
<1> QED
  BY <1>1, <1>2, <1>3

\* The end of an item.
LEMMA DoneTyped ==
  ASSUME Base, apc # "idle", Done, UNCHANGED <<closing, receiverVars, queue>>,
         register' \in [Registers -> SUBSET Bits],
         \A q \in Registers : register'[q] \subseteq Width[q],
         busy' \subseteq Bus, dac' \in Version, Config' \in Version
  PROVE  Base'
<1>1. current # <<>>
  BY DEF Base, TypeOK
<1>2. current' \in Seq(Item) /\ (apc' # "idle" => current' # <<>>)
  <2>1. /\ current' = Tail(current) /\ current' \in Seq(Item)
        /\ Len(current') = Len(current) - 1 /\ Len(current) \in Nat
        /\ apc' = IF Len(current) = 1 THEN "idle" ELSE "run"
    BY <1>1, RunningItem DEF Done
  <2>2. current' = <<>> => Len(current') = 0
    BY EmptySeq
  <2> QED
    BY <2>1, <2>2
<1>3. apc' \in {"idle", "run"} /\ value' = {} /\ tries' = 0
  BY DEF Done
<1>4. tries' \in 0 .. MaxTries + 1
  BY <1>3, BoundsAssumption
<1>5. TypeOK'
  BY <1>2, <1>3, <1>4 DEF Base, TypeOK, receiverVars
<1>6. Stations'
  BY <1>3 DEF Stations
<1>7. Sending'
  BY DEF Base, Sending, receiverVars
<1> QED
  BY <1>5, <1>6, <1>7 DEF Base

LEMMA DequeueTyped == ASSUME Base, Dequeue PROVE Base'
<1>1. /\ queue \in Seq(Seq(Item)) /\ queue # <<>> /\ \A m \in DOMAIN queue : queue[m] # <<>>
      /\ current' = Head(queue) /\ queue' = Tail(queue) /\ apc = "idle" /\ apc' = "run"
      /\ UNCHANGED <<cardVars, closing, Config, receiverVars, value, tries>>
  BY DEF Base, TypeOK, Sending, Dequeue
<1>2. /\ Len(queue) \in Nat /\ Len(queue) >= 1 /\ DOMAIN queue = 1 .. Len(queue)
      /\ Head(queue) = queue[1] /\ Tail(queue) \in Seq(Seq(Item))
      /\ Len(Tail(queue)) = Len(queue) - 1
      /\ \A k \in 1 .. Len(queue) - 1 : Tail(queue)[k] = queue[k + 1]
  BY <1>1, EmptySeq, HeadTailProperties, LenProperties
<1>3. current' \in Seq(Item) /\ current' # <<>>
  <2>1. 1 \in 1 .. Len(queue)
    BY <1>2
  <2>2. queue[1] \in Seq(Item) /\ queue[1] # <<>>
    BY <1>1, <1>2, <2>1, ElementOfSeq
  <2> QED
    BY <1>1, <1>2, <2>2
<1>4. DOMAIN queue' = 1 .. Len(queue) - 1 /\ \A m \in DOMAIN queue' : queue'[m] # <<>>
  <2>1. DOMAIN Tail(queue) = 1 .. Len(queue) - 1
    BY <1>2, LenProperties
  <2> QED
    BY <1>1, <1>2, <2>1
<1>5. TypeOK'
  BY <1>1, <1>2, <1>3 DEF Base, TypeOK, cardVars, receiverVars
<1>6. Stations'
  BY <1>1 DEF Base, Stations
<1>7. Sending'
  BY <1>1, <1>4 DEF Base, Sending, receiverVars
<1> QED
  BY <1>5, <1>6, <1>7 DEF Base

LEMMA GoTyped == ASSUME Base, Go PROVE Base'
<1>0. /\ register \in [Registers -> SUBSET Bits] /\ \A q \in Registers : register[q] \subseteq Width[q]
      /\ busy \subseteq Bus /\ dac \in Version /\ Config \in Version
      /\ tries \in 0 .. MaxTries + 1 /\ MaxTries \in Nat \ {0}
      /\ current # <<>> /\ Running \in Item /\ apc # "idle"
  <2>1. apc # "idle"
    BY DEF Go, ReadBit, ReadRegister, WriteRegister, Write, BeginWait, Wait, Put,
           SetRange, SetScale, SetOffset
  <2> QED
    BY <2>1, RunningItem, BoundsAssumption DEF Base, TypeOK
<1>1. Running.kind \in {"bit", "write"} => Running.register \in Registers
  BY <1>0, Kinds
<1>2. CASE ReadBit
  BY <1>0, <1>2, DoneTyped DEF ReadBit, cardVars
<1>3. CASE ReadRegister
  <2>1. /\ value' = In(Running.register) /\ apc' = "modify"
        /\ Running.kind = "bit" /\ Running.op # "read"
        /\ UNCHANGED <<cardVars, closing, Config, receiverVars, queue, current, tries>>
        /\ apc = "run"
    BY <1>3 DEF ReadRegister
  <2>2. /\ value' \subseteq Bits \cup {SpiBusy}
        /\ value' \cap Bits = register[Running.register]
    <3>1. register[Running.register] \subseteq Bits
      BY <1>0, <1>1, <2>1
    <3>2. SpiBusy \notin Bits
      BY WidthAssumption DEF SpiBusy
    <3> QED
      BY <2>1, <3>1, <3>2 DEF In
  <2>3. TypeOK'
    BY <1>0, <2>1, <2>2 DEF Base, TypeOK, cardVars, receiverVars
  <2>4. Stations'
    BY <2>1, <2>2 DEF Base, Stations, Running, cardVars
  <2>5. Sending'
    BY <2>1 DEF Base, Sending, receiverVars
  <2> QED
    BY <2>3, <2>4, <2>5 DEF Base
<1>4. CASE WriteRegister
  <2> DEFINE bits == Modified(value, Running.op, Running.bit)
  <2>1. /\ Out(Running.register, bits) /\ Done
        /\ UNCHANGED <<closing, Config, receiverVars, queue>>
        /\ Running.register \in Registers
    BY <1>1, <1>4 DEF WriteRegister, Base, Stations
  <2> HIDE DEF bits
  <2> QED
    BY <1>0, <2>1, OutTyped, DoneTyped
<1>5. CASE Write
  <2>1. /\ Out(Running.register, Running.bits) /\ Done
        /\ UNCHANGED <<closing, Config, receiverVars, queue>>
        /\ Running.register \in Registers
    BY <1>1, <1>5 DEF Write
  <2> QED
    BY <1>0, <2>1, OutTyped, DoneTyped
<1>6. CASE BeginWait
  <2>1. /\ MustWait /\ apc = "run" /\ apc' = "wait"
        /\ UNCHANGED <<cardVars, closing, Config, receiverVars, queue, current, value, tries>>
    BY <1>6 DEF BeginWait
  <2>2. TypeOK'
    BY <1>0, <2>1 DEF Base, TypeOK, cardVars, receiverVars
  <2>3. Stations'
    BY <1>0, <2>1 DEF Base, Stations, Running, MustWait, cardVars
  <2>4. Sending'
    BY <2>1 DEF Base, Sending, receiverVars
  <2> QED
    BY <2>2, <2>3, <2>4 DEF Base
<1>7. CASE Wait
  <2>1. /\ apc = "wait" /\ tries' = tries + 1 /\ apc' \in {"wait", "put"}
        /\ apc' = "wait" => tries' <= MaxTries
        /\ UNCHANGED <<cardVars, closing, Config, receiverVars, queue, current, value>>
    BY <1>7 DEF Wait
  <2>2. tries' \in 0 .. MaxTries + 1
    BY <1>0, <2>1 DEF Base, Stations
  <2>3. TypeOK'
    BY <1>0, <2>1, <2>2 DEF Base, TypeOK, cardVars, receiverVars
  <2>4. Stations'
    BY <1>0, <2>1 DEF Base, Stations, Running, MustWait, cardVars
  <2>5. Sending'
    BY <2>1 DEF Base, Sending, receiverVars
  <2> QED
    BY <2>3, <2>4, <2>5 DEF Base
<1>8. CASE Put
  <2>1. Done /\ UNCHANGED <<closing, Config, receiverVars, queue>>
    BY <1>8 DEF Put
  <2>2. /\ register' \in [Registers -> SUBSET Bits]
        /\ \A q \in Registers : register'[q] \subseteq Width[q]
        /\ busy' \subseteq Bus /\ dac' \in Version
    <3>1. CASE Running.kind = "write" /\ Out(Running.register, Running.bits)
      BY <1>0, <1>1, <3>1, OutTyped
    <3>2. CASE /\ Running.kind = "output" /\ busy' = busy \cup {"dac"} /\ UNCHANGED register
               /\ dac' \in {Running.with} \cup IF "dac" \in busy THEN {dac} ELSE {}
      <4>1. Running.with \in Version
        BY <1>0, <3>2, Kinds
      <4> QED
        BY <1>0, <3>2, <4>1 DEF Bus
    <3> QED
      BY <1>8, <3>1, <3>2 DEF Put
  <2> QED
    BY <1>0, <2>1, <2>2, DoneTyped
<1>9. ASSUME NEW p \in Parts PROVE [Config EXCEPT ![p] = @ + 1] \in Version
  BY <1>0 DEF Version
<1>10. CASE SetRange
  <2>1. /\ Done /\ UNCHANGED <<register, dac, busy, closing, receiverVars, queue>>
        /\ Config' = [Config EXCEPT !["range"] = @ + 1] \/ Config' = Config
    BY <1>10 DEF SetRange, cardVars
  <2>2. Config' \in Version
    BY <1>0, <1>9, <2>1 DEF Parts
  <2> QED
    BY <1>0, <2>1, <2>2, DoneTyped
<1>11. CASE SetScale
  <2>1. /\ UNCHANGED <<register, dac, busy, closing, receiverVars, queue>>
        /\ Config' = [Config EXCEPT !["scale"] = @ + 1]
        /\ Running.kind = "calibrate" /\ apc = "run"
    BY <1>11 DEF SetScale, cardVars
  <2>2. Config' \in Version
    BY <1>9, <2>1 DEF Parts
  <2>3. CASE Done
    BY <1>0, <2>1, <2>2, <2>3, DoneTyped
  <2>4. CASE apc' = "offset" /\ UNCHANGED <<current, value, tries>>
    <3>1. TypeOK'
      BY <1>0, <2>1, <2>2, <2>4 DEF Base, TypeOK, receiverVars
    <3>2. Stations'
      BY <1>0, <2>1, <2>4 DEF Base, Stations, Running
    <3>3. Sending'
      BY <2>1 DEF Base, Sending, receiverVars
    <3> QED
      BY <3>1, <3>2, <3>3 DEF Base
  <2> QED
    BY <1>11, <2>3, <2>4 DEF SetScale
<1>12. CASE SetOffset
  <2>1. /\ Done /\ UNCHANGED <<register, dac, busy, closing, receiverVars, queue>>
        /\ Config' = [Config EXCEPT !["offset"] = @ + 1]
    BY <1>12 DEF SetOffset, cardVars
  <2>2. Config' \in Version
    BY <1>9, <2>1 DEF Parts
  <2> QED
    BY <1>0, <2>1, <2>2, DoneTyped
<1> QED
  BY <1>2, <1>3, <1>4, <1>5, <1>6, <1>7, <1>8, <1>10, <1>11, <1>12 DEF Go

LEMMA BaseStep == Base /\ [Next]_vars => Base'
<1>1. ASSUME Base, UNCHANGED vars PROVE Base'
  <2>1. TypeOK'
    BY <1>1 DEF Base, TypeOK, vars, cardVars, receiverVars, actionVars
  <2>2. Stations'
    BY <1>1 DEF Base, Stations, Running, MustWait, vars, cardVars, receiverVars, actionVars
  <2>3. Sending'
    BY <1>1 DEF Base, Sending, vars, receiverVars
  <2> QED
    BY <2>1, <2>2, <2>3 DEF Base
<1> QED
  BY <1>1, CardTyped, ReceiverTyped, DequeueTyped, GoTyped DEF Next

\* The registers, the DAC, the items and the ActionThread always have their types, and a
\* register never holds a bit that it does not have.
THEOREM ItemsTypeOK == Spec => []TypeOK
<1>1. Base => TypeOK
  BY DEF Base
<1> QED
  BY <1>1, BaseInit, BaseStep, PTL DEF Spec

\* No step writes a register that a bit item has read, but the item's own write.
LEMMA OneBit ==
  ASSUME Base, apc = "modify", apc' # "modify", Running.register # "trigger", [Next]_vars
  PROVE  LET r    == Running.register
             b    == Running.bit
             asks == Running.op = "set" \/ (Running.op = "toggle" /\ b \notin register[r])
         IN  \/ /\ register'[r] \ {b} = register[r] \ {b}
                /\ b \in Width[r] => (b \in register'[r] <=> asks)
             \/ BusOf(r) \cap busy # {} /\ UNCHANGED register
<1> DEFINE r == Running.register
           b == Running.bit
<1>1. WriteRegister
  BY DEF Next, vars, actionVars, WorkerCloses, SpiDone, Receiver, Construct, ConstructOutput,
         ReadSetting, ReadRange, Enqueue, Dequeue, Go, ReadBit, ReadRegister, Write, BeginWait,
         Wait, Put, SetRange, SetScale, SetOffset
<1>2. /\ Running \in Item /\ Running.kind = "bit" /\ Running.op # "read"
      /\ value \cap Bits = register[r]
  BY RunningItem DEF Base, TypeOK, Stations
<1>3. /\ r \in Registers /\ b \in Bits /\ Running.op \in {"clear", "set", "toggle"}
      /\ register[r] \subseteq Width[r] /\ Width[r] \subseteq Bits
      /\ register \in [Registers -> SUBSET Bits]
  BY <1>2, Kinds, WidthAssumption DEF Base, TypeOK
<1> DEFINE bits == Modified(value, Running.op, b)
           new == bits \cap Width[r]
           asks == Running.op = "set" \/ (Running.op = "toggle" /\ b \notin register[r])
<1>4. register' = [register EXCEPT ![r] = new] \/ (BusOf(r) \cap busy # {} /\ register' = register)
  BY <1>1 DEF WriteRegister, Out
<1>5. /\ bits \ {b} = value \ {b}
      /\ b \in bits <=> asks
  <2>1. b \in value <=> b \in register[r]
    BY <1>2, <1>3
  <2> QED
    BY <1>3, <2>1 DEF Modified
<1>6. value \cap Width[r] = register[r]
  BY <1>2, <1>3
<1> HIDE DEF bits, asks
<1>7. new \ {b} = register[r] \ {b} /\ (b \in Width[r] => (b \in new <=> asks))
  BY <1>5, <1>6
<1>8. register' = [register EXCEPT ![r] = new] => register'[r] = new
  BY <1>3
<1>9. \/ register'[r] \ {b} = register[r] \ {b} /\ (b \in Width[r] => (b \in register'[r] <=> asks))
      \/ BusOf(r) \cap busy # {} /\ UNCHANGED register
  BY <1>4, <1>7, <1>8
<1> QED
  BY <1>9 DEF asks

\* Bit items take place one bit each, whatever else is run or constructed meanwhile: the
\* single ActionThread runs the reading and the writing of a register without a write of
\* any other item between them.
THEOREM BitItems == Spec => BitItemsDoOneBit
<1>1. ASSUME Base, [Next]_vars
      PROVE  [apc = "modify" /\ apc' # "modify" /\ Running.register # "trigger" =>
                LET r    == Running.register
                    b    == Running.bit
                    asks == Running.op = "set" \/ (Running.op = "toggle" /\ b \notin register[r])
                IN  \/ /\ register'[r] \ {b} = register[r] \ {b}
                       /\ b \in Width[r] => (b \in register'[r] <=> asks)
                    \/ BusOf(r) \cap busy # {} /\ UNCHANGED register]_vars
  BY <1>1, OneBit
<1> QED
  BY <1>1, BaseInit, BaseStep, PTL DEF Spec, BitItemsDoOneBit

-----------------------------------------------------------------------------
(* The order of settings and outputs.                                      *)

\* An output that was constructed while no setting was under way.
InForce(i) == i.kind = "output" /\ i.settled

\* No setting comes before the k-th item.
Before(s, k) == \A j \in 1 .. k - 1 : ~IsSetting(s[j])

NoneIn(q) == \A m \in DOMAIN q : ~HasSetting(q[m])

\* From its construction until it is written, no setting of the DAC is ahead of such an
\* output, and so it holds the settings in force.
RunningInOrder ==
  \A k \in DOMAIN current : InForce(current[k]) => current[k].with = Config /\ Before(current, k)

QueueInOrder ==
  \A m \in DOMAIN queue : \A k \in DOMAIN queue[m] : InForce(queue[m][k]) =>
    /\ queue[m][k].with = Config /\ Before(queue[m], k)
    /\ ~HasSetting(current) /\ \A n \in 1 .. m - 1 : ~HasSetting(queue[n])

MessageInOrder ==
  \A r \in Receivers : \A k \in DOMAIN message[r] : InForce(message[r][k]) =>
    /\ message[r][k].with = Config /\ Before(message[r], k)
    /\ ~HasSetting(current) /\ NoneIn(queue)

OutputInOrder ==
  \A r \in Receivers : output[r] # NoOutput /\ output[r].settled =>
    /\ output[r].with = Config
    /\ ~HasSetting(message[r]) /\ ~HasSetting(current) /\ NoneIn(queue)

InOrder == RunningInOrder /\ QueueInOrder /\ MessageInOrder /\ OutputInOrder

\* What a message is without its first item.
LEMMA TailOfItems ==
  ASSUME NEW s \in Seq(Item), s # <<>>
  PROVE  /\ HasSetting(Tail(s)) => HasSetting(s)
         /\ \A k \in DOMAIN Tail(s) :
              k + 1 \in DOMAIN s /\ Tail(s)[k] = s[k + 1] /\ (Before(s, k + 1) => Before(Tail(s), k))
<1>1. /\ Len(s) \in Nat /\ Len(s) >= 1 /\ DOMAIN s = 1 .. Len(s)
      /\ Tail(s) \in Seq(Item) /\ Len(Tail(s)) = Len(s) - 1
      /\ \A k \in 1 .. Len(s) - 1 : Tail(s)[k] = s[k + 1]
  BY EmptySeq, HeadTailProperties, LenProperties
<1>2. DOMAIN Tail(s) = 1 .. Len(s) - 1
  BY <1>1, LenProperties
<1>3. \A k \in DOMAIN Tail(s) : k \in Nat /\ k + 1 \in DOMAIN s /\ Tail(s)[k] = s[k + 1]
  BY <1>1, <1>2
<1>4. HasSetting(Tail(s)) => HasSetting(s)
  BY <1>3 DEF HasSetting
<1>5. ASSUME NEW k \in DOMAIN Tail(s), Before(s, k + 1) PROVE Before(Tail(s), k)
  <2>1. \A j \in 1 .. k - 1 : j \in 1 .. Len(s) - 1 /\ j + 1 \in 1 .. (k + 1) - 1
    BY <1>1, <1>2
  <2> QED
    BY <1>1, <1>5, <2>1 DEF Before
<1> QED
  BY <1>3, <1>4, <1>5

\* What a message is with one item more.
LEMMA OneMoreItem ==
  ASSUME NEW s \in Seq(Item), NEW i \in Item
  PROVE  /\ DOMAIN s = 1 .. Len(s) /\ Len(s) \in Nat
         /\ DOMAIN Append(s, i) = 1 .. Len(s) + 1 /\ Append(s, i)[Len(s) + 1] = i
         /\ \A k \in DOMAIN s : Append(s, i)[k] = s[k] /\ (Before(s, k) => Before(Append(s, i), k))
         /\ ~HasSetting(s) => Before(Append(s, i), Len(s) + 1)
<1>1. /\ Len(s) \in Nat /\ DOMAIN s = 1 .. Len(s)
      /\ DOMAIN Append(s, i) = 1 .. Len(s) + 1 /\ Append(s, i)[Len(s) + 1] = i
      /\ \A k \in 1 .. Len(s) : Append(s, i)[k] = s[k]
  BY AppendProperties, LenProperties
<1>2. ASSUME NEW k \in DOMAIN s, Before(s, k) PROVE Before(Append(s, i), k)
  <2>1. \A j \in 1 .. k - 1 : j \in 1 .. Len(s)
    BY <1>1
  <2> QED
    BY <1>1, <1>2, <2>1 DEF Before
<1>3. ASSUME ~HasSetting(s) PROVE Before(Append(s, i), Len(s) + 1)
  <2>1. \A j \in 1 .. (Len(s) + 1) - 1 : j \in 1 .. Len(s)
    BY <1>1
  <2> QED
    BY <1>1, <1>3, <2>1 DEF Before, HasSetting
<1> QED
  BY <1>1, <1>2, <1>3

\* The end of an item that leaves the settings alone.
LEMMA DoneInOrder ==
  ASSUME Base, InOrder, current # <<>>, Done, UNCHANGED <<Config, receiverVars, queue>>
  PROVE  InOrder'
<1>1. current \in Seq(Item) /\ current' = Tail(current)
  BY DEF Base, TypeOK, Done
<1>2. /\ HasSetting(current') => HasSetting(current)
      /\ \A k \in DOMAIN current' : /\ k + 1 \in DOMAIN current /\ current'[k] = current[k + 1]
                                    /\ Before(current, k + 1) => Before(current', k)
  BY <1>1, TailOfItems
<1>3. RunningInOrder'
  BY <1>2 DEF InOrder, RunningInOrder, InForce
<1>4. QueueInOrder'
  BY <1>2 DEF InOrder, QueueInOrder
<1>5. MessageInOrder' /\ OutputInOrder'
  BY <1>2 DEF InOrder, MessageInOrder, OutputInOrder, receiverVars
<1> QED
  BY <1>3, <1>4, <1>5 DEF InOrder

\* While a setting is run, nothing that relies on the settings in force is behind it.
LEMMA SettingInOrder ==
  ASSUME Base, InOrder, current # <<>>, IsSetting(Running),
         UNCHANGED <<receiverVars, queue>>, current' \in {current, Tail(current)}
  PROVE  InOrder'
<1>1. /\ current \in Seq(Item) /\ Running = current[1] /\ DOMAIN current = 1 .. Len(current)
      /\ Len(current) \in Nat /\ Len(current) >= 1
  BY RunningItem DEF Base, TypeOK
<1>2. HasSetting(current)
  BY <1>1 DEF HasSetting
<1>3. \A k \in DOMAIN current : ~InForce(current[k])
  <2> SUFFICES ASSUME NEW k \in DOMAIN current, InForce(current[k]) PROVE FALSE
    OBVIOUS
  <2>1. k # 1
    BY <1>1 DEF InForce, IsSetting
  <2>2. 1 \in 1 .. k - 1
    BY <1>1, <2>1
  <2> QED
    BY <1>1, <2>2 DEF InOrder, RunningInOrder, Before
<1>4. \A k \in DOMAIN current' : ~InForce(current'[k])
  BY <1>1, <1>3, TailOfItems
<1>5. RunningInOrder'
  BY <1>4 DEF RunningInOrder, InForce
<1>6. QueueInOrder'
  BY <1>2 DEF InOrder, QueueInOrder, InForce
<1>7. MessageInOrder' /\ OutputInOrder'
  BY <1>2 DEF InOrder, MessageInOrder, OutputInOrder, InForce, receiverVars
<1> QED
  BY <1>5, <1>6, <1>7 DEF InOrder

LEMMA GoInOrder == ASSUME Base, InOrder, Go PROVE InOrder'
<1>1. current # <<>> /\ (apc = "offset" => Running.kind = "calibrate")
  BY DEF Base, TypeOK, Stations, Go, ReadBit, ReadRegister, WriteRegister, Write, BeginWait, Wait,
         Put, SetRange, SetScale, SetOffset
<1>2. CASE ReadBit \/ WriteRegister \/ Write \/ Put
  BY <1>1, <1>2, DoneInOrder DEF ReadBit, WriteRegister, Write, Put
<1>3. CASE ReadRegister \/ BeginWait \/ Wait
  <2>1. UNCHANGED <<Config, receiverVars, queue, current>>
    BY <1>3 DEF ReadRegister, BeginWait, Wait
  <2> QED
    BY <2>1 DEF InOrder, RunningInOrder, QueueInOrder, MessageInOrder, OutputInOrder, receiverVars
<1>4. CASE SetRange \/ SetScale \/ SetOffset
  <2>1. /\ IsSetting(Running) /\ current' \in {current, Tail(current)}
        /\ UNCHANGED <<receiverVars, queue>>
    BY <1>1, <1>4 DEF SetRange, SetScale, SetOffset, IsSetting, Done
  <2> QED
    BY <1>1, <2>1, SettingInOrder
<1> QED
  BY <1>2, <1>3, <1>4 DEF Go

LEMMA DequeueInOrder == ASSUME Base, InOrder, Dequeue PROVE InOrder'
<1>1. /\ queue \in Seq(Seq(Item)) /\ queue # <<>>
      /\ current' = Head(queue) /\ queue' = Tail(queue) /\ UNCHANGED <<Config, receiverVars>>
  BY DEF Base, TypeOK, Dequeue
<1>2. /\ Len(queue) \in Nat /\ Len(queue) >= 1 /\ DOMAIN queue = 1 .. Len(queue)
      /\ current' = queue[1] /\ DOMAIN queue' = 1 .. Len(queue) - 1
      /\ \A k \in 1 .. Len(queue) - 1 : queue'[k] = queue[k + 1]
  BY <1>1, EmptySeq, HeadTailProperties, LenProperties
<1>3. 1 \in DOMAIN queue
  BY <1>2
<1>4. RunningInOrder'
  BY <1>1, <1>2, <1>3 DEF InOrder, QueueInOrder, RunningInOrder
<1>5. ASSUME NEW m \in DOMAIN queue', NEW k \in DOMAIN queue'[m], InForce(queue'[m][k])
      PROVE  /\ queue'[m][k].with = Config' /\ Before(queue'[m], k)
             /\ ~HasSetting(current') /\ \A n \in 1 .. m - 1 : ~HasSetting(queue'[n])
  <2>1. m \in Nat /\ m >= 1 /\ m + 1 \in DOMAIN queue /\ queue'[m] = queue[m + 1]
    BY <1>2
  <2>2. /\ queue[m + 1][k].with = Config /\ Before(queue[m + 1], k)
        /\ \A n \in 1 .. (m + 1) - 1 : ~HasSetting(queue[n])
    BY <1>5, <2>1 DEF InOrder, QueueInOrder
  <2>3. /\ 1 \in 1 .. (m + 1) - 1
        /\ \A n \in 1 .. m - 1 : n + 1 \in 1 .. (m + 1) - 1 /\ n \in 1 .. Len(queue) - 1
    BY <1>2, <2>1
  <2> QED
    BY <1>1, <1>2, <2>1, <2>2, <2>3
<1>6. QueueInOrder'
  BY <1>5 DEF QueueInOrder
<1>7. NoneIn(queue) => NoneIn(queue') /\ ~HasSetting(current')
  <2>1. \A m \in DOMAIN queue' : m + 1 \in DOMAIN queue /\ queue'[m] = queue[m + 1]
    BY <1>2
  <2> QED
    BY <1>2, <1>3, <2>1 DEF NoneIn
<1>8. MessageInOrder' /\ OutputInOrder'
  BY <1>1, <1>7 DEF InOrder, MessageInOrder, OutputInOrder, receiverVars
<1> QED
  BY <1>4, <1>6, <1>8 DEF InOrder

\* A step of the only receiver, by what it makes of its message and its output.
LEMMA SendingInOrder ==
  ASSUME Base, InOrder, NEW r \in Receivers, \A q \in Receivers : q = r,
         UNCHANGED <<Config, current, queue>>,
         NEW s, NEW o,
         message' = [message EXCEPT ![r] = s], output' = [output EXCEPT ![r] = o],
         \A k \in DOMAIN s : InForce(s[k]) =>
           s[k].with = Config /\ Before(s, k) /\ ~HasSetting(current) /\ NoneIn(queue),
         o # NoOutput /\ o.settled =>
           o.with = Config /\ ~HasSetting(s) /\ ~HasSetting(current) /\ NoneIn(queue)
  PROVE  InOrder'
<1>1. \A q \in Receivers : message'[q] = s /\ output'[q] = o
  BY DEF Base, Sending
<1>2. RunningInOrder' /\ QueueInOrder'
  BY DEF InOrder, RunningInOrder, QueueInOrder
<1>3. MessageInOrder' /\ OutputInOrder'
  BY <1>1 DEF MessageInOrder, OutputInOrder
<1> QED
  BY <1>2, <1>3 DEF InOrder

LEMMA ReceiverInOrder ==
  ASSUME Base, InOrder, NEW r \in Receivers, \A q \in Receivers : q = r, Receiver(r)
  PROVE  InOrder'
<1> DEFINE s == message[r]
<1>0. /\ s \in Seq(Item) /\ output[r] \in {NoOutput} \cup Outputting /\ Config \in Version
      /\ message = [message EXCEPT ![r] = s] /\ output = [output EXCEPT ![r] = output[r]]
      /\ queue \in Seq(Seq(Item))
  BY DEF Base, TypeOK, Sending
<1>1. \A k \in DOMAIN s : InForce(s[k]) =>
        s[k].with = Config /\ Before(s, k) /\ ~HasSetting(current) /\ NoneIn(queue)
  BY DEF InOrder, MessageInOrder
<1>2. output[r] # NoOutput /\ output[r].settled =>
        output[r].with = Config /\ ~HasSetting(s) /\ ~HasSetting(current) /\ NoneIn(queue)
  BY DEF InOrder, OutputInOrder
<1>3. ASSUME NEW i \in Item,
             InForce(i) => i.with = Config /\ ~HasSetting(s) /\ ~HasSetting(current) /\ NoneIn(queue)
      PROVE  \A k \in DOMAIN Append(s, i) : InForce(Append(s, i)[k]) =>
               Append(s, i)[k].with = Config /\ Before(Append(s, i), k)
               /\ ~HasSetting(current) /\ NoneIn(queue)
  <2>1. \A k \in DOMAIN Append(s, i) : k \in DOMAIN s \/ k = Len(s) + 1
    BY <1>0, OneMoreItem
  <2> HIDE DEF s
  <2> QED
    BY <1>0, <1>1, <1>3, <2>1, OneMoreItem
<1>4. CASE Construct(r)
  <2>1. PICK i \in BitItem \cup WriteItem \cup SettingItem :
          message' = [message EXCEPT ![r] = Append(s, i)]
    BY <1>4 DEF Construct
  <2>2. i \in Item /\ ~InForce(i)
    <3>1. i \in WriteItem => i.kind = "write"
      <4> SUFFICES ASSUME i \in WriteItem PROVE i.kind = "write"
        OBVIOUS
      <4>1. PICK q \in Registers :
              i \in [kind : {"write"}, register : {q}, bits : {{}, Width[q]},
                     waits : IF BusOf(q) = {} THEN {FALSE} ELSE BOOLEAN]
        BY DEF WriteItem
      <4> QED
        BY <4>1
    <3>2. i.kind # "output"
      BY <2>1, <3>1 DEF BitItem, SettingItem
    <3> QED
      BY <2>1, <3>2 DEF Item, InForce
  <2>3. UNCHANGED <<Config, current, queue, output>> /\ output[r] = NoOutput
    BY <1>4 DEF Construct, MaySend, actionVars
  <2> QED
    BY <1>0, <1>3, <2>1, <2>2, <2>3, SendingInOrder
<1>5. CASE ConstructOutput(r)
  <2> DEFINE o == [at |-> "scale", with |-> Config, settled |-> Settled(r)]
  <2>1. UNCHANGED <<Config, current, queue, message>> /\ output' = [output EXCEPT ![r] = o]
    BY <1>5 DEF ConstructOutput, actionVars
  <2>2. o.settled => o.with = Config /\ ~HasSetting(s) /\ ~HasSetting(current) /\ NoneIn(queue)
    BY DEF Settled, NoneIn
  <2> HIDE DEF o
  <2> QED
    BY <1>0, <1>1, <2>1, <2>2, SendingInOrder
<1>6. CASE ReadSetting(r)
  <2> DEFINE p == output[r].at
             o == [output[r] EXCEPT !.with[p] = Config[p], !.at = After(p)]
  <2>1. /\ UNCHANGED <<Config, current, queue, message>>
        /\ output' = [output EXCEPT ![r] = o] /\ p \in {"scale", "offset"}
    BY <1>6 DEF ReadSetting, actionVars
  <2>2. output[r] \in Outputting /\ output[r] # NoOutput
    BY <1>0, <2>1 DEF NoOutput
  <2>3. o.settled = output[r].settled /\ o.with = [output[r].with EXCEPT ![p] = Config[p]]
    BY <2>2 DEF Outputting
  <2>4. output[r].with = Config => o.with = Config
    BY <1>0, <2>3 DEF Version
  <2>5. o.settled => o.with = Config /\ ~HasSetting(s) /\ ~HasSetting(current) /\ NoneIn(queue)
    BY <1>2, <2>2, <2>3, <2>4
  <2> HIDE DEF o
  <2> QED
    BY <1>0, <1>1, <2>1, <2>5, SendingInOrder
<1>7. CASE ReadRange(r)
  <2> DEFINE i == [kind |-> "output", with |-> [output[r].with EXCEPT !["range"] = Config["range"]],
                   settled |-> output[r].settled]
  <2>1. /\ UNCHANGED <<Config, current, queue>>
        /\ message' = [message EXCEPT ![r] = Append(s, i)]
        /\ output' = [output EXCEPT ![r] = NoOutput] /\ output[r].at = "range"
    BY <1>7 DEF ReadRange, actionVars
  <2>2. output[r] \in Outputting /\ output[r] # NoOutput
    BY <1>0, <2>1 DEF NoOutput
  <2>3. i \in Item
    <3>1. [output[r].with EXCEPT !["range"] = Config["range"]] \in Version
      BY <1>0, <2>2 DEF Outputting, Version, Parts
    <3> QED
      BY <2>2, <3>1 DEF Outputting, Item, OutputItem
  <2>4. output[r].with = Config => i.with = Config
    BY <1>0 DEF Version
  <2>5. InForce(i) => i.with = Config /\ ~HasSetting(s) /\ ~HasSetting(current) /\ NoneIn(queue)
    BY <1>2, <2>2, <2>4 DEF InForce
  <2> HIDE DEF i
  <2> QED
    BY <1>0, <1>3, <2>1, <2>3, <2>5, SendingInOrder
<1>8. CASE Enqueue(r)
  <2>1. /\ UNCHANGED <<Config, current, output>> /\ output[r] = NoOutput
        /\ message' = [message EXCEPT ![r] = <<>>] /\ queue' = Append(queue, s)
    BY <1>8 DEF Enqueue, actionVars
  <2>2. \A q \in Receivers : message'[q] = <<>> /\ output'[q] = NoOutput
    BY <2>1 DEF Base, Sending
  <2>3. RunningInOrder'
    BY <2>1 DEF InOrder, RunningInOrder
  <2>4. MessageInOrder' /\ OutputInOrder'
    BY <2>2, EmptySeq DEF MessageInOrder, OutputInOrder
  <2>5. /\ Len(queue) \in Nat /\ DOMAIN queue = 1 .. Len(queue)
        /\ DOMAIN queue' = 1 .. Len(queue) + 1 /\ queue'[Len(queue) + 1] = s
        /\ \A m \in 1 .. Len(queue) : queue'[m] = queue[m]
    BY <1>0, <2>1, AppendProperties, LenProperties
  <2> HIDE DEF s
  <2>6. ASSUME NEW m \in DOMAIN queue', NEW k \in DOMAIN queue'[m], InForce(queue'[m][k])
        PROVE  /\ queue'[m][k].with = Config /\ Before(queue'[m], k)
               /\ ~HasSetting(current) /\ \A n \in 1 .. m - 1 : ~HasSetting(queue'[n])
    <3>1. \A n \in 1 .. m - 1 : n \in 1 .. Len(queue)
      BY <2>5
    <3>2. CASE m \in 1 .. Len(queue)
      BY <2>5, <2>6, <3>1, <3>2 DEF InOrder, QueueInOrder
    <3>3. CASE m = Len(queue) + 1
      BY <1>1, <2>5, <2>6, <3>1, <3>3 DEF NoneIn
    <3> QED
      BY <2>5, <3>2, <3>3
  <2>7. QueueInOrder'
    BY <2>1, <2>6 DEF QueueInOrder
  <2> QED
    BY <2>3, <2>4, <2>7 DEF InOrder
<1> QED
  BY <1>4, <1>5, <1>6, <1>7, <1>8 DEF Receiver

\* One client is connected.
SingleClient == \A q, r \in Receivers : q = r

LEMMA OrderInit == Init => InOrder
<1>1. DOMAIN <<>> = {}
  BY EmptySeq
<1>2. Init => \A r \in Receivers : message[r] = <<>> /\ output[r] = NoOutput
  BY DEF Init
<1> QED
  BY <1>1, <1>2 DEF Init, InOrder, RunningInOrder, QueueInOrder, MessageInOrder, OutputInOrder

LEMMA OrderStep == SingleClient /\ Base /\ InOrder /\ [Next]_vars => InOrder'
<1> SUFFICES ASSUME SingleClient, Base, InOrder, [Next]_vars PROVE InOrder'
  OBVIOUS
<1>1. CASE \E r \in Receivers : Receiver(r)
  BY <1>1, ReceiverInOrder DEF SingleClient
<1>2. CASE WorkerCloses \/ (\E b \in Bus : SpiDone(b)) \/ UNCHANGED vars
  <2>1. UNCHANGED <<Config, receiverVars, queue, current>>
    BY <1>2 DEF WorkerCloses, SpiDone, vars, actionVars, receiverVars
  <2> QED
    BY <2>1 DEF InOrder, RunningInOrder, QueueInOrder, MessageInOrder, OutputInOrder, receiverVars
<1> QED
  BY <1>1, <1>2, GoInOrder, DequeueInOrder DEF Next

\* A DAC output that its only client constructed with no setting of the DAC under way is
\* written with the settings in force: the queue keeps the order in which messages were
\* sent, and a setting that was sent later is run later.
THEOREM SettledCurrent == SingleClient => (Spec => []SettledOutputsCurrent)
<1> SUFFICES ASSUME SingleClient PROVE Spec => []SettledOutputsCurrent
  OBVIOUS
<1>1. Init => Base /\ InOrder
  BY BaseInit, OrderInit
<1>2. Base /\ InOrder /\ [Next]_vars => (Base /\ InOrder)'
  BY BaseStep, OrderStep
<1>3. Base /\ InOrder => SettledOutputsCurrent
  <2> SUFFICES ASSUME Base, InOrder, apc = "put", Running.kind = "output", Running.settled
              PROVE  Running.with = Config
    BY DEF SettledOutputsCurrent
  <2>1. Running = current[1] /\ 1 \in DOMAIN current
    BY RunningItem DEF Base, TypeOK
  <2> QED
    BY <2>1 DEF InOrder, RunningInOrder, InForce
<1> QED
  BY <1>1, <1>2, <1>3, PTL DEF Spec

===============================================================================
