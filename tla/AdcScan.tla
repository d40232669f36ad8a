-------------------------------- MODULE AdcScan --------------------------------
(***************************************************************************)
(* One scan of the ADC's channels on request: the data items ADC_RawAll,   *)
(* ADC_CountsAll and ADC_VoltsAll.  Go() runs on the ActionThread: it reads*)
(* the channel range from the card, has one conversion made and thrown     *)
(* away, empties the FIFO, starts a scan, collects as many samples as it   *)
(* expects and answers with one value for each channel, or with nothing    *)
(* after a timeout.                                                        *)
(*                                                                         *)
(* A sample is tagged with its channel, and with the number of the scan    *)
(* whose Go() started the conversion; "volts", "counts" and "raw" are three*)
(* ways of writing a value down.  The code clears the oversample register  *)
(* before it reads it, so that each channel is sampled once: the averaging *)
(* branches of AccumulateByChannel and FinalizeAvgCounts are never taken.  *)
(*                                                                         *)
(* External: the card.  It works conversions off at its own pace, a start  *)
(* may or may not drop those still under way, and the first one after a    *)
(* reset delivers an invalid sample.                                       *)
(***************************************************************************)
EXTENDS Integers, Sequences, FiniteSets

CONSTANTS
  LastChannel,  \* the card's channels are 0 .. LastChannel
  MaxScans,     \* bound: number of scan items that clients send
  Missing       \* a channel without a sample: INV set, not a number, or 0 counts

ASSUME LastChannelAssumption == LastChannel \in Nat
ASSUME MaxScansAssumption == MaxScans \in Nat

VARIABLES
  startCh, endCh,   \* registers: the channel range
  oversamples,      \* register
  trigger,          \* register ofsAdcTriggerOptions: convert one channel or a scan?
  converting,       \* card: the samples that conversions under way will deliver
  fifo,             \* card: the samples delivered
  fresh,            \* card: nothing was converted since the last reset
  pc,               \* where Go() stands
  scan,             \* number of the scan item handled last
  cfg,              \* its TAdcScanCfg
  raw,              \* the samples collected
  reply,            \* the values it answered with
  ending,          \* has an ADC worker been cancelled and not yet ended?
  disturbed         \* history: what has come between in this scan

card == <<converting, fifo, fresh>>
scanVars == <<startCh, endCh, oversamples, trigger, card, pc, scan, cfg, raw, reply,
              ending, disturbed>>

Channel == 0 .. LastChannel
Sample  == [ch : Channel, scan : 1 .. MaxScans, inv : BOOLEAN]

ASSUME MissingAssumption == Missing \notin Sample

NoCfg == [start |-> 0, nChannels |-> 0, expected |-> 0]

\* The type invariant; never more samples are collected than expected.
ScanTypeOK ==
  /\ startCh \in Channel /\ endCh \in Channel
  /\ oversamples \in {0, 1}
  /\ trigger \in {"channel", "scan"}
  /\ converting \in Seq(Sample) /\ fifo \in Seq(Sample)
  /\ fresh \in BOOLEAN
  /\ pc \in {"idle", "read", "single", "discard", "mode", "drain", "start", "collect"}
  /\ scan \in 0 .. MaxScans
  /\ cfg \in [start : Channel, nChannels : 0 .. LastChannel + 1, expected : 0 .. LastChannel + 1]
  /\ raw \in Seq(Sample) /\ Len(raw) <= cfg.expected
  /\ reply \in Seq(Sample \cup {Missing})
  /\ ending \in BOOLEAN
  /\ disturbed \subseteq {"late", "closed"}

ScanInit ==
  /\ startCh \in Channel /\ endCh \in Channel
  /\ oversamples = 0 /\ trigger = "channel"
  /\ converting = <<>> /\ fifo = <<>> /\ fresh = TRUE
  /\ pc = "idle" /\ scan = 0 /\ cfg = NoCfg /\ raw = <<>> /\ reply = <<>>
  /\ ending \in BOOLEAN
  /\ disturbed = {}

-----------------------------------------------------------------------------
(* The card and the other data items.                                      *)

\* A start converts one channel or the range, each channel oversamples + 1 times;
\* what was under way before it is finished first, or dropped.
ScanRange ==
  [k \in 1 .. IF endCh >= startCh THEN endCh - startCh + 1 ELSE 0 |-> startCh + k - 1]

Start ==
  LET once  == IF trigger = "scan" THEN ScanRange ELSE <<startCh>>
      begun == [k \in 1 .. Len(once) * (oversamples + 1) |->
                  [ch |-> once[(k - 1) \div (oversamples + 1) + 1], scan |-> scan, inv |-> FALSE]]
  IN  converting' \in {converting \o begun, begun}

\* A conversion ends.
Deliver ==
  /\ converting # <<>>
  /\ fifo' = Append(fifo, [Head(converting) EXCEPT !.inv = fresh])
  /\ converting' = Tail(converting)
  /\ fresh' = FALSE
  /\ UNCHANGED <<startCh, endCh, oversamples, trigger, pc, scan, cfg, raw, reply, ending,
                 disturbed>>

\* REG_Write1 to the start, stop and oversample registers, between two scans.
Configure ==
  /\ pc = "idle" /\ scan < MaxScans
  /\ startCh' \in Channel /\ endCh' \in Channel /\ oversamples' \in {0, 1}
  /\ UNCHANGED <<trigger, card, pc, scan, cfg, raw, reply, ending, disturbed>>

\* The ADC worker of a stream that was stopped writes 0 to the trigger options when
\* it ends (adc.cpp), which may be while a scan that was sent after ADC_StreamStop
\* is under way: the rest of that scan may not be converted.
WorkerEnds ==
  /\ ending
  /\ ending' = FALSE
  /\ trigger' = "channel"
  /\ converting' \in {converting, <<>>}
  /\ disturbed' = disturbed \cup {"closed"}
  /\ UNCHANGED <<startCh, endCh, oversamples, fifo, fresh, pc, scan, cfg, raw, reply>>

-----------------------------------------------------------------------------
(* Go(), on the ActionThread.                                              *)

Answer(values) == pc' = "idle" /\ reply' = values

\* out(ofsAdcOversamples, 0)
Begin ==
  /\ pc = "idle" /\ scan < MaxScans
  /\ pc' = "read"
  /\ scan' = scan + 1
  /\ oversamples' = 0
  /\ raw' = <<>> /\ cfg' = NoCfg /\ reply' = <<>> /\ disturbed' = {}
  /\ UNCHANGED <<startCh, endCh, trigger, card, ending>>

\* ADC_ReadScanCfg; an empty range is an error.
ReadScanCfg ==
  /\ pc = "read"
  /\ LET n == Len(ScanRange) IN
     /\ cfg' = [start |-> startCh, nChannels |-> n, expected |-> n * (oversamples + 1)]
     /\ IF n = 0 THEN Answer(<<>>) ELSE pc' = "single" /\ UNCHANGED reply
  /\ UNCHANGED <<startCh, endCh, oversamples, trigger, card, scan, raw, ending, disturbed>>

\* ADC_SetScanStartMode: one channel, a conversion to be thrown away, and then scans.
SetSingle ==
  /\ pc = "single"
  /\ pc' = "discard"
  /\ trigger' = "channel"
  /\ UNCHANGED <<startCh, endCh, oversamples, card, scan, cfg, raw, reply, ending, disturbed>>

\* FAULT (StartDiscarded): no conversion is thrown away.
StartDiscardedForgotten ==
  /\ pc = "discard"
  /\ pc' = "mode"
  /\ UNCHANGED <<startCh, endCh, oversamples, trigger, card, scan, cfg, raw, reply, ending,
                 disturbed>>

StartDiscarded ==
  /\ pc = "discard"
  /\ pc' = "mode"
  /\ Start
  /\ UNCHANGED <<startCh, endCh, oversamples, trigger, fifo, fresh, scan, cfg, raw, reply,
                 ending, disturbed>>

\* Its result is that of the last write; a failure ends the scan.
SetScan ==
  /\ pc = "mode"
  /\ \/ pc' = "drain" /\ trigger' = "scan" /\ UNCHANGED reply
     \/ Answer(<<>>) /\ UNCHANGED trigger
  /\ UNCHANGED <<startCh, endCh, oversamples, card, scan, cfg, raw, ending, disturbed>>

\* ADC_DrainFIFO
Drain ==
  /\ pc = "drain" /\ fifo # <<>>
  /\ fifo' = Tail(fifo)
  /\ UNCHANGED <<startCh, endCh, oversamples, trigger, converting, fresh, pc, scan, cfg, raw,
                 reply, ending, disturbed>>

\* FAULT (DrainEnd): the FIFO is not emptied.
DrainEndAtOnce ==
  /\ pc = "drain"
  /\ pc' = "start"
  /\ disturbed' = IF converting = <<>> THEN disturbed ELSE disturbed \cup {"late"}
  /\ UNCHANGED <<startCh, endCh, oversamples, trigger, card, scan, cfg, raw, reply, ending>>

\* The FIFO is empty; what is still being converted comes too late to be drained.
DrainEnd ==
  /\ pc = "drain" /\ fifo = <<>>
  /\ pc' = "start"
  /\ disturbed' = IF converting = <<>> THEN disturbed ELSE disturbed \cup {"late"}
  /\ UNCHANGED <<startCh, endCh, oversamples, trigger, card, scan, cfg, raw, reply, ending>>

\* ADC_StartSoftwareADC
StartScan ==
  /\ pc = "start"
  /\ pc' = "collect"
  /\ Start
  /\ UNCHANGED <<startCh, endCh, oversamples, trigger, fifo, fresh, scan, cfg, raw, reply,
                 ending, disturbed>>

\* ADC_DrainAdcFifoRaw: invalid samples are skipped.
Collect ==
  /\ pc = "collect" /\ Len(raw) < cfg.expected /\ fifo # <<>>
  /\ raw' = IF Head(fifo).inv THEN raw ELSE Append(raw, Head(fifo))
  /\ fifo' = Tail(fifo)
  /\ UNCHANGED <<startCh, endCh, oversamples, trigger, converting, fresh, pc, scan, cfg, reply,
                 ending, disturbed>>

\* FAULT (Timeout): there is none.
TimeoutNever ==
  /\ pc = "collect" /\ Len(raw) < cfg.expected /\ fifo = <<>>
  /\ UNCHANGED scanVars

\* Nothing has come for 2 + expected milliseconds: the answer is empty.
Timeout ==
  /\ pc = "collect" /\ Len(raw) < cfg.expected /\ fifo = <<>>
  /\ Answer(<<>>)
  /\ UNCHANGED <<startCh, endCh, oversamples, trigger, card, scan, cfg, raw, ending, disturbed>>

\* FAULT (Reduce): samples are told apart by their position.
ReduceByPosition == raw

\* Sample j is the first one of channel c.
IsFirst(j, c) == raw[j].ch = c /\ \A i \in 1 .. j - 1 : raw[i].ch # c

\* AccumulateByChannel, FinalizeAvgCounts: of each channel's samples the first.
Reduce ==
  [k \in 1 .. cfg.nChannels |->
     LET first == {j \in DOMAIN raw : IsFirst(j, cfg.start + k - 1)}
     IN  IF first = {} THEN Missing ELSE raw[CHOOSE j \in first : TRUE]]

Finish ==
  /\ pc = "collect" /\ Len(raw) = cfg.expected
  /\ Answer(Reduce)
  /\ UNCHANGED <<startCh, endCh, oversamples, trigger, card, scan, cfg, raw, ending, disturbed>>

GoScan ==
  \/ ReadScanCfg \/ SetSingle \/ StartDiscarded \/ SetScan \/ Drain \/ DrainEnd
  \/ StartScan \/ Collect \/ Timeout \/ Finish

ScanNext == Begin \/ GoScan \/ Deliver \/ Configure \/ WorkerEnds

ScanSpec == ScanInit /\ [][ScanNext]_scanVars

\* The ActionThread runs; the card owes nothing, and clients need not send a scan.
FairScanSpec == ScanSpec /\ WF_scanVars(GoScan)

-----------------------------------------------------------------------------
Answered == pc = "idle" /\ reply # <<>>

\* An answer has a value for each channel of the range, and each is that channel's
\* own: samples that come late or out of order are never taken for another channel's.
ValuesMatchChannels ==
  Answered =>
    /\ Len(reply) = cfg.nChannels
    /\ \A k \in DOMAIN reply : reply[k] # Missing => reply[k].ch = cfg.start + k - 1

\* If the card was through with earlier conversions when the FIFO was found empty,
\* an answer holds a valid sample of this very scan for every channel, whatever
\* earlier scans timed out and left behind.
ScanIsCurrent ==
  Answered /\ "late" \notin disturbed =>
    \A k \in DOMAIN reply : reply[k] # Missing /\ reply[k].scan = scan /\ ~reply[k].inv

\* Go() waits only for samples that the card still owes: an undisturbed scan does
\* not time out for having dropped one, or for expecting one too many.
AwaitsOwedSamples ==
  pc = "collect" /\ disturbed = {} =>
    LET valid == {k \in DOMAIN fifo : ~fifo[k].inv}
        owed  == Cardinality(valid) + Len(converting) - (IF fresh THEN 1 ELSE 0)
    IN  Len(raw) + owed >= cfg.expected

\* Every scan comes to an end, for the ActionThread serves all clients.
ScanEnds == pc # "idle" ~> pc = "idle"

-----------------------------------------------------------------------------
\* drain any stale FIFO data before starting this scan (DataItems/ADC_.cpp:830): no
\* answer holds a sample of an earlier scan, or lacks a channel.
NoStaleSamples ==
  Answered => \A k \in DOMAIN reply : reply[k] # Missing /\ reply[k].scan = scan

\* Caller must have already configured [...] oversamples (DataItems/ADC_.h:230): a
\* scan leaves the register as it was configured.
OversamplesKept == [][pc' # "idle" => oversamples' = oversamples]_scanVars

=============================================================================
