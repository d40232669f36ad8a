---------------------------- MODULE AdcStreamProofs ----------------------------
(***************************************************************************)
(* Proofs about AdcStream, for any number of receivers, connections, slots *)
(* and blocks, and any length of the action queue: what the claim is worth,*)
(* and that the streams use the pipeline as AdcPipeline assumes.  Before   *)
(* it, the proofs about AdcPipeline alone, which the others build on.      *)
(***************************************************************************)
EXTENDS AdcStream, SequenceTheorems, TLAPS

-----------------------------------------------------------------------------
(* The pipeline alone, for any number of ring slots and of blocks.         *)

Copying == wpc \in {"copy", "lock", "post", "dmadone"}

\* The worker may have started a logger and has not joined it.
Working == wpc \in {"loop", "callwait", "wait", "copy", "lock", "post", "dmadone",
                    "exit", "terminate", "wake", "join"}

\* The driver is never ahead of the hardware, nor more than a buffer behind it.
DriverOK == finished <= produced /\ produced - finished <= Slots

\* The rest of the batch that apci_dma_data_ready announced is still in the DMA
\* buffer, and its next block is the oldest one there.
BatchOK == Copying => i < num /\ num - i <= produced - finished /\ Wrap(first + i) = dslot

\* A logger exists only while its worker knows of it.
ThreadsOK ==
  /\ Working => (started <=> lpc # "none")
  /\ ~Working => lpc = "none"
  /\ wpc = "spawn" => ~started

\* Between pthread_create and the first block the buffer stays as it was resized.
StartOK == wpc \in {"start", "map", "spawn"} => Resized

\* The slot that the worker fills next lies as many slots after the one that the
\* logger reads next as there are blocks between them.
RingPosition ==
  InSession /\ ~interrupted /\ consumed <= Copied =>
    Wrap(NextRead + Copied - consumed) =
      (IF wpc \in {"post", "dmadone"} THEN Wrap(dslot + 1) ELSE dslot)

ControlInv == TypeOK /\ DriverOK /\ BatchOK /\ ThreadsOK /\ StartOK
IInv == ControlInv /\ TokenAccounting /\ RingPosition /\ UnsentBlocksIntact

-----------------------------------------------------------------------------
\* The ring has a slot 0.
LEMMA SlotZero == Slots \in Nat /\ Slots >= 1 /\ 0 \in Slot
BY SlotsAssumption DEF Slot

\* No thread and no block at the start.
LEMMA ControlInit == Init => ControlInv
<1> SUFFICES ASSUME Init PROVE ControlInv
  OBVIOUS
<1> USE SlotZero DEF Init
<1>1. TypeOK
  <2>1. ring \in [Slot -> Nat]
    OBVIOUS
  <2>2. wpc \in WorkerPC /\ lpc \in LoggerPC
    BY DEF WorkerPC, LoggerPC
  <2>3. /\ first \in Slot /\ num \in 0 .. Slots /\ i \in 0 .. Slots
        /\ rd \in Slot /\ dslot \in Slot
    OBVIOUS
  <2>4. loggerId \in {-1, 0} /\ empty \in Nat /\ full \in Nat
        /\ produced \in Nat /\ finished \in Nat /\ consumed \in Nat
    OBVIOUS
  <2>5. /\ done \in BOOLEAN /\ started \in BOOLEAN /\ loggerTerm \in BOOLEAN
        /\ dmaOn \in BOOLEAN /\ cancelled \in BOOLEAN /\ interrupted \in BOOLEAN
    OBVIOUS
  <2> HIDE DEF Init
  <2> QED
    BY <2>1, <2>2, <2>3, <2>4, <2>5 DEF TypeOK
<1>2. DriverOK /\ BatchOK
  BY DEF DriverOK, BatchOK, Copying
<1>3. ThreadsOK /\ StartOK
  BY DEF ThreadsOK, StartOK, Working
<1> QED
  BY <1>1, <1>2, <1>3 DEF ControlInv

\* The control part of the invariant needs nothing about tokens: it is what the
\* order of the statements in worker_main gives.
LEMMA ControlStep == ControlInv /\ [Next]_vars => ControlInv'
<1> SUFFICES ASSUME ControlInv, [Next]_vars PROVE ControlInv'
  OBVIOUS
<1> USE SlotZero DEF ControlInv, TypeOK, DriverOK, BatchOK,
                                      ThreadsOK, StartOK, Copying, Working, Resized,
                                      Slot, Wrap, WorkerPC, LoggerPC, driver,
                                      worker, logger, sems
<1>1. CASE WorkerBegin
  BY <1>1 DEF WorkerBegin
<1>2. CASE WorkerMap
  BY <1>2 DEF WorkerMap
<1>3. CASE WorkerSpawn
  <2>1. TypeOK'
    BY <1>3 DEF WorkerSpawn
  <2>2. DriverOK'
    BY <1>3 DEF WorkerSpawn
  <2>3. BatchOK'
    BY <1>3 DEF WorkerSpawn
  <2>4. ThreadsOK'
    BY <1>3 DEF WorkerSpawn
  <2>5. StartOK'
    BY <1>3 DEF WorkerSpawn
  <2> QED
    BY <2>1, <2>2, <2>3, <2>4, <2>5
<1>4. CASE WorkerLoop
  BY <1>4, SMTT(30) DEF WorkerLoop
<1>5. CASE WorkerCallWait
  BY <1>5 DEF WorkerCallWait
<1>6. CASE WorkerIrq
  BY <1>6 DEF WorkerIrq
<1>7. CASE WorkerCancelled
  BY <1>7 DEF WorkerCancelled
<1>8. CASE WorkerTakeEmpty
  BY <1>8 DEF WorkerTakeEmpty
<1>9. CASE WorkerFill
  BY <1>9 DEF WorkerFill, DmaBlock
<1>10. CASE WorkerPostFull
  BY <1>10 DEF WorkerPostFull
<1>11. CASE WorkerDmaDone
  <2>1. TypeOK'
    BY <1>11 DEF WorkerDmaDone
  <2>2. DriverOK'
    BY <1>11 DEF WorkerDmaDone
  <2>3. BatchOK'
    <3>1. i < num /\ num - i <= produced - finished /\ Wrap(first + i) = dslot
      BY <1>11 DEF WorkerDmaDone
    <3>2. dslot' = Wrap(dslot + 1) /\ finished' = finished + 1 /\ i' = i + 1
      BY <1>11, <3>1 DEF WorkerDmaDone
    <3>3. CASE i' = num
      BY <1>11, <3>3 DEF WorkerDmaDone
    <3>4. CASE i' # num
      <4>1. Wrap(first + i + 1) = Wrap(dslot + 1)
        BY <3>1
      <4> QED
        BY <1>11, <3>1, <3>2, <3>4, <4>1 DEF WorkerDmaDone
    <3> QED
      BY <3>3, <3>4
  <2>4. ThreadsOK'
    BY <1>11 DEF WorkerDmaDone
  <2>5. StartOK'
    BY <1>11 DEF WorkerDmaDone
  <2> QED
    BY <2>1, <2>2, <2>3, <2>4, <2>5
<1>12. CASE WorkerExit
  <2>1. TypeOK'
    BY <1>12 DEF WorkerExit
  <2>2. DriverOK' /\ BatchOK'
    BY <1>12 DEF WorkerExit
  <2>3. ThreadsOK' /\ StartOK'
    BY <1>12 DEF WorkerExit
  <2> QED
    BY <2>1, <2>2, <2>3
<1>13. CASE WorkerTerminateLogger
  BY <1>13 DEF WorkerTerminateLogger
<1>14. CASE WorkerWakeLogger
  BY <1>14 DEF WorkerWakeLogger
<1>15. CASE WorkerJoin
  BY <1>15 DEF WorkerJoin
<1>16. CASE WorkerRelease
  BY <1>16 DEF WorkerRelease
<1>17. CASE WorkerEnd
  BY <1>17 DEF WorkerEnd
<1>18. CASE LoggerBegin
  <2>1. TypeOK'
    BY <1>18 DEF LoggerBegin
  <2>2. DriverOK'
    BY <1>18 DEF LoggerBegin
  <2>3. BatchOK'
    BY <1>18 DEF LoggerBegin
  <2>4. ThreadsOK'
    BY <1>18 DEF LoggerBegin
  <2>5. StartOK'
    BY <1>18 DEF LoggerBegin
  <2> QED
    BY <2>1, <2>2, <2>3, <2>4, <2>5
<1>19. CASE LoggerTest
  BY <1>19 DEF LoggerTest
<1>20. CASE LoggerTimeout
  BY <1>20 DEF LoggerTimeout
<1>21. CASE LoggerTakeFull
  BY <1>21 DEF LoggerTakeFull
<1>22. CASE LoggerLock
  BY <1>22 DEF LoggerLock
<1>23. CASE LoggerSent
  BY <1>23 DEF LoggerSent
<1>24. CASE LoggerGiveEmpty
  BY <1>24 DEF LoggerGiveEmpty
<1>25. CASE LoggerEpipe
  BY <1>25 DEF LoggerEpipe
<1>26. CASE LoggerCancelIrq
  BY <1>26 DEF LoggerCancelIrq, CancelIrq
<1>27. CASE LoggerGiveUp
  BY <1>27 DEF LoggerGiveUp
<1>28. CASE Produce
  BY <1>28 DEF Produce
<1>29. CASE Idle /\ Resize
  BY <1>29 DEF Idle, Resize
<1>30. CASE wpc = "none" /\ Resized /\ StartWorker
  BY <1>30 DEF StartWorker
<1>31. CASE DmaStart
  BY <1>31 DEF DmaStart
<1>32. CASE Cancel
  BY <1>32 DEF Cancel, CancelIrq
<1>33. CASE Signal
  <2>1. TypeOK'
    <3>1. /\ wpc' \in WorkerPC /\ lpc' \in LoggerPC
          /\ done' \in BOOLEAN /\ loggerTerm' \in BOOLEAN /\ interrupted' \in BOOLEAN
      BY <1>33 DEF Signal
    <3> QED
      BY <1>33, <3>1 DEF Signal
  <2>2. DriverOK'
    BY <1>33 DEF Signal
  <2>3. BatchOK'
    BY <1>33 DEF Signal
  <2>4. ThreadsOK'
    BY <1>33 DEF Signal
  <2>5. StartOK'
    BY <1>33 DEF Signal
  <2> QED
    BY <2>1, <2>2, <2>3, <2>4, <2>5
<1>34. CASE UNCHANGED vars
  BY <1>34 DEF vars
<1> HIDE DEF ControlInv, TypeOK, DriverOK, BatchOK, ThreadsOK, StartOK, Copying, Working,
             Resized, Slot, Wrap
<1> QED
  BY <1>1, <1>2, <1>3, <1>4, <1>5, <1>6, <1>7, <1>8, <1>9, <1>10,
     <1>11, <1>12, <1>13, <1>14, <1>15, <1>16, <1>17, <1>18, <1>19, <1>20,
     <1>21, <1>22, <1>23, <1>24, <1>25, <1>26, <1>27, <1>28, <1>29, <1>30,
     <1>31, <1>32, <1>33, <1>34
     DEF Next, Worker, Logger, Environment

\* A step that moves a token moves the block, or the claim on a slot, that it stands
\* for.
LEMMA TokenStep == ControlInv /\ TokenAccounting /\ [Next]_vars => TokenAccounting'
<1> SUFFICES ASSUME ControlInv, TokenAccounting, [Next]_vars PROVE TokenAccounting'
  OBVIOUS
<1> USE SlotZero DEF ControlInv, TypeOK, DriverOK, BatchOK, ThreadsOK, StartOK,
                     Copying, Working, Resized, TokenAccounting, InSession,
                     LoggerHolds, Bit, Copied, driver, worker, logger, sems
<1>1. CASE \/ WorkerMap \/ WorkerSpawn \/ WorkerLoop \/ WorkerCallWait
           \/ WorkerIrq \/ WorkerCancelled \/ WorkerExit \/ WorkerTerminateLogger
           \/ WorkerEnd \/ LoggerBegin \/ LoggerTest \/ LoggerTimeout
           \/ LoggerLock \/ LoggerSent \/ LoggerEpipe \/ LoggerCancelIrq
           \/ LoggerGiveUp \/ Produce \/ DmaStart \/ Cancel
  BY <1>1 DEF WorkerMap, WorkerSpawn, WorkerLoop, WorkerCallWait, WorkerIrq,
              WorkerCancelled, WorkerExit, WorkerTerminateLogger, WorkerEnd,
              LoggerBegin, LoggerTest, LoggerTimeout, LoggerLock, LoggerSent,
              LoggerEpipe, LoggerCancelIrq, LoggerGiveUp, Produce, DmaStart,
              Cancel, CancelIrq
<1>2. CASE WorkerBegin
  BY <1>2 DEF WorkerBegin
<1>3. CASE WorkerTakeEmpty
  BY <1>3 DEF WorkerTakeEmpty
<1>4. CASE WorkerFill
  BY <1>4 DEF WorkerFill
<1>5. CASE WorkerPostFull
  BY <1>5 DEF WorkerPostFull
<1>6. CASE WorkerDmaDone
  BY <1>6 DEF WorkerDmaDone
<1>7. CASE WorkerWakeLogger
  BY <1>7 DEF WorkerWakeLogger
<1>8. CASE WorkerJoin
  BY <1>8 DEF WorkerJoin
<1>9. CASE WorkerRelease
  BY <1>9 DEF WorkerRelease
<1>10. CASE LoggerTakeFull
  BY <1>10 DEF LoggerTakeFull
<1>11. CASE LoggerGiveEmpty
  BY <1>11 DEF LoggerGiveEmpty
<1>12. CASE Idle /\ Resize
  BY <1>12 DEF Idle, Resize
<1>13. CASE wpc = "none" /\ Resized /\ StartWorker
  BY <1>13 DEF StartWorker
<1>14. CASE Signal
  BY <1>14 DEF Signal
<1>15. CASE UNCHANGED vars
  BY <1>15 DEF vars
<1> QED
  BY <1>1, <1>2, <1>3, <1>4, <1>5, <1>6, <1>7, <1>8, <1>9, <1>10, <1>11, <1>12,
     <1>13, <1>14, <1>15
     DEF Next, Worker, Logger, Environment

\* Reader and writer go round the ring together: one step forward of either is one
\* block more, or less, between them.
LEMMA PositionStep ==
  ControlInv /\ TokenAccounting /\ RingPosition /\ [Next]_vars => RingPosition'
<1> SUFFICES ASSUME ControlInv, TokenAccounting, RingPosition, [Next]_vars
             PROVE  RingPosition'
  OBVIOUS
<1> USE SlotZero DEF ControlInv, TypeOK, DriverOK, BatchOK, ThreadsOK, StartOK,
                     Copying, Working, Resized, TokenAccounting, RingPosition,
                     NextRead, InSession, LoggerHolds, Bit, Copied, Slot, Wrap,
                     driver, worker, logger, sems
<1>1. CASE \/ WorkerMap \/ WorkerLoop \/ WorkerCallWait \/ WorkerIrq
           \/ WorkerCancelled \/ WorkerTakeEmpty \/ WorkerPostFull \/ WorkerExit
           \/ WorkerTerminateLogger \/ WorkerWakeLogger \/ WorkerEnd \/ LoggerTest
           \/ LoggerTimeout \/ LoggerTakeFull \/ LoggerLock \/ LoggerSent
           \/ LoggerEpipe \/ LoggerCancelIrq \/ LoggerGiveUp \/ Produce
           \/ DmaStart \/ Cancel
  <2>1. /\ InSession' => InSession
        /\ UNCHANGED <<interrupted, NextRead, consumed, dslot, Copied>>
        /\ wpc' \in {"post", "dmadone"} <=> wpc \in {"post", "dmadone"}
    BY <1>1 DEF WorkerMap, WorkerLoop, WorkerCallWait, WorkerIrq, WorkerCancelled,
                WorkerTakeEmpty, WorkerPostFull, WorkerExit,
                WorkerTerminateLogger, WorkerWakeLogger, WorkerEnd, LoggerTest,
                LoggerTimeout, LoggerTakeFull, LoggerLock, LoggerSent,
                LoggerEpipe, LoggerCancelIrq, LoggerGiveUp, Produce, DmaStart,
                Cancel, CancelIrq
  <2> HIDE DEF NextRead, Copied, InSession, ControlInv, TypeOK, Wrap, TokenAccounting
  <2> QED
    BY <2>1
<1>2. CASE WorkerBegin
  BY <1>2 DEF WorkerBegin
<1>3. CASE WorkerSpawn
  BY <1>3 DEF WorkerSpawn
<1>4. CASE WorkerFill
  BY <1>4 DEF WorkerFill
<1>5. CASE WorkerDmaDone
  BY <1>5, SMTT(30) DEF WorkerDmaDone
<1>6. CASE WorkerJoin
  BY <1>6 DEF WorkerJoin
<1>7. CASE WorkerRelease
  BY <1>7 DEF WorkerRelease
<1>8. CASE LoggerBegin
  BY <1>8 DEF LoggerBegin
<1>9. CASE LoggerGiveEmpty
  BY <1>9 DEF LoggerGiveEmpty
<1>10. CASE Idle /\ Resize
  BY <1>10 DEF Idle, Resize
<1>11. CASE wpc = "none" /\ Resized /\ StartWorker
  BY <1>11 DEF StartWorker
<1>12. CASE Signal
  BY <1>12 DEF Signal
<1>13. CASE UNCHANGED vars
  BY <1>13 DEF vars
<1> QED
  BY <1>1, <1>2, <1>3, <1>4, <1>5, <1>6, <1>7, <1>8, <1>9, <1>10, <1>11, <1>12,
     <1>13
     DEF Next, Worker, Logger, Environment

\* The only write into the ring is WorkerFill's: it goes to the slot after the last
\* unsent block, and the token taken from `empty' says that this slot is free.
LEMMA IntactStep == IInv /\ [Next]_vars => UnsentBlocksIntact'
<1> SUFFICES ASSUME IInv, [Next]_vars PROVE UnsentBlocksIntact'
  OBVIOUS
<1> USE SlotZero DEF IInv, ControlInv, TypeOK, DriverOK, BatchOK, ThreadsOK,
                     StartOK, Copying, Working, Resized, TokenAccounting,
                     RingPosition, UnsentBlocksIntact, NextRead, InSession,
                     LoggerHolds, Bit, Copied, Slot, Wrap, driver, worker, logger,
                     sems
<1>1. CASE \/ WorkerMap \/ WorkerLoop \/ WorkerCallWait \/ WorkerIrq
           \/ WorkerCancelled \/ WorkerTakeEmpty \/ WorkerPostFull \/ WorkerExit
           \/ WorkerTerminateLogger \/ WorkerWakeLogger \/ WorkerEnd \/ LoggerTest
           \/ LoggerTimeout \/ LoggerTakeFull \/ LoggerLock \/ LoggerSent
           \/ LoggerEpipe \/ LoggerCancelIrq \/ LoggerGiveUp \/ Produce
           \/ DmaStart \/ Cancel
  <2>1. /\ InSession' => InSession
        /\ UNCHANGED <<interrupted, NextRead, consumed, ring, Copied>>
    BY <1>1 DEF WorkerMap, WorkerLoop, WorkerCallWait, WorkerIrq, WorkerCancelled,
                WorkerTakeEmpty, WorkerPostFull, WorkerExit,
                WorkerTerminateLogger, WorkerWakeLogger, WorkerEnd, LoggerTest,
                LoggerTimeout, LoggerTakeFull, LoggerLock, LoggerSent,
                LoggerEpipe, LoggerCancelIrq, LoggerGiveUp, Produce, DmaStart,
                Cancel, CancelIrq
  <2> HIDE DEF NextRead, Copied, InSession, ControlInv, TypeOK, Wrap, TokenAccounting
  <2> QED
    BY <2>1
<1>2. CASE WorkerBegin
  BY <1>2 DEF WorkerBegin
<1>3. CASE WorkerSpawn
  BY <1>3 DEF WorkerSpawn
<1>4. CASE WorkerFill
  <2> SUFFICES ASSUME InSession, ~interrupted, NEW k \in consumed + 1 .. Copied'
               PROVE  ring'[Wrap(NextRead + k - consumed - 1)] = k
    BY <1>4 DEF WorkerFill
  <2>1. Copied = finished /\ Copied' = finished + 1
    BY <1>4 DEF WorkerFill
  <2>2. Copied - consumed < Slots /\ consumed <= Copied
    BY <1>4 DEF WorkerFill
  <2>3. ring' = [ring EXCEPT ![dslot] = finished + 1]
    <3>1. Wrap(first + i) = dslot /\ DmaBlock(dslot) = finished + 1
      BY <1>4 DEF WorkerFill, DmaBlock
    <3> QED
      BY <1>4, <3>1 DEF WorkerFill
  <2>4. NextRead \in Slot /\ Wrap(NextRead + Copied - consumed) = dslot
    BY <1>4, <2>2 DEF WorkerFill
  <2>5. CASE k = Copied'
    <3>1. NextRead + k - consumed - 1 = NextRead + Copied - consumed
      <4>1. k = finished + 1 /\ finished \in Nat /\ consumed \in Nat /\ NextRead \in Int
        BY <2>1, <2>4, <2>5
      <4> HIDE DEF NextRead, Copied, IInv, ControlInv
      <4> QED
        BY <2>1, <4>1
    <3>2. ring'[dslot] = finished + 1
      BY <2>3
    <3> QED
      BY <2>1, <2>4, <2>5, <3>1, <3>2
  <2>6. CASE k # Copied'
    <3>1. k \in consumed + 1 .. Copied
      BY <2>1, <2>6
    <3>2. Wrap(NextRead + k - consumed - 1) # Wrap(NextRead + Copied - consumed)
      BY <2>2, <2>4, <3>1
    <3>3. Wrap(NextRead + k - consumed - 1) \in Slot
      BY <2>2, <2>4, <3>1
    <3> QED
      BY <1>4, <2>3, <2>4, <3>1, <3>2, <3>3
  <2> QED
    BY <2>5, <2>6
<1>5. CASE WorkerJoin
  BY <1>5 DEF WorkerJoin
<1>6. CASE WorkerRelease
  BY <1>6 DEF WorkerRelease
<1>7. CASE LoggerBegin
  BY <1>7 DEF LoggerBegin
<1>8. CASE LoggerGiveEmpty
  BY <1>8 DEF LoggerGiveEmpty
<1>9. CASE Idle /\ Resize
  BY <1>9 DEF Idle, Resize
<1>10. CASE wpc = "none" /\ Resized /\ StartWorker
  BY <1>10 DEF StartWorker
<1>11. CASE Signal
  BY <1>11 DEF Signal
<1>12. CASE UNCHANGED vars
  BY <1>12 DEF vars
<1>13. CASE WorkerDmaDone
  BY <1>13 DEF WorkerDmaDone
<1> QED
  BY <1>1, <1>2, <1>3, <1>4, <1>5, <1>6, <1>7, <1>8, <1>9, <1>10, <1>11, <1>12,
     <1>13
     DEF Next, Worker, Logger, Environment

-----------------------------------------------------------------------------
\* At the start there is no session.
LEMMA IInvInit == Init => IInv
<1> SUFFICES ASSUME Init PROVE IInv
  OBVIOUS
<1>1. ControlInv
  BY ControlInit
<1>2. ~InSession
  BY DEF Init, InSession
<1> QED
  BY <1>1, <1>2 DEF IInv, TokenAccounting, RingPosition, UnsentBlocksIntact

\* The four parts together are inductive.
LEMMA IInvStep == IInv /\ [Next]_vars => IInv'
BY ControlStep, TokenStep, PositionStep, IntactStep DEF IInv

\* The inductive invariant holds throughout.
THEOREM Inductive == Spec => []IInv
BY IInvInit, IInvStep, PTL DEF Spec

\* Every variable keeps its type, whatever the number of slots: in particular no
\* index leaves the ring, and the driver's counts stay in range.
THEOREM PipelineTypeOK == Spec => []TypeOK
<1>1. IInv => TypeOK
  BY DEF IInv, ControlInv
<1> QED
  BY <1>1, Inductive, PTL

\* The semaphores of adc.cpp account for every block and for every slot.
THEOREM TokensAccounted == Spec => []TokenAccounting
<1>1. IInv => TokenAccounting
  BY DEF IInv
<1> QED
  BY <1>1, Inductive, PTL

\* worker_main never copies a block over one that log_main has still to send.
THEOREM UnsentIntact == Spec => []UnsentBlocksIntact
<1>1. IInv => UnsentBlocksIntact
  BY DEF IInv
<1> QED
  BY <1>1, Inductive, PTL

\* log_main's send() sees the blocks in order, none twice and none left out; what
\* it sends beyond that is the one stale slot of the closing wake-up.
THEOREM InOrder == Spec => []SendsInOrder
<1>1. IInv => SendsInOrder
  <2> SUFFICES ASSUME IInv, lpc = "sending", ~interrupted
               PROVE  \/ ring[rd] = consumed + 1 /\ consumed < Copied
                      \/ wpc = "join" /\ consumed = Copied
    BY DEF SendsInOrder
  <2>1. InSession
    BY DEF IInv, ControlInv, ThreadsOK, Working, InSession
  <2>2. full + 1 + Bit(wpc = "post") = Copied - consumed + Bit(wpc = "join")
    BY <2>1 DEF IInv, TokenAccounting, LoggerHolds, Bit
  <2>3. full \in Nat /\ consumed \in Nat /\ Copied \in Nat /\ rd \in Slot
    BY DEF IInv, ControlInv, TypeOK, Copied
  <2>4. CASE consumed < Copied
    <3>1. ring[Wrap(NextRead + (consumed + 1) - consumed - 1)] = consumed + 1
      BY <2>1, <2>3, <2>4 DEF IInv, UnsentBlocksIntact
    <3>2. Wrap(NextRead + (consumed + 1) - consumed - 1) = rd
      BY <2>3, SlotZero DEF NextRead, Wrap, Slot
    <3> QED
      BY <2>4, <3>1, <3>2
  <2>5. CASE ~(consumed < Copied)
    BY <2>2, <2>3, <2>5 DEF Bit
  <2> QED
    BY <2>4, <2>5
<1> QED
  BY <1>1, Inductive, PTL

\* worker_main never reads a slot of the DMA buffer that the hardware is filling.
THEOREM OnlyCompleted == Spec => []OnlyCompletedBlocks
<1>1. IInv => OnlyCompletedBlocks
  BY DEF IInv, ControlInv, TypeOK, DriverOK, BatchOK, Copying, Copied, OnlyCompletedBlocks
<1> QED
  BY <1>1, Inductive, PTL
-----------------------------------------------------------------------------
(* The streams on top of it.                                               *)

\* Where a start may be between its claim and its worker.
Built(r)  == parsing[r].at = "built"
InQueue   == \E k \in DOMAIN actions : actions[k] = "start"
InAction  == apc \in {"size", "thread"}
StartWaits == (\E r \in Receivers : Built(r)) \/ InQueue \/ InAction

\* What a receiver found free is still free: nobody else has tested it.
CheckedOK ==
  \A r \in Receivers : parsing[r].at = "checked" =>
    conn = NoConn /\ \A q \in Receivers : parsing[q].at = "checked" => q = r

\* A start is on its way at one place only,
OneQueued == \A j, k \in DOMAIN actions : actions[j] = "start" /\ actions[k] = "start" => j = k

OneStart ==
  /\ \A q, r \in Receivers : Built(q) /\ Built(r) => q = r
  /\ OneQueued
  /\ \A r \in Receivers : Built(r) => ~InQueue /\ ~InAction
  /\ ~(InQueue /\ InAction)

\* it holds the claim, and so does the worker that has come of it; not both.
ClaimOK ==
  /\ StartWaits => conn # NoConn /\ Idle
  /\ ~Idle => conn # NoConn

\* The buffer that a worker is to be created for is as it was resized.
ReadyOK == apc = "thread" => Resized

StreamTypes ==
  /\ parsing \in [Receivers -> [at : {"idle", "checked", "built"}, conn : Conns \cup {NoConn}]]
  /\ actions \in Seq({"start", "stop"})
  /\ apc \in {"idle", "size", "thread", "id", "dma"}

\* These hold whatever the receivers do.
WorkerKnown == workerId = -1 /\ apc # "id" => wpc = "none"
ReasonOK    == conn # NoConn => StartWaits \/ ~Idle \/ orphaned

Exclusive == CheckedOK /\ OneStart /\ ClaimOK /\ ReadyOK /\ LoggerServesClaimant

StreamInv == StreamTypes /\ ThreadsOK /\ WorkerKnown /\ ReasonOK /\ (raced \/ Exclusive)

-----------------------------------------------------------------------------
\* Threads and their logger, step by step of the pipeline, raced or not.
LEMMA ThreadsStep ==
  ASSUME ThreadsOK, Worker \/ Logger \/ Produce \/ Cancel \/ Signal \/ DmaStart \/ Resize
  PROVE  ThreadsOK'
<1>1. CASE Worker
  <2>1. CASE WorkerSpawn
    BY <2>1 DEF WorkerSpawn, ThreadsOK, Working
  <2>2. CASE WorkerJoin
    BY <2>2 DEF WorkerJoin, ThreadsOK, Working
  <2>3. CASE WorkerMap
    BY <2>3 DEF WorkerMap, ThreadsOK, Working, logger
  <2>4. CASE WorkerBegin \/ WorkerLoop \/ WorkerCallWait \/ WorkerIrq \/ WorkerCancelled
             \/ WorkerTakeEmpty \/ WorkerFill \/ WorkerPostFull \/ WorkerDmaDone
             \/ WorkerExit \/ WorkerTerminateLogger \/ WorkerWakeLogger \/ WorkerRelease
             \/ WorkerEnd
    <3>1. UNCHANGED <<lpc, started>>
      BY <2>4 DEF WorkerBegin, WorkerLoop, WorkerCallWait, WorkerIrq, WorkerCancelled,
                  WorkerTakeEmpty, WorkerFill, WorkerPostFull, WorkerDmaDone, WorkerExit,
                  WorkerTerminateLogger, WorkerWakeLogger, WorkerRelease, WorkerEnd, logger
    <3>2. wpc' # "spawn"
      BY <2>4 DEF WorkerBegin, WorkerLoop, WorkerCallWait, WorkerIrq, WorkerCancelled,
                  WorkerTakeEmpty, WorkerFill, WorkerPostFull, WorkerDmaDone, WorkerExit,
                  WorkerTerminateLogger, WorkerWakeLogger, WorkerRelease, WorkerEnd
    <3>3. Working' = Working
      BY <2>4 DEF WorkerBegin, WorkerLoop, WorkerCallWait, WorkerIrq, WorkerCancelled,
                  WorkerTakeEmpty, WorkerFill, WorkerPostFull, WorkerDmaDone, WorkerExit,
                  WorkerTerminateLogger, WorkerWakeLogger, WorkerRelease, WorkerEnd, Working
    <3> QED
      BY <3>1, <3>2, <3>3 DEF ThreadsOK
  <2> QED
    BY <1>1, <2>1, <2>2, <2>3, <2>4 DEF Worker
<1>2. CASE Logger
  <2>1. UNCHANGED <<wpc, started>>
    BY <1>2 DEF Logger, LoggerBegin, LoggerTest, LoggerTimeout, LoggerTakeFull, LoggerLock,
                LoggerSent, LoggerGiveEmpty, LoggerEpipe, LoggerCancelIrq, LoggerGiveUp, worker
  <2>2. lpc # "none" /\ lpc' # "none"
    BY <1>2 DEF Logger, LoggerBegin, LoggerTest, LoggerTimeout, LoggerTakeFull, LoggerLock,
                LoggerSent, LoggerGiveEmpty, LoggerEpipe, LoggerCancelIrq, LoggerGiveUp
  <2> QED
    BY <2>1, <2>2 DEF ThreadsOK, Working
<1>3. CASE Signal
  <2>1. /\ started' = started
        /\ wpc' = wpc \/ (wpc = "copy" /\ wpc' = "lock") \/ (wpc = "wait" /\ wpc' = "exit")
        /\ lpc' = lpc \/ (lpc = "timedwait" /\ lpc' = "exited")
    BY <1>3 DEF Signal
  <2> QED
    BY <2>1 DEF ThreadsOK, Working
<1>4. CASE Produce \/ Cancel \/ DmaStart \/ Resize
  <2>1. UNCHANGED <<wpc, lpc, started>>
    BY <1>4 DEF Produce, Cancel, DmaStart, Resize, worker, logger
  <2> QED
    BY <2>1 DEF ThreadsOK, Working
<1> QED
  BY <1>1, <1>2, <1>3, <1>4

\* The queue: an item more, and one less.
LEMMA QueueOne ==
  ASSUME StreamTypes, NEW item \in {"start", "stop"}, Queue(item)
  PROVE  /\ actions' \in Seq({"start", "stop"})
         /\ InQueue' <=> InQueue \/ item = "start"
         /\ OneQueued /\ (InQueue => item = "stop") => OneQueued'
<1>1. /\ actions \in Seq({"start", "stop"}) /\ actions' = Append(actions, item)
      /\ Len(actions) \in Nat
  BY LenProperties DEF StreamTypes, Queue
<1>2. /\ actions' \in Seq({"start", "stop"})
      /\ DOMAIN actions = 1 .. Len(actions)
      /\ DOMAIN actions' = 1 .. Len(actions) + 1
      /\ \A k \in 1 .. Len(actions) : actions'[k] = actions[k]
      /\ actions'[Len(actions) + 1] = item
  BY <1>1, AppendProperties, LenProperties
<1>3. InQueue' <=> InQueue \/ item = "start"
  <2>1. ASSUME InQueue PROVE InQueue'
    <3>1. PICK k \in DOMAIN actions : actions[k] = "start"
      BY <2>1 DEF InQueue
    <3>2. k \in DOMAIN actions' /\ actions'[k] = "start"
      BY <1>1, <1>2, <3>1
    <3> QED
      BY <3>2 DEF InQueue
  <2>2. ASSUME item = "start" PROVE InQueue'
    <3>1. Len(actions) + 1 \in DOMAIN actions'
      BY <1>1, <1>2
    <3> QED
      BY <1>2, <2>2, <3>1 DEF InQueue
  <2>3. ASSUME InQueue', item # "start" PROVE InQueue
    <3>1. PICK k \in DOMAIN actions' : actions'[k] = "start"
      BY <2>3 DEF InQueue
    <3>2. k \in 1 .. Len(actions)
      BY <1>1, <1>2, <2>3, <3>1
    <3> QED
      BY <1>2, <3>1, <3>2 DEF InQueue
  <2> QED
    BY <2>1, <2>2, <2>3
<1>4. ASSUME OneQueued, InQueue => item = "stop",
             NEW j \in DOMAIN actions', NEW k \in DOMAIN actions',
             actions'[j] = "start", actions'[k] = "start"
      PROVE  j = k
  <2>1. CASE item = "stop"
    <3>1. j \in 1 .. Len(actions) /\ k \in 1 .. Len(actions)
      BY <1>1, <1>2, <1>4, <2>1
    <3> QED
      BY <1>2, <1>4, <3>1 DEF OneQueued
  <2>2. CASE item = "start"
    <3>1. \A n \in 1 .. Len(actions) : actions'[n] # "start"
      BY <1>2, <1>4, <2>2 DEF InQueue
    <3> QED
      BY <1>1, <1>2, <1>4, <3>1
  <2> QED
    BY <2>1, <2>2
<1> QED
  BY <1>2, <1>3, <1>4 DEF OneQueued

LEMMA TakeOne ==
  ASSUME StreamTypes, actions # <<>>, actions' = Tail(actions)
  PROVE  /\ actions' \in Seq({"start", "stop"})
         /\ Head(actions) = "stop" => (InQueue' <=> InQueue)
         /\ OneQueued => OneQueued'
         /\ Head(actions) = "start" => InQueue /\ (OneQueued => ~InQueue')
<1>1. /\ actions \in Seq({"start", "stop"}) /\ Len(actions) \in Nat /\ Len(actions) >= 1
  BY LenProperties, EmptySeq DEF StreamTypes
<1>2. /\ actions' \in Seq({"start", "stop"})
      /\ Head(actions) = actions[1]
      /\ Len(actions') = Len(actions) - 1
      /\ \A k \in 1 .. Len(actions) - 1 : actions'[k] = actions[k + 1]
  BY <1>1, HeadTailProperties
<1>3. DOMAIN actions = 1 .. Len(actions) /\ DOMAIN actions' = 1 .. Len(actions) - 1
  BY <1>1, <1>2, LenProperties
<1>4. \A k \in DOMAIN actions' : k + 1 \in DOMAIN actions /\ actions'[k] = actions[k + 1]
                                 /\ k + 1 # 1
  BY <1>1, <1>2, <1>3
<1>5. ASSUME Head(actions) = "stop", InQueue PROVE InQueue'
  <2>1. PICK k \in DOMAIN actions : actions[k] = "start"
    BY <1>5 DEF InQueue
  <2>2. k \in 2 .. Len(actions)
    BY <1>1, <1>2, <1>3, <1>5, <2>1
  <2>3. k - 1 \in DOMAIN actions' /\ actions'[k - 1] = actions[(k - 1) + 1]
    BY <1>1, <1>3, <1>4, <2>2
  <2>4. (k - 1) + 1 = k
    BY <2>2
  <2> QED
    BY <2>1, <2>3, <2>4 DEF InQueue
<1>6. ASSUME InQueue' PROVE InQueue
  BY <1>4, <1>6 DEF InQueue
<1>7. ASSUME OneQueued PROVE OneQueued'
  <2> SUFFICES ASSUME NEW j \in DOMAIN actions', NEW k \in DOMAIN actions',
                      actions'[j] = "start", actions'[k] = "start"
               PROVE  j = k
    BY DEF OneQueued
  <2>1. j + 1 = k + 1
    BY <1>4, <1>7 DEF OneQueued
  <2> QED
    BY <1>1, <1>3, <2>1
<1>8. ASSUME Head(actions) = "start" PROVE InQueue /\ (OneQueued => ~InQueue')
  <2>1. 1 \in DOMAIN actions /\ actions[1] = "start"
    BY <1>1, <1>2, <1>3, <1>8
  <2> QED
    BY <1>4, <2>1 DEF InQueue, OneQueued
<1> QED
  BY <1>2, <1>5, <1>6, <1>7, <1>8

-----------------------------------------------------------------------------
\* What the steps of the pipeline that are none of a worker's own turns leave alone.
LEMMA PipelineFrame ==
  ASSUME UNCHANGED vars
  PROVE  /\ ThreadsOK => ThreadsOK'
         /\ Idle' = Idle /\ Resized' = Resized /\ wpc' = wpc /\ lpc' = lpc
BY DEF vars, worker, logger, sems, driver, ThreadsOK, Working, Idle, Resized

\* A receiver finds the claim free.
LEMMA CheckFreeKeeps ==
  ASSUME StreamInv, NEW r \in Receivers, CheckFree(r) PROVE StreamInv'
<1>1. /\ conn = NoConn /\ parsing[r].at = "idle"
      /\ UNCHANGED <<vars, claim, actions, apc, orphaned>>
      /\ raced' = (raced \/ OtherChecks(r))
  BY DEF CheckFree
<1>2. PICK c \in Conns \cup {NoConn} :
        parsing' = [parsing EXCEPT ![r] = [at |-> "checked", conn |-> c]]
  BY DEF CheckFree, Named
<1>3. /\ parsing'[r] = [at |-> "checked", conn |-> c]
      /\ \A q \in Receivers \ {r} : parsing'[q] = parsing[q]
      /\ StreamTypes'
  BY <1>1, <1>2 DEF StreamInv, StreamTypes
<1>4. \A q \in Receivers : Built(q)' <=> Built(q)
  BY <1>1, <1>3 DEF Built
<1>5. /\ InQueue' = InQueue /\ OneQueued' = OneQueued /\ InAction' = InAction
      /\ UNCHANGED <<conn, workerId, loggerConn, apc, orphaned>>
  BY <1>1 DEF InQueue, OneQueued, InAction, claim
<1>6. StartWaits' <=> StartWaits
  BY <1>4, <1>5 DEF StartWaits
<1>7. ThreadsOK' /\ Idle' = Idle /\ Resized' = Resized /\ wpc' = wpc /\ lpc' = lpc
  BY <1>1, PipelineFrame DEF StreamInv
<1>8. WorkerKnown' /\ ReasonOK'
  BY <1>5, <1>6, <1>7 DEF StreamInv, WorkerKnown, ReasonOK
<1>9. ASSUME ~raced' PROVE Exclusive'
  <2>1. ~raced /\ ~OtherChecks(r) /\ Exclusive
    BY <1>1, <1>9 DEF StreamInv
  <2>2. CheckedOK'
    BY <1>1, <1>3, <1>5, <2>1 DEF CheckedOK, OtherChecks
  <2>3. OneStart' /\ ClaimOK'
    BY <1>4, <1>5, <1>6, <1>7, <2>1 DEF Exclusive, OneStart, ClaimOK
  <2>4. ReadyOK' /\ LoggerServesClaimant'
    BY <1>1, <1>5, <1>7, <1>9, <2>1 DEF Exclusive, ReadyOK, LoggerServesClaimant
  <2> QED
    BY <2>2, <2>3, <2>4 DEF Exclusive
<1> QED
  BY <1>3, <1>7, <1>8, <1>9 DEF StreamInv

\* It takes the claim.
LEMMA TakeClaimKeeps ==
  ASSUME StreamInv, NEW r \in Receivers, TakeClaim(r) PROVE StreamInv'
<1>1. /\ parsing[r].at = "checked" /\ conn' = parsing[r].conn
      /\ parsing' = [parsing EXCEPT ![r] = [at |-> "built", conn |-> NoConn]]
      /\ raced' = (raced \/ parsing[r].conn = NoConn)
      /\ UNCHANGED <<vars, workerId, loggerConn, actions, apc>>
  BY DEF TakeClaim
<1>2. ~raced' => ~raced /\ conn' # NoConn
  BY <1>1
<1>3. /\ parsing'[r] = [at |-> "built", conn |-> NoConn]
      /\ \A q \in Receivers \ {r} : parsing'[q] = parsing[q]
      /\ StreamTypes'
  BY <1>1 DEF StreamInv, StreamTypes
<1>4. StartWaits'
  BY <1>3 DEF StartWaits, Built
<1>5. ThreadsOK' /\ Idle' = Idle /\ Resized' = Resized /\ wpc' = wpc /\ lpc' = lpc
  BY <1>1, PipelineFrame DEF StreamInv
<1>6. WorkerKnown' /\ ReasonOK'
  BY <1>1, <1>4, <1>5 DEF StreamInv, WorkerKnown, ReasonOK
<1>7. ASSUME ~raced' PROVE Exclusive'
  <2>1. /\ Exclusive /\ conn = NoConn
        /\ \A q \in Receivers : parsing[q].at = "checked" => q = r
    BY <1>1, <1>2, <1>7 DEF StreamInv, Exclusive, CheckedOK
  <2>2. ~StartWaits /\ Idle
    BY <2>1 DEF Exclusive, ClaimOK
  <2>3. ~InQueue' /\ ~InAction' /\ OneQueued'
    BY <1>1, <2>1, <2>2 DEF StartWaits, InQueue, InAction, Exclusive, OneStart, OneQueued
  <2>4. CheckedOK'
    BY <1>3, <2>1 DEF CheckedOK
  <2>5. OneStart'
    BY <1>3, <2>2, <2>3 DEF OneStart, StartWaits, Built
  <2>6. ClaimOK'
    BY <1>2, <1>5, <1>7, <2>2 DEF ClaimOK
  <2>7. ReadyOK'
    BY <2>3 DEF ReadyOK, InAction
  <2>8. lpc = "none"
    BY <2>2 DEF StreamInv, ThreadsOK, Working, Idle
  <2>9. LoggerServesClaimant'
    BY <1>5, <2>8 DEF LoggerServesClaimant
  <2> QED
    BY <2>4, <2>5, <2>6, <2>7, <2>9 DEF Exclusive
<1> QED
  BY <1>3, <1>5, <1>6, <1>7 DEF StreamInv

\* The start is queued, or dropped with its message.
LEMMA QueueStartKeeps ==
  ASSUME StreamInv, NEW r \in Receivers, QueueStart(r) PROVE StreamInv'
<1>1. /\ parsing[r].at = "built" /\ Queue("start")
      /\ parsing' = [parsing EXCEPT ![r] = Idling]
      /\ UNCHANGED <<vars, conn, workerId, loggerConn, apc, raced, orphaned>>
  BY DEF QueueStart, claim, history
<1>2. /\ parsing'[r] = Idling
      /\ \A q \in Receivers \ {r} : parsing'[q] = parsing[q]
      /\ parsing' \in [Receivers -> [at : {"idle", "checked", "built"}, conn : Conns \cup {NoConn}]]
  BY <1>1 DEF StreamInv, StreamTypes, Idling
<1>3. /\ actions' \in Seq({"start", "stop"}) /\ InQueue'
      /\ OneQueued /\ ~InQueue => OneQueued'
  BY <1>1, QueueOne DEF StreamInv
<1>4. StreamTypes'
  BY <1>1, <1>2, <1>3 DEF StreamInv, StreamTypes, Idling
<1>5. ThreadsOK' /\ Idle' = Idle /\ Resized' = Resized /\ wpc' = wpc /\ lpc' = lpc
  BY <1>1, PipelineFrame DEF StreamInv
<1>6. WorkerKnown' /\ ReasonOK'
  BY <1>1, <1>3, <1>5 DEF StreamInv, WorkerKnown, ReasonOK, StartWaits
<1>7. ASSUME ~raced' PROVE Exclusive'
  <2>1. Exclusive /\ Built(r)
    BY <1>1, <1>7 DEF StreamInv, Built
  <2>2. /\ ~InQueue /\ ~InAction /\ StartWaits
        /\ \A q \in Receivers : Built(q) => q = r
    BY <2>1 DEF Exclusive, OneStart, StartWaits
  <2>3. \A q \in Receivers : ~Built(q)'
    BY <1>2, <2>2 DEF Built, Idling
  <2>4. CheckedOK'
    BY <1>1, <1>2, <2>1 DEF Exclusive, CheckedOK, Idling
  <2>5. ~InAction'
    BY <1>1, <2>2 DEF InAction
  <2>6. OneStart'
    BY <1>3, <2>1, <2>2, <2>3, <2>5 DEF OneStart, Exclusive
  <2>7. ClaimOK' /\ ReadyOK'
    BY <1>1, <1>5, <2>1, <2>2, <2>5 DEF Exclusive, ClaimOK, ReadyOK, InAction
  <2>8. LoggerServesClaimant'
    BY <1>1, <1>5, <2>1 DEF Exclusive, LoggerServesClaimant
  <2> QED
    BY <2>4, <2>6, <2>7, <2>8 DEF Exclusive
<1> QED
  BY <1>4, <1>5, <1>6, <1>7 DEF StreamInv

LEMMA DropStartKeeps ==
  ASSUME StreamInv, NEW r \in Receivers, DropStart(r) PROVE StreamInv'
<1>1. /\ parsing[r].at = "built" /\ orphaned' = (conn # NoConn)
      /\ parsing' = [parsing EXCEPT ![r] = Idling]
      /\ UNCHANGED <<vars, conn, workerId, loggerConn, actions, apc, raced>>
  BY DEF DropStart, claim
<1>2. /\ parsing'[r] = Idling
      /\ \A q \in Receivers \ {r} : parsing'[q] = parsing[q]
      /\ StreamTypes'
  BY <1>1 DEF StreamInv, StreamTypes, Idling
<1>3. ThreadsOK' /\ Idle' = Idle /\ Resized' = Resized /\ wpc' = wpc /\ lpc' = lpc
  BY <1>1, PipelineFrame DEF StreamInv
<1>4. WorkerKnown' /\ ReasonOK'
  BY <1>1, <1>3 DEF StreamInv, WorkerKnown, ReasonOK
<1>5. ASSUME ~raced' PROVE Exclusive'
  <2>1. Exclusive
    BY <1>1, <1>5 DEF StreamInv
  <2>2. InQueue' = InQueue /\ OneQueued' = OneQueued /\ InAction' = InAction
    BY <1>1 DEF InQueue, OneQueued, InAction
  <2>3. \A q \in Receivers : Built(q)' => Built(q)
    BY <1>2 DEF Built, Idling
  <2>4. CheckedOK'
    BY <1>1, <1>2, <2>1 DEF Exclusive, CheckedOK, Idling
  <2>5. OneStart'
    BY <2>1, <2>2, <2>3 DEF Exclusive, OneStart
  <2>6. ClaimOK' /\ ReadyOK'
    BY <1>1, <1>3, <2>1, <2>2, <2>3 DEF Exclusive, ClaimOK, ReadyOK, StartWaits
  <2>7. LoggerServesClaimant'
    BY <1>1, <1>3, <2>1 DEF Exclusive, LoggerServesClaimant
  <2> QED
    BY <2>4, <2>5, <2>6, <2>7 DEF Exclusive
<1> QED
  BY <1>2, <1>3, <1>4, <1>5 DEF StreamInv

\* A start without a claim, and a stop.
LEMMA QueueOtherKeeps ==
  ASSUME StreamInv, NEW r \in Receivers, QueueEmptyStart(r) \/ QueueStop(r)
  PROVE  StreamInv'
<1>1. /\ \/ Queue("start") /\ raced'
         \/ Queue("stop") /\ raced' = raced
      /\ UNCHANGED <<vars, conn, workerId, loggerConn, parsing, apc, orphaned>>
  BY DEF QueueEmptyStart, QueueStop, claim, history
<1>2. /\ actions' \in Seq({"start", "stop"}) /\ (InQueue => InQueue')
      /\ raced' \/ (raced' = raced /\ (InQueue' <=> InQueue) /\ (OneQueued => OneQueued'))
  BY <1>1, QueueOne DEF StreamInv
<1>3. StreamTypes'
  BY <1>1, <1>2 DEF StreamInv, StreamTypes
<1>4. ThreadsOK' /\ Idle' = Idle /\ Resized' = Resized /\ wpc' = wpc /\ lpc' = lpc
  BY <1>1, PipelineFrame DEF StreamInv
<1>5. (\A q \in Receivers : Built(q)' <=> Built(q)) /\ InAction' = InAction
  BY <1>1 DEF Built, InAction
<1>6. WorkerKnown' /\ ReasonOK'
  BY <1>1, <1>2, <1>4, <1>5 DEF StreamInv, WorkerKnown, ReasonOK, StartWaits
<1>7. ASSUME ~raced' PROVE Exclusive'
  <2>1. Exclusive /\ (InQueue' <=> InQueue) /\ OneQueued'
    BY <1>2, <1>7 DEF StreamInv, Exclusive, OneStart
  <2>2. CheckedOK' /\ OneStart'
    BY <1>1, <1>5, <2>1 DEF Exclusive, CheckedOK, OneStart
  <2>3. ClaimOK' /\ ReadyOK'
    BY <1>1, <1>4, <1>5, <2>1 DEF Exclusive, ClaimOK, ReadyOK, StartWaits
  <2>4. LoggerServesClaimant'
    BY <1>1, <1>4, <2>1 DEF Exclusive, LoggerServesClaimant
  <2> QED
    BY <2>2, <2>3, <2>4 DEF Exclusive
<1> QED
  BY <1>3, <1>4, <1>6, <1>7 DEF StreamInv

-----------------------------------------------------------------------------
\* A step of the ActionThread that queues no start and moves none: where the starts
\* are, what holds of them afterwards.
LEMMA StartsLeft ==
  ASSUME Exclusive, UNCHANGED <<parsing, conn, loggerConn>>,
         InQueue' => InQueue, OneQueued => OneQueued', InAction' => InAction,
         Idle' = Idle, lpc' = lpc, ~raced
  PROVE  CheckedOK' /\ OneStart' /\ ClaimOK' /\ LoggerServesClaimant'
<1>1. \A r \in Receivers : Built(r)' <=> Built(r)
  BY DEF Built
<1>2. CheckedOK'
  BY DEF Exclusive, CheckedOK
<1>3. OneStart'
  BY <1>1 DEF Exclusive, OneStart
<1>4. ClaimOK'
  BY <1>1 DEF Exclusive, ClaimOK, StartWaits
<1>5. LoggerServesClaimant'
  BY DEF Exclusive, LoggerServesClaimant
<1> QED
  BY <1>2, <1>3, <1>4, <1>5

\* StreamStop::Go: the worker is woken or not.
LEMMA GoStopKeeps == ASSUME StreamInv, GoStop PROVE StreamInv'
<1>1. /\ actions # <<>> /\ Head(actions) = "stop" /\ actions' = Tail(actions)
      /\ Cancel \/ UNCHANGED vars
      /\ UNCHANGED <<conn, workerId, loggerConn, parsing, apc, raced, orphaned>>
  BY DEF GoStop, claim, history
<1>2. /\ actions' \in Seq({"start", "stop"}) /\ (InQueue' <=> InQueue)
      /\ OneQueued => OneQueued'
  BY <1>1, TakeOne DEF StreamInv
<1>3. ThreadsOK' /\ Idle' = Idle /\ Resized' = Resized /\ wpc' = wpc /\ lpc' = lpc
  <2>1. CASE Cancel
    BY <2>1, ThreadsStep DEF StreamInv, Cancel, worker, logger, driver, Idle, Resized
  <2>2. CASE UNCHANGED vars
    BY <2>2, PipelineFrame DEF StreamInv
  <2> QED
    BY <1>1, <2>1, <2>2
<1>4. StreamTypes'
  BY <1>1, <1>2 DEF StreamInv, StreamTypes
<1>5. (\A q \in Receivers : Built(q)' <=> Built(q)) /\ InAction' = InAction
  BY <1>1 DEF Built, InAction
<1>6. WorkerKnown' /\ ReasonOK'
  BY <1>1, <1>2, <1>3, <1>5 DEF StreamInv, WorkerKnown, ReasonOK, StartWaits
<1>7. ASSUME ~raced' PROVE Exclusive'
  <2>1. Exclusive /\ ~raced
    BY <1>1, <1>7 DEF StreamInv
  <2>2. CheckedOK' /\ OneStart' /\ ClaimOK' /\ LoggerServesClaimant'
    BY <1>1, <1>2, <1>3, <1>5, <2>1, StartsLeft
  <2> QED
    BY <1>1, <1>3, <2>1, <2>2 DEF Exclusive, ReadyOK
<1> QED
  BY <1>3, <1>4, <1>6, <1>7 DEF StreamInv

\* StreamStart::Go begins.
LEMMA GoStartKeeps == ASSUME StreamInv, GoStart PROVE StreamInv'
<1>1. /\ apc = "idle" /\ apc' = "size"
      /\ actions # <<>> /\ Head(actions) = "start" /\ actions' = Tail(actions)
      /\ UNCHANGED <<vars, conn, workerId, loggerConn, parsing, raced, orphaned>>
  BY DEF GoStart, claim, history
<1>2. /\ actions' \in Seq({"start", "stop"}) /\ InQueue
      /\ OneQueued => OneQueued' /\ ~InQueue'
  BY <1>1, TakeOne DEF StreamInv
<1>3. ThreadsOK' /\ Idle' = Idle /\ Resized' = Resized /\ wpc' = wpc /\ lpc' = lpc
  BY <1>1, PipelineFrame DEF StreamInv
<1>4. StreamTypes'
  BY <1>1, <1>2 DEF StreamInv, StreamTypes
<1>5. InAction' /\ StartWaits' /\ StartWaits
  BY <1>1, <1>2 DEF InAction, StartWaits
<1>6. WorkerKnown' /\ ReasonOK'
  BY <1>1, <1>3, <1>5 DEF StreamInv, WorkerKnown, ReasonOK
<1>7. ASSUME ~raced' PROVE Exclusive'
  <2>1. Exclusive
    BY <1>1, <1>7 DEF StreamInv
  <2>2. \A q \in Receivers : ~Built(q)'
    BY <1>1, <1>2, <2>1 DEF Exclusive, OneStart, Built
  <2>3. OneStart'
    BY <1>2, <2>1, <2>2 DEF Exclusive, OneStart
  <2>4. CheckedOK' /\ ClaimOK' /\ ReadyOK'
    BY <1>1, <1>3, <1>5, <2>1 DEF Exclusive, CheckedOK, ClaimOK, ReadyOK
  <2>5. LoggerServesClaimant'
    BY <1>1, <1>3, <2>1 DEF Exclusive, LoggerServesClaimant
  <2> QED
    BY <2>3, <2>4, <2>5 DEF Exclusive
<1> QED
  BY <1>3, <1>4, <1>6, <1>7 DEF StreamInv

\* The DMA buffer is resized, started, or the id noted: the starts stay where they are.
LEMMA GoQuietlyKeeps ==
  ASSUME StreamInv, GoSize \/ GoId \/ GoDma PROVE StreamInv'
<1>1. UNCHANGED <<conn, loggerConn, parsing, actions, raced, orphaned, wpc, lpc>>
  BY DEF GoSize, GoId, GoDma, Resize, DmaStart, claim, history, worker, logger, vars
<1>2. /\ apc' \in {"thread", "dma", "idle"}
      /\ apc' = "thread" => GoSize
      /\ InAction' <=> InAction
  BY DEF GoSize, GoId, GoDma, InAction
<1>3. ThreadsOK'
  BY ThreadsStep, PipelineFrame DEF StreamInv, GoSize, GoId, GoDma
<1>4. StreamTypes'
  BY <1>1, <1>2 DEF StreamInv, StreamTypes
<1>5. /\ Idle' = Idle /\ InQueue' = InQueue /\ OneQueued' = OneQueued
      /\ \A q \in Receivers : Built(q)' <=> Built(q)
  BY <1>1 DEF Idle, InQueue, OneQueued, Built
<1>6. WorkerKnown'
  BY <1>1 DEF StreamInv, WorkerKnown, GoSize, GoId, GoDma, claim
<1>7. ReasonOK'
  BY <1>1, <1>2, <1>5 DEF StreamInv, ReasonOK, StartWaits
<1>8. ASSUME ~raced' PROVE Exclusive'
  <2>1. Exclusive /\ ~raced
    BY <1>1, <1>8 DEF StreamInv
  <2>2. CheckedOK' /\ OneStart' /\ ClaimOK' /\ LoggerServesClaimant'
    BY <1>1, <1>2, <1>5, <2>1, StartsLeft
  <2>3. ReadyOK'
    BY <1>2 DEF ReadyOK, GoSize, Resize, Resized
  <2> QED
    BY <2>2, <2>3 DEF Exclusive
<1> QED
  BY <1>3, <1>4, <1>6, <1>7, <1>8 DEF StreamInv

\* A worker is created, if the last one has taken its id back.
LEMMA GoThreadKeeps == ASSUME StreamInv, GoThread PROVE StreamInv'
<1>1. /\ apc = "thread" /\ apc' \in {"id", "dma"}
      /\ UNCHANGED <<conn, workerId, loggerConn, parsing, actions, raced>>
      /\ \/ workerId = -1 /\ StartWorker /\ apc' = "id" /\ orphaned' = orphaned
         \/ workerId # -1 /\ apc' = "dma" /\ orphaned' = (conn # NoConn) /\ UNCHANGED vars
  BY DEF GoThread, claim
<1>2. StreamTypes'
  BY <1>1 DEF StreamInv, StreamTypes
<1>3. CASE workerId = -1
  <2>1. wpc = "none" /\ wpc' = "start" /\ UNCHANGED <<lpc, started>>
    BY <1>1, <1>3 DEF StreamInv, WorkerKnown, StartWorker, logger
  <2>2. lpc = "none"
    BY <2>1 DEF StreamInv, ThreadsOK, Working
  <2>3. ThreadsOK' /\ ~Idle' /\ lpc' = "none"
    BY <2>1, <2>2 DEF ThreadsOK, Working, Idle
  <2>4. WorkerKnown' /\ ReasonOK'
    BY <1>1, <1>3, <2>3 DEF WorkerKnown, ReasonOK
  <2>5. ASSUME ~raced' PROVE Exclusive'
    <3>1. Exclusive /\ InAction /\ ~InAction'
      BY <1>1, <2>5 DEF StreamInv, InAction
    <3>2. /\ InQueue' = InQueue /\ OneQueued' = OneQueued
          /\ \A q \in Receivers : Built(q)' <=> Built(q)
      BY <1>1 DEF InQueue, OneQueued, Built
    <3>3. conn # NoConn /\ ~StartWaits'
      BY <3>1, <3>2 DEF Exclusive, OneStart, ClaimOK, StartWaits
    <3>4. CheckedOK' /\ OneStart'
      BY <1>1, <3>1, <3>2 DEF Exclusive, CheckedOK, OneStart
    <3>5. ClaimOK' /\ ReadyOK' /\ LoggerServesClaimant'
      BY <1>1, <2>3, <3>3 DEF ClaimOK, ReadyOK, LoggerServesClaimant
    <3> QED
      BY <3>4, <3>5 DEF Exclusive
  <2> QED
    BY <1>2, <2>3, <2>4, <2>5 DEF StreamInv
<1>4. CASE workerId # -1
  <2>1. ThreadsOK' /\ Idle' = Idle /\ lpc' = lpc
    BY <1>1, <1>4, PipelineFrame DEF StreamInv
  <2>2. WorkerKnown' /\ ReasonOK'
    BY <1>1, <1>4 DEF WorkerKnown, ReasonOK
  <2>3. ASSUME ~raced' PROVE Exclusive'
    <3>1. Exclusive /\ ~raced /\ ~InAction'
      BY <1>1, <1>4, <2>3 DEF StreamInv, InAction
    <3>2. InQueue' = InQueue /\ OneQueued' = OneQueued
      BY <1>1 DEF InQueue, OneQueued
    <3>3. CheckedOK' /\ OneStart' /\ ClaimOK' /\ LoggerServesClaimant'
      BY <1>1, <2>1, <3>1, <3>2, StartsLeft
    <3> QED
      BY <1>1, <3>3 DEF Exclusive, ReadyOK
  <2> QED
    BY <1>2, <2>1, <2>2, <2>3 DEF StreamInv
<1> QED
  BY <1>3, <1>4

\* StreamStart::Go throws.
LEMMA GoFailsKeeps == ASSUME StreamInv, GoFails PROVE StreamInv'
<1>1. /\ apc \in {"size", "thread"} /\ apc' = "idle"
      /\ orphaned' = (conn # NoConn)
      /\ UNCHANGED <<vars, conn, workerId, loggerConn, parsing, actions, raced>>
  BY DEF GoFails, claim
<1>2. StreamTypes'
  BY <1>1 DEF StreamInv, StreamTypes
<1>3. ThreadsOK' /\ Idle' = Idle /\ wpc' = wpc /\ lpc' = lpc
  BY <1>1, PipelineFrame DEF StreamInv
<1>4. WorkerKnown' /\ ReasonOK'
  BY <1>1, <1>3 DEF StreamInv, WorkerKnown, ReasonOK
<1>5. ASSUME ~raced' PROVE Exclusive'
  <2>1. Exclusive /\ ~raced /\ ~InAction'
    BY <1>1, <1>5 DEF StreamInv, InAction
  <2>2. InQueue' = InQueue /\ OneQueued' = OneQueued
    BY <1>1 DEF InQueue, OneQueued
  <2>3. CheckedOK' /\ OneStart' /\ ClaimOK' /\ LoggerServesClaimant'
    BY <1>1, <1>3, <2>1, <2>2, StartsLeft
  <2> QED
    BY <1>1, <2>3 DEF Exclusive, ReadyOK
<1> QED
  BY <1>2, <1>3, <1>4, <1>5 DEF StreamInv

-----------------------------------------------------------------------------
\* The pipeline's own steps: nothing moves in the queue, and what is left to show is
\* that the claim goes with the worker.
LEMMA ThreadsKeep ==
  ASSUME StreamInv, ThreadsOK', WorkerKnown', ReasonOK',
         UNCHANGED control, UNCHANGED raced,
         ~raced /\ Exclusive => ClaimOK' /\ ReadyOK' /\ LoggerServesClaimant',
         conn' = conn \/ conn' = NoConn
  PROVE  StreamInv'
<1>1. StreamTypes' /\ UNCHANGED <<parsing, actions, apc>>
  BY DEF StreamInv, StreamTypes, control
<1>2. ASSUME ~raced, Exclusive PROVE CheckedOK' /\ OneStart'
  <2>1. /\ InQueue' = InQueue /\ OneQueued' = OneQueued /\ InAction' = InAction
        /\ \A q \in Receivers : Built(q)' <=> Built(q)
    BY <1>1 DEF InQueue, OneQueued, InAction, Built
  <2> QED
    BY <1>1, <1>2, <2>1 DEF Exclusive, CheckedOK, OneStart
<1> QED
  BY <1>1, <1>2 DEF StreamInv, Exclusive

LEMMA WaitsSame == ASSUME UNCHANGED control PROVE StartWaits' = StartWaits
BY DEF control, StartWaits, Built, InQueue, InAction

\* The worker gives the claim back, then its id.
LEMMA WorkerClearsKeeps ==
  ASSUME StreamInv, WorkerClearsConn \/ WorkerClearsId PROVE StreamInv'
<1>1. /\ wpc \in {"release", "clearId"} /\ lpc = "none"
      /\ UNCHANGED <<lpc, loggerConn, raced>> /\ UNCHANGED control
      /\ Idle' /\ Resized' = Resized
    BY DEF WorkerClearsConn, WorkerRelease, WorkerClearsId, WorkerEnd, StreamInv, ThreadsOK,
           Working, Idle, Resized, logger, driver, history
<1>2. ThreadsOK'
  BY ThreadsStep DEF StreamInv, WorkerClearsConn, WorkerClearsId, Worker
<1>3. StartWaits' = StartWaits
  BY <1>1, WaitsSame
<1>4. CASE WorkerClearsConn
  <2>1. /\ wpc = "release" /\ conn' = NoConn /\ workerId' = workerId
    BY <1>4 DEF WorkerClearsConn, WorkerRelease
  <2>2. WorkerKnown' /\ ReasonOK'
    BY <1>1, <2>1 DEF StreamInv, WorkerKnown, ReasonOK, control
  <2>3. ~raced /\ Exclusive => ClaimOK' /\ ReadyOK' /\ LoggerServesClaimant'
    <3> SUFFICES ASSUME Exclusive PROVE ClaimOK' /\ ReadyOK' /\ LoggerServesClaimant'
      OBVIOUS
    <3>1. ~StartWaits
      BY <2>1 DEF Exclusive, ClaimOK, Idle
    <3>2. apc' # "thread"
      BY <1>1, <3>1 DEF StartWaits, InAction, control
    <3> QED
      BY <1>1, <1>3, <3>1, <3>2 DEF ClaimOK, ReadyOK, LoggerServesClaimant
  <2> QED
    BY <1>1, <1>2, <2>1, <2>2, <2>3, ThreadsKeep
<1>5. CASE WorkerClearsId
  <2>1. wpc = "clearId" /\ wpc' = "none" /\ UNCHANGED <<conn, orphaned>> /\ Idle
    BY <1>5 DEF WorkerClearsId, WorkerEnd, Idle, history
  <2>2. WorkerKnown' /\ ReasonOK'
    BY <1>1, <1>3, <2>1 DEF StreamInv, WorkerKnown, ReasonOK
  <2>3. ~raced /\ Exclusive => ClaimOK' /\ ReadyOK' /\ LoggerServesClaimant'
    BY <1>1, <1>3, <2>1 DEF Exclusive, ClaimOK, ReadyOK, LoggerServesClaimant, control
  <2> QED
    BY <1>1, <1>2, <2>1, <2>2, <2>3, ThreadsKeep
<1> QED
  BY <1>4, <1>5

\* While there is a worker the claim is its own, and no start waits.
LEMMA BusyKeeps ==
  ASSUME StreamInv, ThreadsOK', ~Idle, ~Idle',
         UNCHANGED <<conn, workerId, raced, orphaned>>, UNCHANGED control,
         lpc' \notin {"none", "start"} => loggerConn' = IF lpc = "start" THEN conn ELSE loggerConn,
         lpc' \notin {"none", "start"} => lpc # "none"
  PROVE  StreamInv'
<1>1. StartWaits' = StartWaits /\ apc' = apc
  BY WaitsSame DEF control
<1>2. WorkerKnown' /\ ReasonOK'
  BY <1>1 DEF StreamInv, WorkerKnown, ReasonOK, Idle
<1>3. ASSUME ~raced, Exclusive PROVE ClaimOK' /\ ReadyOK' /\ LoggerServesClaimant'
  <2>1. conn # NoConn /\ ~StartWaits
    BY <1>3 DEF Exclusive, ClaimOK
  <2>2. apc' # "thread"
    BY <1>1, <2>1 DEF StartWaits, InAction
  <2>3. LoggerServesClaimant'
    BY <1>3, <2>1 DEF Exclusive, LoggerServesClaimant
  <2> QED
    BY <1>1, <2>1, <2>2, <2>3 DEF ClaimOK, ReadyOK
<1> QED
  BY <1>2, <1>3, ThreadsKeep

LEMMA WorkerTurn ==
  ASSUME Worker, wpc \notin {"release", "clearId"}
  PROVE  /\ ~Idle /\ ~Idle'
         /\ lpc' \notin {"none", "start"} => lpc' = lpc
BY DEF Worker, Idle, WorkerBegin, WorkerMap, WorkerSpawn, WorkerLoop, WorkerCallWait,
       WorkerIrq, WorkerCancelled, WorkerTakeEmpty, WorkerFill, WorkerPostFull,
       WorkerDmaDone, WorkerExit, WorkerTerminateLogger, WorkerWakeLogger, WorkerJoin,
       WorkerRelease, WorkerEnd, logger

LEMMA WorkerStepKeeps == ASSUME StreamInv, WorkerStep PROVE StreamInv'
<1>1. CASE WorkerClearsConn \/ WorkerClearsId
  BY <1>1, WorkerClearsKeeps
<1>2. CASE /\ wpc \notin {"release", "clearId"}
           /\ Worker
           /\ loggerConn' = IF lpc' = "none" THEN NoConn ELSE loggerConn
           /\ UNCHANGED <<conn, workerId, control, history>>
  <2>1. /\ ~Idle /\ ~Idle' /\ ThreadsOK'
        /\ lpc' \notin {"none", "start"} => lpc' = lpc
    BY <1>2, WorkerTurn, ThreadsStep DEF StreamInv
  <2>2. /\ UNCHANGED <<conn, workerId, raced, orphaned>> /\ UNCHANGED control
        /\ lpc' \notin {"none", "start"} => loggerConn' = loggerConn
    BY <1>2 DEF history
  <2> QED
    BY <2>1, <2>2, BusyKeeps
<1> QED
  BY <1>1, <1>2 DEF WorkerStep

\* The logger reads the claim when it begins, and keeps what it read.
LEMMA LoggerStepKeeps == ASSUME StreamInv, LoggerStep PROVE StreamInv'
<1>1. Logger
  BY DEF LoggerStep, LoggerReadsConn, Logger
<1>2. /\ lpc # "none" /\ wpc' = wpc
      /\ UNCHANGED <<conn, workerId, raced, orphaned>> /\ UNCHANGED control
      /\ loggerConn' = IF lpc = "start" THEN conn ELSE loggerConn
  BY DEF LoggerStep, LoggerReadsConn, Logger, LoggerBegin, LoggerTest, LoggerTimeout,
         LoggerTakeFull, LoggerLock, LoggerSent, LoggerGiveEmpty, LoggerEpipe,
         LoggerCancelIrq, LoggerGiveUp, worker, claim, history
<1>3. ThreadsOK' /\ ~Idle /\ ~Idle'
  BY <1>1, <1>2, ThreadsStep DEF StreamInv, ThreadsOK, Working, Idle
<1> QED
  BY <1>2, <1>3, BusyKeeps

\* The driver, a signal and a cancel disturb no stream that is being set up.
LEMMA OutsideKeeps == ASSUME StreamInv, DriverStep \/ Shutdown PROVE StreamInv'
<1>1. /\ UNCHANGED <<conn, workerId, loggerConn, raced, orphaned>> /\ UNCHANGED control
      /\ Produce \/ Signal \/ Cancel
  BY DEF DriverStep, Shutdown, claim, history
<1>2. ThreadsOK'
  BY <1>1, ThreadsStep DEF StreamInv
<1>3. /\ Resized' = Resized
      /\ \/ wpc' = wpc
         \/ wpc \in {"copy", "wait"} /\ wpc' \in {"lock", "exit"}
      /\ lpc' = lpc \/ (lpc = "timedwait" /\ lpc' = "exited")
  BY <1>1 DEF Produce, Signal, Cancel, worker, logger, driver, Resized
<1>4. CASE Idle
  <2>1. wpc' = wpc /\ lpc' = lpc
    BY <1>3, <1>4 DEF Idle, StreamInv, ThreadsOK, Working
  <2>2. WorkerKnown' /\ ReasonOK' /\ Idle'
    BY <1>1, <1>4, <2>1, WaitsSame DEF StreamInv, WorkerKnown, ReasonOK, Idle, control
  <2>3. ~raced /\ Exclusive => ClaimOK' /\ ReadyOK' /\ LoggerServesClaimant'
    BY <1>1, <1>3, <1>4, <2>1, <2>2, WaitsSame
       DEF Exclusive, ClaimOK, ReadyOK, LoggerServesClaimant, control
  <2> QED
    BY <1>1, <1>2, <2>2, <2>3, ThreadsKeep
<1>5. CASE ~Idle
  <2>1. ~Idle'
    BY <1>3, <1>5 DEF Idle
  <2>2. lpc' \notin {"none", "start"} => lpc \notin {"none", "start"}
    BY <1>3
  <2> QED
    BY <1>1, <1>2, <1>5, <2>1, <2>2, BusyKeeps
<1> QED
  BY <1>4, <1>5

-----------------------------------------------------------------------------
\* Nothing is claimed, queued or running at the start.
LEMMA StreamInvInit == StreamInit => StreamInv
<1> SUFFICES ASSUME StreamInit PROVE StreamInv
  OBVIOUS
<1>1. /\ wpc = "none" /\ lpc = "none" /\ conn = NoConn /\ workerId = -1
      /\ parsing = [r \in Receivers |-> Idling] /\ actions = <<>> /\ apc = "idle"
  BY DEF StreamInit, Init
<1>2. \A r \in Receivers : parsing[r].at = "idle"
  BY <1>1 DEF Idling
<1>3. StreamTypes
  BY <1>1, <1>2, EmptySeq DEF StreamTypes, Idling
<1>4. ThreadsOK /\ Idle
  BY <1>1 DEF ThreadsOK, Working, Idle
<1>5. DOMAIN actions = {}
  BY <1>1
<1>6. ~StartWaits /\ OneQueued
  BY <1>1, <1>2, <1>5 DEF StartWaits, Built, InQueue, InAction, OneQueued
<1>7. Exclusive
  BY <1>1, <1>2, <1>4, <1>6 DEF Exclusive, CheckedOK, OneStart, StartWaits, Built, ClaimOK,
                                ReadyOK, LoggerServesClaimant
<1> QED
  BY <1>1, <1>3, <1>4, <1>7 DEF StreamInv, WorkerKnown, ReasonOK

LEMMA StreamInvStep == StreamInv /\ [StreamNext]_allVars => StreamInv'
<1> SUFFICES ASSUME StreamInv, [StreamNext]_allVars PROVE StreamInv'
  OBVIOUS
<1>1. CASE \E r \in Receivers : Receive(r)
  BY <1>1, CheckFreeKeeps, TakeClaimKeeps, QueueStartKeeps, DropStartKeeps, QueueOtherKeeps
     DEF Receive
<1>2. CASE Act
  BY <1>2, GoStopKeeps, GoStartKeeps, GoQuietlyKeeps, GoThreadKeeps, GoFailsKeeps DEF Act
<1>3. CASE WorkerStep \/ LoggerStep \/ DriverStep \/ Shutdown
  BY <1>3, WorkerStepKeeps, LoggerStepKeeps, OutsideKeeps
<1>4. CASE UNCHANGED allVars
  <2>1. UNCHANGED vars /\ UNCHANGED <<conn, workerId, loggerConn, raced, orphaned>>
        /\ UNCHANGED control
    BY <1>4 DEF allVars, claim, history
  <2>2. ThreadsOK' /\ Idle' = Idle /\ Resized' = Resized /\ wpc' = wpc /\ lpc' = lpc
    BY <2>1, PipelineFrame DEF StreamInv
  <2>3. StartWaits' = StartWaits /\ apc' = apc
    BY <2>1, WaitsSame DEF control
  <2>4. WorkerKnown' /\ ReasonOK'
    BY <2>1, <2>2, <2>3 DEF StreamInv, WorkerKnown, ReasonOK
  <2>5. ~raced /\ Exclusive => ClaimOK' /\ ReadyOK' /\ LoggerServesClaimant'
    BY <2>1, <2>2, <2>3 DEF Exclusive, ClaimOK, ReadyOK, LoggerServesClaimant
  <2> QED
    BY <2>1, <2>2, <2>4, <2>5, ThreadsKeep
<1> QED
  BY <1>1, <1>2, <1>3, <1>4 DEF StreamNext

\* The inductive invariant holds throughout.
THEOREM StreamInvariant == StreamSpec => []StreamInv
BY StreamInvInit, StreamInvStep, PTL DEF StreamSpec

\* Unless two receivers passed the constructor's test at once, or a start carried no
\* connection id, StreamStart::Go finds the ring unused.
THEOREM StreamsApart == StreamSpec => []StreamsDoNotOverlap
<1>1. StreamInv => StreamsDoNotOverlap
  BY DEF StreamInv, Exclusive, ClaimOK, StartWaits, InAction, StreamsDoNotOverlap
<1> QED
  BY <1>1, StreamInvariant, PTL

\* log_main sends to the connection that holds the claim, and to no other.
THEOREM LoggerServes == StreamSpec => []LoggerServesClaimant
<1>1. StreamInv => LoggerServesClaimant
  BY DEF StreamInv, Exclusive, LoggerServesClaimant
<1> QED
  BY <1>1, StreamInvariant, PTL

\* A claim that is held is held by a start under way or a worker, unless the start it
\* was taken for came to nothing; whatever the receivers do.
THEOREM ClaimReason == StreamSpec => []ClaimHasReason
<1>1. StreamInv => ClaimHasReason
  <2> SUFFICES ASSUME StreamInv, StartWaits PROVE Starting
    BY DEF StreamInv, ReasonOK, ClaimHasReason, Idle
  <2> QED
    BY DEF StartWaits, Built, InQueue, InAction, Starting
<1> QED
  BY <1>1, StreamInvariant, PTL

\* What a step of the streams is to the worker: a new one comes from StreamStart::Go.
LEMMA WorkerFromGo ==
  ASSUME StreamInv, [StreamNext]_allVars, wpc' = "start", wpc # "start"
  PROVE  GoThread /\ workerId = -1 /\ StartWorker
<1>1. CASE \E r \in Receivers : Receive(r)
  <2>1. UNCHANGED vars
    BY <1>1 DEF Receive, CheckFree, TakeClaim, QueueStart, DropStart, QueueEmptyStart, QueueStop
  <2> QED
    BY <2>1 DEF vars, worker
<1>2. CASE GoStop \/ GoStart \/ GoSize \/ GoId \/ GoDma \/ GoFails \/ UNCHANGED allVars
  <2>1. wpc' = wpc
    BY <1>2 DEF GoStop, GoStart, GoSize, GoId, GoDma, GoFails, Cancel, Resize, DmaStart,
                vars, allVars, worker
  <2> QED
    BY <2>1
<1>3. CASE GoThread
  <2>1. ~UNCHANGED vars
    BY DEF vars, worker
  <2> QED
    BY <1>3, <2>1 DEF GoThread
<1>4. CASE WorkerStep
  <2>1. Worker
    BY <1>4 DEF WorkerStep, WorkerClearsConn, WorkerClearsId, Worker
  <2>2. wpc' # "start"
    BY <2>1 DEF Worker, WorkerBegin, WorkerMap, WorkerSpawn, WorkerLoop, WorkerCallWait,
       WorkerIrq, WorkerCancelled, WorkerTakeEmpty, WorkerFill, WorkerPostFull,
       WorkerDmaDone, WorkerExit, WorkerTerminateLogger, WorkerWakeLogger, WorkerJoin,
       WorkerRelease, WorkerEnd
  <2> QED
    BY <2>2
<1>5. CASE LoggerStep
  <2>1. wpc' = wpc
    BY <1>5 DEF LoggerStep, LoggerReadsConn, Logger, LoggerBegin, LoggerTest, LoggerTimeout,
         LoggerTakeFull, LoggerLock, LoggerSent, LoggerGiveEmpty, LoggerEpipe,
         LoggerCancelIrq, LoggerGiveUp, worker
  <2> QED
    BY <2>1
<1>6. CASE DriverStep \/ Shutdown
  BY <1>6 DEF DriverStep, Shutdown, Produce, Signal, Cancel, worker
<1> QED
  BY <1>1, <1>2, <1>3, <1>4, <1>5, <1>6 DEF StreamNext, Act

\* pthread_create of worker_main finds the last worker ended and its logger joined,
\* whatever the receivers do.
THEOREM OneWorker == StreamSpec => OneWorkerAtATime
<1>1. StreamInv /\ [StreamNext]_allVars =>
        [wpc' = "start" /\ wpc # "start" => wpc = "none" /\ lpc = "none"]_allVars
  <2> SUFFICES ASSUME StreamInv, [StreamNext]_allVars, wpc' = "start", wpc # "start"
               PROVE  wpc = "none" /\ lpc = "none"
    OBVIOUS
  <2>1. wpc = "none"
    BY WorkerFromGo DEF GoThread, StreamInv, WorkerKnown
  <2> QED
    BY <2>1 DEF StreamInv, ThreadsOK, Working
<1> QED
  BY <1>1, StreamInvariant, PTL DEF StreamSpec, OneWorkerAtATime

-----------------------------------------------------------------------------
\* A step of the streams is a step of the pipeline and of the environment that
\* AdcPipeline allows it.
LEMMA PipelineStep ==
  ASSUME StreamInv, ~raced, [StreamNext]_allVars PROVE [Next]_vars
<1> USE DEF Next, Environment
<1>1. CASE \E r \in Receivers : Receive(r)
  BY <1>1 DEF Receive, CheckFree, TakeClaim, QueueStart, DropStart, QueueEmptyStart, QueueStop
<1>2. CASE GoStop \/ GoStart \/ GoId \/ GoDma \/ GoFails \/ UNCHANGED allVars
  <2>1. Cancel \/ DmaStart \/ UNCHANGED vars
    BY <1>2 DEF GoStop, GoStart, GoId, GoDma, GoFails, allVars
  <2> QED
    BY <2>1
<1>3. CASE GoSize
  <2>1. Resize /\ Idle
    BY <1>3 DEF GoSize, StreamInv, Exclusive, ClaimOK, StartWaits, InAction
  <2> QED
    BY <2>1
<1>4. CASE GoThread
  <2>1. apc = "thread" /\ Resized
    BY <1>4 DEF GoThread, StreamInv, Exclusive, ReadyOK
  <2>2. workerId = -1 => wpc = "none"
    BY <2>1 DEF StreamInv, WorkerKnown
  <2>3. UNCHANGED vars \/ (workerId = -1 /\ StartWorker)
    BY <1>4 DEF GoThread
  <2> QED
    BY <2>1, <2>2, <2>3
<1>5. CASE WorkerStep
  <2>1. Worker
    BY <1>5 DEF WorkerStep, WorkerClearsConn, WorkerClearsId, Worker
  <2> QED
    BY <2>1
<1>6. CASE LoggerStep
  <2>1. Logger
    BY <1>6 DEF LoggerStep, LoggerReadsConn, Logger
  <2> QED
    BY <2>1
<1>7. CASE DriverStep \/ Shutdown
  <2>1. Produce \/ Signal \/ Cancel
    BY <1>7 DEF DriverStep, Shutdown
  <2> QED
    BY <2>1
<1> QED
  BY <1>1, <1>2, <1>3, <1>4, <1>5, <1>6, <1>7 DEF StreamNext, Act

\* Clients, receivers and the ActionThread implement the environment that AdcPipeline
\* assumes, up to the first raced start.
THEOREM StreamsUsePipeline == StreamSpec => PipelineSpec
<1>1. StreamInit => Init
  BY DEF StreamInit
<1>2. StreamInv /\ [StreamNext]_allVars => [raced \/ Next]_vars
  BY PipelineStep
<1> QED
  BY <1>1, <1>2, StreamInvariant, PTL DEF StreamSpec, PipelineSpec

\* A raced start stays in the history.
LEMMA RacedStays == [StreamNext]_allVars => (raced => raced')
<1> SUFFICES ASSUME [StreamNext]_allVars, raced PROVE raced'
  OBVIOUS
<1>1. CASE \E r \in Receivers : Receive(r)
  BY <1>1 DEF Receive, CheckFree, TakeClaim, QueueStart, DropStart, QueueEmptyStart,
              QueueStop, history
<1>2. CASE Act
  BY <1>2 DEF Act, GoStop, GoStart, GoSize, GoThread, GoId, GoDma, GoFails, history
<1>3. CASE WorkerStep \/ LoggerStep \/ DriverStep \/ Shutdown \/ UNCHANGED allVars
  BY <1>3 DEF WorkerStep, WorkerClearsConn, WorkerClearsId, LoggerStep, LoggerReadsConn,
              DriverStep, Shutdown, history, allVars
<1> QED
  BY <1>1, <1>2, <1>3 DEF StreamNext

\* So the pipeline's inductive invariant, and with it the accounting of the semaphores
\* and the order of the blocks, holds of the ring as the clients drive it.
THEOREM StreamsKeepPipeline ==
  StreamSpec => [](raced \/ (TokenAccounting /\ UnsentBlocksIntact))
<1>1. StreamInit => raced \/ IInv
  BY IInvInit DEF StreamInit
<1>2. StreamInv /\ (raced \/ IInv) /\ [StreamNext]_allVars => (raced \/ IInv)'
  <2> SUFFICES ASSUME StreamInv, raced \/ IInv, [StreamNext]_allVars, ~raced'
               PROVE  IInv'
    OBVIOUS
  <2>1. ~raced
    BY RacedStays
  <2> QED
    BY <2>1, PipelineStep, IInvStep
<1>3. raced \/ IInv => raced \/ (TokenAccounting /\ UnsentBlocksIntact)
  BY DEF IInv
<1> QED
  BY <1>1, <1>2, <1>3, StreamInvariant, PTL DEF StreamSpec

=============================================================================
