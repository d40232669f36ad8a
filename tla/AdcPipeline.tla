------------------------------ MODULE AdcPipeline ------------------------------
(***************************************************************************)
(* The ADC streaming pipeline of adc.cpp: the worker thread (worker_main)  *)
(* copies DMA blocks from the driver's buffer into ring_buffer, the logger *)
(* thread (log_main) sends them to the ADC client; the semaphores `empty'  *)
(* and `full' and the mutex synchronise the two.                           *)
(*                                                                         *)
(* DMA blocks are numbered 1, 2, 3, ... in the order the hardware fills    *)
(* them; a ring slot holds the number of the block last copied into it.    *)
(* The mutex is held across a state change only by the logger, during      *)
(* send(): it is held exactly when lpc = "sending".  AdcStreamTerminate is *)
(* not a variable: the code assigns it in four places and reads it in none.*)
(*                                                                         *)
(* External: the APCI driver (DMA buffer, wait and cancel) and the kernel. *)
(***************************************************************************)
EXTENDS Integers

CONSTANTS
  Slots,          \* RING_BUFFER_SLOTS, also the initial value of `empty'
  MaxBlocks       \* bound: number of blocks the hardware produces

ASSUME SlotsAssumption == Slots \in Nat \ {0}
ASSUME MaxBlocksAssumption == MaxBlocks \in Nat

VARIABLES
  done,           \* process-wide flag `done'
  wpc,            \* where worker_main stands; "none": no such thread
  first, num, i,  \* its first_slot, num_slots and loop variable
  started,        \* its logger_started
  loggerId,       \* AdcLoggerThreadID
  loggerTerm,     \* AdcLoggerTerminate
  lpc,            \* where log_main stands; "none": no such thread
  rd,             \* its ring_read_index
  empty, full,    \* the semaphores' values
  ring,           \* ring_buffer
  dslot,          \* driver: slot of the oldest block not yet given back
  produced,       \* driver: number of the last block the hardware filled
  finished,       \* driver: number of the last block given back
  dmaOn,          \* driver: acquisition enabled
  cancelled,      \* driver: a cancel is pending for the waiter
  consumed,       \* history: number of the last block the logger is done with
  interrupted     \* history: a signal made the worker's sem_wait fail

driver == <<dslot, produced, finished, dmaOn>>
worker == <<wpc, first, num, i, started, loggerId>>
logger == <<lpc, rd, consumed>>
sems   == <<empty, full>>
vars   == <<done, worker, loggerTerm, logger, sems, ring, driver, cancelled,
            interrupted>>

WorkerPC == {"none", "start", "map", "spawn", "loop", "callwait", "wait",
             "copy", "lock", "post", "dmadone", "exit", "terminate", "wake",
             "join", "release", "clearId", "failed"}
LoggerPC == {"none", "start", "test", "timedwait", "lock", "sending", "give",
             "cancel", "giveup", "exited", "broken"}
Slot == 0 .. Slots - 1

\* FAULT (Wrap): an index that is never taken modulo the number of slots.
WrapForgotten(n) == n

\* Indices are below 2 * Slots, so that % RING_BUFFER_SLOTS is one subtraction.
Wrap(n) == IF n < Slots THEN n ELSE n - Slots

\* The block that lies in slot s of the DMA buffer: the oldest one not given
\* back is in dslot, the later ones in the slots that follow.
DmaBlock(s) == finished + 1 + (IF s >= dslot THEN s - dslot ELSE s + Slots - dslot)

\* The last block copied into the ring.
Copied == finished + (IF wpc \in {"post", "dmadone"} THEN 1 ELSE 0)

TypeOK ==
  /\ done \in BOOLEAN
  /\ wpc \in WorkerPC /\ lpc \in LoggerPC
  /\ first \in Slot /\ num \in 0 .. Slots /\ i \in 0 .. Slots
  /\ started \in BOOLEAN
  /\ loggerId \in {-1, 0}
  /\ loggerTerm \in BOOLEAN
  /\ rd \in Slot
  /\ empty \in Nat /\ full \in Nat
  /\ ring \in [Slot -> Nat]
  /\ dslot \in Slot
  /\ produced \in Nat /\ finished \in Nat
  /\ dmaOn \in BOOLEAN
  /\ cancelled \in BOOLEAN
  /\ consumed \in Nat
  /\ interrupted \in BOOLEAN

Init ==
  /\ done = FALSE
  /\ wpc = "none" /\ first = 0 /\ num = 0 /\ i = 0 /\ started = FALSE
  /\ loggerId = -1 /\ loggerTerm = FALSE
  /\ lpc = "none" /\ rd = 0
  /\ empty = 0 /\ full = 0
  /\ ring = [s \in Slot |-> 0]
  /\ dslot = 0 /\ produced = 0 /\ finished = 0 /\ dmaOn = FALSE
  /\ cancelled = FALSE
  /\ consumed = 0
  /\ interrupted = FALSE

-----------------------------------------------------------------------------
(* The driver and the threads that call it.                                *)

\* The hardware fills the next slot, unless the worker is a whole buffer
\* behind: then the driver discards.
Produce ==
  /\ dmaOn /\ produced < MaxBlocks /\ produced - finished < Slots
  /\ produced' = produced + 1
  /\ UNCHANGED <<done, worker, loggerTerm, logger, sems, ring, dslot, finished,
                 dmaOn, cancelled, interrupted>>

\* apci_cancel_irq: it takes effect if the worker waits; the driver may or may not
\* remember it if nobody waits.
CancelIrq ==
  \E remembered \in BOOLEAN : cancelled' = (cancelled \/ wpc = "wait" \/ remembered)

\* apci_dma_transfer_size: the driver starts again with an empty buffer.
Resize ==
  /\ dslot' = 0 /\ finished' = produced /\ consumed' = produced
  /\ UNCHANGED <<done, worker, loggerTerm, lpc, rd, sems, ring, produced, dmaOn,
                 cancelled, interrupted>>

\* pthread_create of worker_main.
StartWorker ==
  /\ wpc' = "start"
  /\ UNCHANGED <<done, first, num, i, started, loggerId, loggerTerm, logger, sems,
                 ring, driver, cancelled, interrupted>>

\* apciDmaStart.
DmaStart ==
  /\ dmaOn' = TRUE
  /\ UNCHANGED <<done, worker, loggerTerm, logger, sems, ring, dslot, produced,
                 finished, cancelled, interrupted>>

\* Another thread cancels the wait: StreamStop, or exit_handler.
Cancel ==
  /\ CancelIrq
  /\ UNCHANGED <<done, worker, loggerTerm, logger, sems, ring, driver, interrupted>>

\* SIGINT, SIGTERM or SIGABRT: abort_handler runs on some thread.  Without
\* SA_RESTART a blocked sem_wait or sem_timedwait of that thread then fails
\* with EINTR: the worker goes on without a token, the logger leaves its loop.
Signal ==
  /\ done' = TRUE
  /\ \/ UNCHANGED <<wpc, lpc, loggerTerm, interrupted>>
     \/ /\ wpc = "copy" /\ empty = 0
        /\ wpc' = "lock" /\ interrupted' = TRUE
        /\ UNCHANGED <<lpc, loggerTerm>>
     \/ /\ wpc = "wait"
        /\ wpc' = "exit" /\ loggerTerm' = TRUE
        /\ UNCHANGED <<lpc, interrupted>>
     \/ /\ lpc = "timedwait" /\ full = 0
        /\ lpc' = "exited"
        /\ UNCHANGED <<wpc, loggerTerm, interrupted>>
  /\ UNCHANGED <<first, num, i, started, loggerId, rd, consumed, sems, ring, driver,
                 cancelled>>

-----------------------------------------------------------------------------
(* worker_main.                                                            *)

\* FAULT (WorkerBegin): `empty' starts with one token too many.
WorkerBeginOneTooMany ==
  /\ wpc = "start"
  /\ wpc' = "map"
  /\ done' = FALSE
  /\ empty' = Slots + 1 /\ full' = 0
  /\ interrupted' = FALSE
  /\ UNCHANGED <<first, num, i, started, loggerId, loggerTerm, logger, ring, driver,
                 cancelled>>

\* `done = 0', then the semaphores and the mutex are initialised.
WorkerBegin ==
  /\ wpc = "start"
  /\ wpc' = "map"
  /\ done' = FALSE
  /\ empty' = Slots /\ full' = 0
  /\ interrupted' = FALSE
  /\ UNCHANGED <<first, num, i, started, loggerId, loggerTerm, logger, ring, driver,
                 cancelled>>

\* mmap; when it fails the thread returns and resets none of its globals.
WorkerMap ==
  /\ wpc = "map"
  /\ wpc' \in {"spawn", "failed"}
  /\ started' = FALSE
  /\ UNCHANGED <<done, first, num, i, loggerId, loggerTerm, logger, sems, ring, driver,
                 cancelled, interrupted>>

\* Start the logger thread, if none is known; pthread_create may fail.
WorkerSpawn ==
  /\ wpc = "spawn"
  /\ wpc' = "loop"
  /\ \/ /\ loggerId = -1
        /\ loggerTerm' = FALSE
        /\ \/ started' = TRUE /\ lpc' = "start" /\ loggerId' = 0
           \/ UNCHANGED <<started, lpc, loggerId>>
     \/ /\ loggerId # -1
        /\ UNCHANGED <<loggerTerm, started, lpc, loggerId>>
  /\ UNCHANGED <<done, first, num, i, rd, consumed, sems, ring, driver, cancelled,
                 interrupted>>

\* The head of the main loop and apci_dma_data_ready.
WorkerLoop ==
  /\ wpc = "loop"
  /\ \/ done /\ wpc' = "exit" /\ UNCHANGED <<first, num, i>>
     \/ /\ ~done
        /\ first' = dslot /\ num' = produced - finished /\ i' = 0
        /\ wpc' = IF num' = 0 THEN "callwait" ELSE "copy"
  /\ UNCHANGED <<done, started, loggerId, loggerTerm, logger, sems, ring, driver,
                 cancelled, interrupted>>

\* apci_wait_for_irq is entered.
WorkerCallWait ==
  /\ wpc = "callwait"
  /\ wpc' = "wait"
  /\ UNCHANGED <<done, first, num, i, started, loggerId, loggerTerm, logger, sems,
                 ring, driver, cancelled, interrupted>>

\* It returns 0: a block was completed.
WorkerIrq ==
  /\ wpc = "wait" /\ ~cancelled /\ produced > finished
  /\ wpc' = "loop"
  /\ UNCHANGED <<done, first, num, i, started, loggerId, loggerTerm, logger, sems,
                 ring, driver, cancelled, interrupted>>

\* FAULT (WorkerCancelled): the loop is not left.
WorkerCancelledContinues ==
  /\ wpc = "wait" /\ cancelled
  /\ wpc' = "loop"
  /\ cancelled' = FALSE
  /\ loggerTerm' = TRUE
  /\ UNCHANGED <<done, first, num, i, started, loggerId, logger, sems, ring, driver,
                 interrupted>>

\* It returns ECANCELED: the logger is told to end and the loop is left.
WorkerCancelled ==
  /\ wpc = "wait" /\ cancelled
  /\ wpc' = "exit"
  /\ cancelled' = FALSE
  /\ loggerTerm' = TRUE
  /\ UNCHANGED <<done, first, num, i, started, loggerId, logger, sems, ring, driver,
                 interrupted>>

\* sem_wait(&empty)
WorkerTakeEmpty ==
  /\ wpc = "copy" /\ empty > 0
  /\ wpc' = "lock"
  /\ empty' = empty - 1
  /\ UNCHANGED <<done, first, num, i, started, loggerId, loggerTerm, logger, full,
                 ring, driver, cancelled, interrupted>>

\* Copy one block, under the mutex.
WorkerFill ==
  /\ wpc = "lock" /\ lpc # "sending"
  /\ wpc' = "post"
  /\ ring' = [ring EXCEPT ![Wrap(first + i)] = DmaBlock(Wrap(first + i))]
  /\ UNCHANGED <<done, first, num, i, started, loggerId, loggerTerm, logger, sems,
                 driver, cancelled, interrupted>>

\* FAULT (WorkerPostFull): the logger is not told of the block.
WorkerPostFullForgotten ==
  /\ wpc = "post"
  /\ wpc' = "dmadone"
  /\ UNCHANGED <<done, first, num, i, started, loggerId, loggerTerm, logger, sems,
                 ring, driver, cancelled, interrupted>>

\* sem_post(&full)
WorkerPostFull ==
  /\ wpc = "post"
  /\ wpc' = "dmadone"
  /\ full' = full + 1
  /\ UNCHANGED <<done, first, num, i, started, loggerId, loggerTerm, logger, empty,
                 ring, driver, cancelled, interrupted>>

\* FAULT (WorkerDmaDone): the loop takes one block more than were ready.
WorkerDmaDoneOneTooMany ==
  /\ wpc = "dmadone"
  /\ \/ finished < produced /\ finished' = finished + 1 /\ dslot' = Wrap(dslot + 1)
     \/ finished >= produced /\ UNCHANGED <<finished, dslot>>
  /\ i' = i + 1
  /\ wpc' = IF i' > num THEN "loop" ELSE "copy"
  /\ UNCHANGED <<done, first, num, started, loggerId, loggerTerm, logger, sems, ring,
                 produced, dmaOn, cancelled, interrupted>>

\* apci_dma_data_done: one block is given back (the driver gives back none when
\* none is out); then the next one of the num that were ready, if any.
WorkerDmaDone ==
  /\ wpc = "dmadone"
  /\ \/ finished < produced /\ finished' = finished + 1 /\ dslot' = Wrap(dslot + 1)
     \/ finished >= produced /\ UNCHANGED <<finished, dslot>>
  /\ i' = i + 1
  /\ wpc' = IF i' = num THEN "loop" ELSE "copy"
  /\ UNCHANGED <<done, first, num, started, loggerId, loggerTerm, logger, sems, ring,
                 produced, dmaOn, cancelled, interrupted>>

\* apci_write8(..., 0x12, 0): acquisition off.
WorkerExit ==
  /\ wpc = "exit"
  /\ wpc' = "terminate"
  /\ dmaOn' = FALSE
  /\ UNCHANGED <<done, first, num, i, started, loggerId, loggerTerm, logger, sems,
                 ring, dslot, produced, finished, cancelled, interrupted>>

\* FAULT (WorkerTerminateLogger): the logger is not told to end.
WorkerTerminateLoggerForgotten ==
  /\ wpc = "terminate"
  /\ wpc' = "wake"
  /\ UNCHANGED <<done, first, num, i, started, loggerId, loggerTerm, logger, sems,
                 ring, driver, cancelled, interrupted>>

\* AdcLoggerTerminate = 1
WorkerTerminateLogger ==
  /\ wpc = "terminate"
  /\ wpc' = "wake"
  /\ loggerTerm' = TRUE
  /\ UNCHANGED <<done, first, num, i, started, loggerId, logger, sems, ring, driver,
                 cancelled, interrupted>>

\* sem_post(&full), to wake the logger
WorkerWakeLogger ==
  /\ wpc = "wake"
  /\ wpc' = "join"
  /\ full' = full + 1
  /\ UNCHANGED <<done, first, num, i, started, loggerId, loggerTerm, logger, empty,
                 ring, driver, cancelled, interrupted>>

\* Join the logger, if this worker started it.
WorkerJoin ==
  /\ wpc = "join"
  /\ wpc' = "release"
  /\ \/ /\ started /\ lpc \in {"exited", "broken"}
        /\ lpc' = "none" /\ started' = FALSE /\ loggerId' = -1
     \/ ~started /\ UNCHANGED <<lpc, started, loggerId>>
  /\ UNCHANGED <<done, first, num, i, loggerTerm, rd, consumed, sems, ring, driver,
                 cancelled, interrupted>>

\* Mutex and semaphores destroyed, AdcStreamingConnection = -1.
WorkerRelease ==
  /\ wpc = "release"
  /\ wpc' = "clearId"
  /\ UNCHANGED <<done, first, num, i, started, loggerId, loggerTerm, logger, sems,
                 ring, driver, cancelled, interrupted>>

\* AdcWorkerThreadID = -1; the thread ends.
WorkerEnd ==
  /\ wpc = "clearId"
  /\ wpc' = "none"
  /\ UNCHANGED <<done, first, num, i, started, loggerId, loggerTerm, logger, sems,
                 ring, driver, cancelled, interrupted>>

Worker ==
  \/ WorkerBegin \/ WorkerMap \/ WorkerSpawn \/ WorkerLoop \/ WorkerCallWait
  \/ WorkerIrq \/ WorkerCancelled \/ WorkerTakeEmpty \/ WorkerFill
  \/ WorkerPostFull \/ WorkerDmaDone \/ WorkerExit \/ WorkerTerminateLogger
  \/ WorkerWakeLogger \/ WorkerJoin \/ WorkerRelease \/ WorkerEnd

\* FAULT (LoggerBegin): the read index of the last session is kept.
LoggerBeginKeepsIndex ==
  /\ lpc = "start"
  /\ lpc' = "test"
  /\ loggerTerm' = FALSE
  /\ UNCHANGED <<done, worker, rd, consumed, sems, ring, driver, cancelled, interrupted>>

-----------------------------------------------------------------------------
(* log_main.                                                               *)

LoggerBegin ==
  /\ lpc = "start"
  /\ lpc' = "test"
  /\ loggerTerm' = FALSE
  /\ rd' = 0
  /\ UNCHANGED <<done, worker, consumed, sems, ring, driver, cancelled, interrupted>>

\* while (!AdcLoggerTerminate)
LoggerTest ==
  /\ lpc = "test"
  /\ lpc' = IF loggerTerm THEN "exited" ELSE "timedwait"
  /\ UNCHANGED <<done, worker, loggerTerm, rd, consumed, sems, ring, driver, cancelled,
                 interrupted>>

\* sem_timedwait(&full) times out.
LoggerTimeout ==
  /\ lpc = "timedwait" /\ full = 0
  /\ lpc' = "test"
  /\ UNCHANGED <<done, worker, loggerTerm, rd, consumed, sems, ring, driver, cancelled,
                 interrupted>>

\* It succeeds.
LoggerTakeFull ==
  /\ lpc = "timedwait" /\ full > 0
  /\ lpc' = "lock"
  /\ full' = full - 1
  /\ UNCHANGED <<done, worker, loggerTerm, rd, consumed, empty, ring, driver, cancelled,
                 interrupted>>

\* The mutex is taken and send() starts on slot rd.
LoggerLock ==
  /\ lpc = "lock"
  /\ lpc' = "sending"
  /\ UNCHANGED <<done, worker, loggerTerm, rd, consumed, sems, ring, driver, cancelled,
                 interrupted>>

\* send() returns, with any result but EPIPE: the code tells none of them apart.
LoggerSent ==
  /\ lpc = "sending"
  /\ lpc' = "give"
  /\ UNCHANGED <<done, worker, loggerTerm, rd, consumed, sems, ring, driver, cancelled,
                 interrupted>>

\* FAULT (LoggerGiveEmpty): the slot is not given back.
LoggerGiveEmptyForgotten ==
  /\ lpc = "give"
  /\ lpc' = "test"
  /\ rd' = Wrap(rd + 1)
  /\ consumed' = consumed + 1
  /\ UNCHANGED <<done, worker, loggerTerm, sems, ring, driver, cancelled, interrupted>>

\* sem_post(&empty) and on to the next slot.
LoggerGiveEmpty ==
  /\ lpc = "give"
  /\ lpc' = "test"
  /\ empty' = empty + 1
  /\ rd' = Wrap(rd + 1)
  /\ consumed' = consumed + 1
  /\ UNCHANGED <<done, worker, loggerTerm, full, ring, driver, cancelled, interrupted>>

\* send() fails with EPIPE: the client is gone.
LoggerEpipe ==
  /\ lpc = "sending"
  /\ lpc' = "cancel"
  /\ UNCHANGED <<done, worker, loggerTerm, rd, consumed, sems, ring, driver, cancelled,
                 interrupted>>

LoggerCancelIrq ==
  /\ lpc = "cancel"
  /\ lpc' = "giveup"
  /\ CancelIrq
  /\ UNCHANGED <<done, worker, loggerTerm, rd, consumed, sems, ring, driver, interrupted>>

\* AdcLoggerTerminate = true; the loop ends at its next test.
LoggerGiveUp ==
  /\ lpc = "giveup"
  /\ lpc' = "broken"
  /\ loggerTerm' = TRUE
  /\ UNCHANGED <<done, worker, rd, consumed, sems, ring, driver, cancelled, interrupted>>

Logger ==
  \/ LoggerBegin \/ LoggerTest \/ LoggerTimeout \/ LoggerTakeFull \/ LoggerLock
  \/ LoggerSent \/ LoggerGiveEmpty \/ LoggerEpipe \/ LoggerCancelIrq
  \/ LoggerGiveUp

-----------------------------------------------------------------------------
\* The control side resizes the DMA buffer only while no worker uses the ring,
\* and always before it creates one (AdcStream says when it keeps to that).
Idle == wpc \in {"none", "clearId"}
Resized == dslot = 0 /\ consumed = finished

Environment ==
  \/ Idle /\ Resize
  \/ wpc = "none" /\ Resized /\ StartWorker
  \/ DmaStart
  \/ Cancel
  \/ Signal

Next == Worker \/ Logger \/ Produce \/ Environment

Spec == Init /\ [][Next]_vars

\* The two threads run, and the ADC client reads, so that send() returns.
Fairness == WF_vars(Worker) /\ WF_vars(Logger)

FairSpec == Spec /\ Fairness

-----------------------------------------------------------------------------
(* What the ring promises.                                                 *)

Bit(b) == IF b THEN 1 ELSE 0

\* The worker has initialised the semaphores and not yet joined the logger.
InSession == wpc \notin {"none", "start", "release", "clearId", "failed"}

\* The logger took a token from `full' and has not given one to `empty'; after
\* EPIPE it never will.
LoggerHolds == lpc \in {"lock", "sending", "give", "cancel", "giveup", "broken"}

\* The slot the logger reads next: it starts with slot 0.
NextRead == IF lpc \in {"none", "start"} THEN 0 ELSE rd

\* Each copied block that the logger is not done with has a token in `full', in
\* the logger's hands or about to be posted (the closing sem_post adds one that
\* stands for no block); every other slot has a token in `empty' or in the
\* worker's hands.
TokenAccounting ==
  InSession /\ ~interrupted =>
    /\ full + Bit(LoggerHolds) + Bit(wpc = "post") = Copied - consumed + Bit(wpc = "join")
    /\ empty + Bit(wpc = "lock") + (Copied - consumed) = Slots

\* No block is copied over one that is still to be sent: the blocks between the
\* last one sent and the last one copied lie, in order, in the slots that the
\* logger visits next.
UnsentBlocksIntact ==
  InSession /\ ~interrupted =>
    \A k \in consumed + 1 .. Copied : ring[Wrap(NextRead + k - consumed - 1)] = k

\* send() is called on the blocks in the order of acquisition, none twice and
\* none left out; one stale slot may be sent, after everything else, when the
\* worker wakes the logger up to end the session.
SendsInOrder ==
  lpc = "sending" /\ ~interrupted =>
    \/ ring[rd] = consumed + 1 /\ consumed < Copied
    \/ wpc = "join" /\ consumed = Copied

\* The worker takes no block out of the DMA buffer that the hardware has not
\* completed.
OnlyCompletedBlocks == Copied <= produced

\* A block copied into the ring is sent, unless the session is being closed or
\* its logger has ended.
EveryBlockSent ==
  \A k \in 1 .. MaxBlocks :
    k <= Copied /\ consumed < k
      ~> consumed >= k \/ loggerTerm \/ lpc \in {"none", "exited", "broken"}

\* A worker that waits for a free slot gets one, unless the logger has ended (or
\* never ran): only a dead logger blocks the worker for good.
SlotComesFree ==
  wpc = "copy" ~> wpc # "copy" \/ lpc \in {"none", "exited", "broken"}

\* A worker that has left its loop ends, with its logger, provided that the
\* logger is past the assignment with which it starts.
CloseCompletes == wpc = "exit" /\ lpc # "start" ~> wpc = "none"

InMainLoop == wpc \in {"loop", "callwait", "wait", "copy", "lock", "post", "dmadone"}
Sending    == lpc \in {"test", "timedwait", "lock", "sending", "give"}

\* Back at the head of its loop, the worker finds a further block ready.
NextBlockReady == wpc = "loop" /\ produced > finished

\* A cancel that is pending while the worker is in its loop and the logger in
\* its own ends the session, worker and logger, unless the client goes away
\* first or the server is told to shut down - or the source is ahead of the
\* worker: a cancel is seen in apci_wait_for_irq alone, which is called when no
\* block is ready (adc.cpp:126-131), and AdcStreamTerminate is read nowhere, so
\* that a worker that always finds a block is never stopped.
CancelEndsSession ==
  cancelled /\ InMainLoop /\ Sending
    ~> \/ wpc = "none"
       \/ lpc \in {"cancel", "giveup", "broken"}
       \/ done
       \/ NextBlockReady

\* "canceled" is not an error but we do want to close this thread (adc.cpp:135).
CanceledWorkerCloses == wpc = "wait" /\ cancelled ~> wpc = "none"

=============================================================================
