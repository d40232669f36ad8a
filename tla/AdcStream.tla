------------------------------- MODULE AdcStream -------------------------------
(***************************************************************************)
(* ADC streaming as the clients see it: the constructor of                 *)
(* TADC_StreamStart claims the stream for an ADC connection while a        *)
(* receiver thread still parses the message, the ActionThread later runs   *)
(* StreamStart::Go and StreamStop::Go, and the worker gives the claim up   *)
(* when it ends.  The pipeline itself is AdcPipeline: its worker, logger   *)
(* and driver steps are taken over unchanged, and where a step also reads  *)
(* or writes a global of this module the access is conjoined.              *)
(***************************************************************************)
EXTENDS AdcPipeline, Sequences

CONSTANTS
  Receivers,      \* receiver threads of the control connections
  Conns,          \* ids a client may name in StreamStart, other than -1
  NoConn,         \* -1: no connection
  MaxQueue,       \* bound: stream items waiting in the action queue
  Rejects,        \* may a message be rejected after its StreamStart was built?
  EmptyStarts     \* do clients send StreamStart without an id, or with id -1?

ASSUME ConnsAssumption == NoConn \notin Conns
ASSUME FlagsAssumption == Rejects \in BOOLEAN /\ EmptyStarts \in BOOLEAN

VARIABLES
  conn,           \* AdcStreamingConnection
  workerId,       \* AdcWorkerThreadID
  loggerConn,     \* log_main's copy of the connection, while it runs
  parsing,        \* what each receiver thread is doing with a StreamStart
  actions,        \* the action queue, restricted to the two stream items
  apc,            \* where the ActionThread stands in StreamStart::Go
  raced,          \* history: two receivers passed the test at once, or a start
                  \* that names no connection left the claim free
  orphaned        \* history: the start the claim was taken for made no worker

claim   == <<conn, workerId, loggerConn>>
control == <<parsing, actions, apc>>
history == <<raced, orphaned>>
allVars == <<vars, claim, control, history>>

Idling  == [at |-> "idle", conn |-> NoConn]

\* The constructor takes any integer for a connection id, and so -1.
Named == Conns \cup (IF EmptyStarts THEN {NoConn} ELSE {})

StreamTypeOK ==
  /\ TypeOK
  /\ conn \in Conns \cup {NoConn}
  /\ workerId \in {-1, 0}
  /\ loggerConn \in Conns \cup {NoConn}
  /\ parsing \in [Receivers -> [at : {"idle", "checked", "built"}, conn : Conns \cup {NoConn}]]
  /\ actions \in Seq({"start", "stop"}) /\ Len(actions) <= MaxQueue
  /\ apc \in {"idle", "size", "thread", "id", "dma"}
  /\ raced \in BOOLEAN /\ orphaned \in BOOLEAN

StreamInit ==
  /\ Init
  /\ conn = NoConn /\ workerId = -1 /\ loggerConn = NoConn
  /\ parsing = [r \in Receivers |-> Idling]
  /\ actions = <<>> /\ apc = "idle"
  /\ raced = FALSE /\ orphaned = FALSE

-----------------------------------------------------------------------------
(* Receiver threads: a StreamStart is built, then queued or dropped.       *)

Queue(item) == Len(actions) < MaxQueue /\ actions' = Append(actions, item)

\* Another receiver is between its test of the claim and its assignment.
OtherChecks(r) == \E q \in Receivers \ {r} : parsing[q].at = "checked"

\* FAULT (CheckFree): a stream that runs is not noticed.
CheckFreeForgotten(r) ==
  /\ parsing[r].at = "idle"
  /\ \E c \in Named : parsing' = [parsing EXCEPT ![r] = [at |-> "checked", conn |-> c]]
  /\ raced' = (raced \/ OtherChecks(r))
  /\ UNCHANGED <<vars, claim, actions, apc, orphaned>>

\* `if (AdcStreamingConnection == -1)'.  A client that finds the stream busy
\* gets an exception and an X reply, and nothing changes.
CheckFree(r) ==
  /\ parsing[r].at = "idle" /\ conn = NoConn
  /\ \E c \in Named : parsing' = [parsing EXCEPT ![r] = [at |-> "checked", conn |-> c]]
  /\ raced' = (raced \/ OtherChecks(r))
  /\ UNCHANGED <<vars, claim, actions, apc, orphaned>>

\* `AdcStreamingConnection = cid'; the id -1 leaves the stream free.
TakeClaim(r) ==
  /\ parsing[r].at = "checked"
  /\ conn' = parsing[r].conn
  /\ parsing' = [parsing EXCEPT ![r] = [at |-> "built", conn |-> NoConn]]
  /\ raced' = (raced \/ parsing[r].conn = NoConn)
  /\ orphaned' = FALSE
  /\ UNCHANGED <<vars, workerId, loggerConn, actions, apc>>

\* The rest of the message is sound: it is queued.
QueueStart(r) ==
  /\ parsing[r].at = "built"
  /\ Queue("start")
  /\ parsing' = [parsing EXCEPT ![r] = Idling]
  /\ UNCHANGED <<vars, claim, apc, history>>

\* A later item throws, or the checksum is wrong: the items are dropped.
DropStart(r) ==
  /\ Rejects /\ parsing[r].at = "built"
  /\ parsing' = [parsing EXCEPT ![r] = Idling]
  /\ orphaned' = (conn # NoConn)
  /\ UNCHANGED <<vars, claim, actions, apc, raced>>

\* A StreamStart with an empty payload claims nothing and is never busy.
QueueEmptyStart(r) ==
  /\ EmptyStarts /\ parsing[r].at = "idle"
  /\ Queue("start")
  /\ raced' = TRUE
  /\ UNCHANGED <<vars, claim, parsing, apc, orphaned>>

QueueStop(r) ==
  /\ parsing[r].at = "idle"
  /\ Queue("stop")
  /\ UNCHANGED <<vars, claim, parsing, apc, history>>

Receive(r) ==
  \/ CheckFree(r) \/ TakeClaim(r) \/ QueueStart(r) \/ DropStart(r)
  \/ QueueEmptyStart(r) \/ QueueStop(r)

-----------------------------------------------------------------------------
(* The ActionThread.                                                       *)

\* StreamStop::Go cancels the wait for interrupts of device 0, the worker waits
\* for those of device 1: whether that reaches it is the driver's affair.
GoStop ==
  /\ apc = "idle" /\ actions # <<>> /\ Head(actions) = "stop"
  /\ actions' = Tail(actions)
  /\ Cancel \/ UNCHANGED vars
  /\ UNCHANGED <<claim, parsing, apc, history>>

GoStart ==
  /\ apc = "idle" /\ actions # <<>> /\ Head(actions) = "start"
  /\ actions' = Tail(actions)
  /\ apc' = "size"
  /\ UNCHANGED <<vars, claim, parsing, history>>

\* apciDmaTransferSize
GoSize ==
  /\ apc = "size"
  /\ Resize
  /\ apc' = "thread"
  /\ UNCHANGED <<claim, parsing, actions, history>>

\* FAULT (GoThread): a worker is created whether or not one is known.
GoThreadUnchecked ==
  /\ apc = "thread"
  /\ StartWorker /\ apc' = "id"
  /\ UNCHANGED <<claim, parsing, actions, history>>

\* if (AdcWorkerThreadID == -1) pthread_create; else straight to apciDmaStart.
GoThread ==
  /\ apc = "thread"
  /\ \/ workerId = -1 /\ StartWorker /\ apc' = "id"
        /\ UNCHANGED orphaned
     \/ workerId # -1 /\ apc' = "dma" /\ orphaned' = (conn # NoConn) /\ UNCHANGED vars
  /\ UNCHANGED <<claim, parsing, actions, raced>>

\* AdcWorkerThreadID = 0
GoId ==
  /\ apc = "id"
  /\ workerId' = 0
  /\ apc' = "dma"
  /\ UNCHANGED <<vars, conn, loggerConn, parsing, actions, history>>

\* apciDmaStart
GoDma ==
  /\ apc = "dma"
  /\ DmaStart
  /\ apc' = "idle"
  /\ UNCHANGED <<claim, parsing, actions, history>>

\* apciDmaTransferSize or pthread_create fails: Go throws, nothing is undone.
GoFails ==
  /\ Rejects
  /\ \/ apc = "size"
     \/ apc = "thread" /\ workerId = -1
  /\ apc' = "idle"
  /\ orphaned' = (conn # NoConn)
  /\ UNCHANGED <<vars, claim, parsing, actions, raced>>

Act == GoStop \/ GoStart \/ GoSize \/ GoThread \/ GoId \/ GoDma \/ GoFails

-----------------------------------------------------------------------------
(* The pipeline's threads, with the globals above.                         *)

\* FAULT (WorkerClearsConn): the claim is kept.
WorkerClearsConnForgotten ==
  /\ WorkerRelease
  /\ UNCHANGED <<claim, control, history>>

WorkerClearsConn ==
  /\ WorkerRelease
  /\ conn' = NoConn
  /\ orphaned' = FALSE
  /\ UNCHANGED <<workerId, loggerConn, control, raced>>

WorkerClearsId ==
  /\ WorkerEnd
  /\ workerId' = -1
  /\ UNCHANGED <<conn, loggerConn, control, history>>

WorkerStep ==
  \/ WorkerClearsConn
  \/ WorkerClearsId
  \/ /\ wpc \notin {"release", "clearId"}
     /\ Worker
     /\ loggerConn' = IF lpc' = "none" THEN NoConn ELSE loggerConn
     /\ UNCHANGED <<conn, workerId, control, history>>

\* `int conn = *(int *)arg', where arg is the address of AdcStreamingConnection.
LoggerReadsConn ==
  /\ LoggerBegin
  /\ loggerConn' = conn
  /\ UNCHANGED <<conn, workerId, control, history>>

LoggerStep ==
  \/ LoggerReadsConn
  \/ /\ lpc # "start"
     /\ Logger
     /\ UNCHANGED <<claim, control, history>>

DriverStep == Produce /\ UNCHANGED <<claim, control, history>>

\* A signal, and the cancel with which exit_handler begins.
Shutdown ==
  /\ \/ Signal
     \/ done /\ Cancel
  /\ UNCHANGED <<claim, control, history>>

StreamNext ==
  \/ \E r \in Receivers : Receive(r)
  \/ Act
  \/ WorkerStep
  \/ LoggerStep
  \/ DriverStep
  \/ Shutdown

StreamSpec == StreamInit /\ [][StreamNext]_allVars

-----------------------------------------------------------------------------
(* What the claim promises.                                                *)

Starting == \/ \E r \in Receivers : parsing[r].at # "idle"
            \/ \E k \in DOMAIN actions : actions[k] = "start"
            \/ apc # "idle"

\* The DMA buffer is set up, and a worker created, only while no worker of an
\* earlier stream uses the ring: the claim is what keeps streams apart, as long
\* as it was tested and taken by one receiver at a time and every start took it.
StreamsDoNotOverlap == apc = "size" => Idle \/ raced

\* Until then the clients and the ActionThread drive the pipeline as AdcPipeline
\* lets its environment do: all that is shown of Spec there holds of the streams.
PipelineSpec == Init /\ [][raced \/ Next]_vars

\* The blocks go to the connection that holds the claim, for as long as the
\* logger runs: the claim is not given to another client under its feet.
LoggerServesClaimant ==
  lpc \notin {"none", "start"} => raced \/ (loggerConn = conn /\ conn # NoConn)

\* No second worker is created before the first has ended, with its logger: the
\* two would share the semaphores, the mutex and the ring.
OneWorkerAtATime == [][wpc' = "start" /\ wpc # "start" => wpc = "none" /\ lpc = "none"]_allVars

\* Whoever is told "ADC Busy, already streaming" (DataItems/ADC_.cpp:65) is told
\* so because of a start under way or a worker that has yet to give the claim
\* back; otherwise the start the claim was taken for was dropped with its
\* message, failed, or found the id of the last worker.
ClaimHasReason == conn # NoConn => Starting \/ wpc \notin {"none", "clearId"} \/ orphaned

\* The same without the last way out.
BusyMeansStreaming == conn # NoConn /\ ~done => Starting \/ wpc \notin {"none", "clearId"}

\* StreamsDoNotOverlap whatever the receivers do.
StreamsNeverOverlap == apc = "size" => Idle

\* AdcWorkerThreadID = 0 means `running' (DataItems/ADC_.cpp:93).
IdMeansRunning == workerId = 0 => wpc # "none"

=============================================================================
