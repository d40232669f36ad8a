-------------------------------- MODULE Shutdown --------------------------------
(***************************************************************************)
(* How the server ends.  A signal sets `done'; main leaves its loop, and   *)
(* exit_handler cancels the ADC worker's wait, queues a null item and      *)
(* joins the two listener threads and the ActionThread, which end when they*)
(* see the flag, before it resets the card and saves the configuration.    *)
(*                                                                         *)
(* Of the ADC worker there is what concerns the flag: it clears `done' when*)
(* it starts (adc.cpp:80) and tests it between blocks.  Neither the worker *)
(* nor a receiver thread is joined.  A receiver thread uses the card when  *)
(* it starts, for the items of its hello message, which it runs itself     *)
(* (SendControlHello); after that it only adds to the queue.               *)
(*                                                                         *)
(* External: the signal, the clients and the driver's wait for interrupts. *)
(***************************************************************************)
EXTENDS Integers, Sequences

CONSTANTS
  MaxItems,    \* bound: messages that clients send
  MaxHellos,   \* bound: receiver threads that greet their clients at a time
  LateStart    \* may a StreamStart still be under way when the signal comes?

ASSUME MaxItemsAssumption == MaxItems \in Nat
ASSUME MaxHellosAssumption == MaxHellos \in Nat
ASSUME LateStartAssumption == LateStart \in BOOLEAN

Listeners == {"control", "adc"}

VARIABLES
  done,       \* the flag
  main,       \* where main and exit_handler stand
  listener,   \* where each listener thread stands
  action,     \* where the ActionThread stands
  notified,   \* was the condition variable signalled while it waited?
  queue,      \* ActionQueue: "message", "start" (a StreamStart) or "null"
  received,   \* number of messages the receiver threads have queued
  greeting,   \* number of receiver threads in SendControlHello
  worker,     \* where the ADC worker stands
  cancelled   \* a cancel is pending for the worker

vars == <<done, main, listener, action, notified, queue, received, greeting, worker, cancelled>>

TypeOK ==
  /\ done \in BOOLEAN
  /\ main \in {"poll", "exit", "cancel", "enqueue", "joinAdc", "joinControl",
               "joinAction", "reset", "ended"}
  /\ listener \in [Listeners -> {"outer", "inner", "select", "ended"}]
  /\ action \in {"test", "lock", "waiting", "run", "start", "ended"}
  /\ notified \in BOOLEAN
  /\ queue \in Seq({"message", "start", "null"}) /\ Len(queue) <= MaxItems + 1
  /\ received \in 0 .. MaxItems
  /\ greeting \in 0 .. MaxHellos
  /\ worker \in {"none", "begin", "loop", "wait", "exit"}
  /\ cancelled \in BOOLEAN

Init ==
  /\ done = FALSE
  /\ main = "poll"
  /\ listener = [l \in Listeners |-> "outer"]
  /\ action = "test" /\ notified = FALSE
  /\ queue = <<>> /\ received = 0 /\ greeting = 0
  /\ worker = "none" /\ cancelled = FALSE

\* A StreamStart is queued or run, or the worker it created has not begun.
Starting == \/ \E k \in DOMAIN queue : queue[k] = "start"
            \/ action = "start" \/ worker = "begin"

-----------------------------------------------------------------------------
(* The surroundings.                                                       *)

\* abort_handler
Signal ==
  /\ LateStart \/ ~Starting
  /\ done' = TRUE
  /\ UNCHANGED <<main, listener, action, notified, queue, received, greeting, worker, cancelled>>

\* SafeQueue::enqueue
Enqueue(item) == queue' = Append(queue, item) /\ notified' = TRUE

\* A receiver thread queues a message.
Receive ==
  /\ received < MaxItems
  /\ received' = received + 1
  /\ \/ Enqueue("message")
     \/ (LateStart \/ ~done) /\ Enqueue("start")
  /\ UNCHANGED <<done, main, listener, action, greeting, worker, cancelled>>

\* A receiver thread has run the items of its hello message, which read the
\* card, and has sent them (SendControlHello).
Greet ==
  /\ greeting > 0
  /\ greeting' = greeting - 1
  /\ UNCHANGED <<done, main, listener, action, notified, queue, received, worker, cancelled>>

-----------------------------------------------------------------------------
(* main and exit_handler.                                                  *)

MainStep(from, to) == main = from /\ main' = to

MainPoll ==
  /\ MainStep("poll", "exit") /\ done
  /\ UNCHANGED <<done, listener, action, notified, queue, received, greeting, worker, cancelled>>

MainSetDone ==
  /\ MainStep("exit", "cancel")
  /\ done' = TRUE
  /\ UNCHANGED <<listener, action, notified, queue, received, greeting, worker, cancelled>>

\* apci_cancel_irq: it ends the wait of a worker that waits.
MainCancel ==
  /\ MainStep("cancel", "enqueue")
  /\ cancelled' = (worker = "wait")
  /\ UNCHANGED <<done, listener, action, notified, queue, received, greeting, worker>>

\* FAULT (MainWakeAction): the ActionThread is not woken.
MainWakeActionForgotten ==
  /\ MainStep("enqueue", "joinAdc")
  /\ UNCHANGED <<done, listener, action, notified, queue, received, greeting, worker, cancelled>>

\* ActionQueue.enqueue(nullptr), and a second of sleep
MainWakeAction ==
  /\ MainStep("enqueue", "joinAdc")
  /\ Enqueue("null")
  /\ UNCHANGED <<done, listener, action, received, greeting, worker, cancelled>>

MainJoinListener ==
  /\ \/ MainStep("joinAdc", "joinControl") /\ listener["adc"] = "ended"
     \/ MainStep("joinControl", "joinAction") /\ listener["control"] = "ended"
  /\ UNCHANGED <<done, listener, action, notified, queue, received, greeting, worker, cancelled>>

\* FAULT (MainJoinAction): the ActionThread is not waited for.
MainJoinActionForgotten ==
  /\ MainStep("joinAction", "reset")
  /\ UNCHANGED <<done, listener, action, notified, queue, received, greeting, worker, cancelled>>

MainJoinAction ==
  /\ MainStep("joinAction", "reset") /\ action = "ended"
  /\ UNCHANGED <<done, listener, action, notified, queue, received, greeting, worker, cancelled>>

\* The card is reset and closed, SaveConfig, and the process ends.
MainEnd ==
  /\ MainStep("reset", "ended")
  /\ UNCHANGED <<done, listener, action, notified, queue, received, greeting, worker, cancelled>>

Main == \/ MainPoll \/ MainSetDone \/ MainCancel \/ MainWakeAction
        \/ MainJoinListener \/ MainJoinAction \/ MainEnd

-----------------------------------------------------------------------------
(* The listener threads: two loops, one around the other, both test `done';*)
(* select() returns within a second, or a client is accepted: for one of   *)
(* the control port a receiver thread is created, and detached.            *)

Accept(l) ==
  \/ UNCHANGED greeting
  \/ l = "control" /\ greeting < MaxHellos /\ greeting' = greeting + 1

ListenerStep(l) ==
  /\ \/ /\ listener[l] = "outer"
        /\ listener' = [listener EXCEPT ![l] = IF done THEN "ended" ELSE "inner"]
        /\ UNCHANGED greeting
     \/ /\ listener[l] = "inner"
        /\ listener' = [listener EXCEPT ![l] = IF done THEN "outer" ELSE "select"]
        /\ UNCHANGED greeting
     \/ /\ listener[l] = "select"
        /\ listener' = [listener EXCEPT ![l] = "inner"]
        /\ Accept(l)
  /\ UNCHANGED <<done, main, action, notified, queue, received, worker, cancelled>>

-----------------------------------------------------------------------------
(* The ActionThread and SafeQueue::dequeue.                                *)

ActionTest ==
  /\ action = "test"
  /\ action' = IF done THEN "ended" ELSE "lock"
  /\ UNCHANGED <<done, main, listener, notified, queue, received, greeting, worker, cancelled>>

\* The mutex is held: wait if the queue is empty, give up if `done'.
ActionDequeue ==
  /\ action = "lock"
  /\ \/ done /\ action' = "test" /\ UNCHANGED <<notified, queue>>
     \/ /\ ~done /\ queue = <<>>
        /\ action' = "waiting" /\ notified' = FALSE
        /\ UNCHANGED queue
     \/ /\ ~done /\ queue # <<>>
        /\ queue' = Tail(queue)
        /\ action' = CASE Head(queue) = "message" -> "run"
                       [] Head(queue) = "start" -> "start"
                       [] Head(queue) = "null" -> "test"
        /\ UNCHANGED notified
  /\ UNCHANGED <<done, main, listener, received, greeting, worker, cancelled>>

\* The condition variable was signalled; a signal handler does not do that.
ActionWake ==
  /\ action = "waiting" /\ notified
  /\ action' = "lock"
  /\ UNCHANGED <<done, main, listener, notified, queue, received, greeting, worker, cancelled>>

\* RunMessage and SendResponse.
ActionRun ==
  /\ action = "run"
  /\ action' = "test"
  /\ UNCHANGED <<done, main, listener, notified, queue, received, greeting, worker, cancelled>>

\* StreamStart::Go creates a worker unless there is one.
ActionStart ==
  /\ action = "start"
  /\ action' = "test"
  /\ worker' = IF worker = "none" THEN "begin" ELSE worker
  /\ UNCHANGED <<done, main, listener, notified, queue, received, greeting, cancelled>>

Action == ActionTest \/ ActionDequeue \/ ActionWake \/ ActionRun \/ ActionStart

-----------------------------------------------------------------------------
(* The ADC worker.                                                         *)

\* done = 0
WorkerBegin ==
  /\ worker = "begin" /\ worker' = "loop"
  /\ done' = FALSE
  /\ UNCHANGED <<main, listener, action, notified, queue, received, greeting, cancelled>>

WorkerLoop ==
  /\ worker = "loop"
  /\ worker' \in IF done THEN {"exit"} ELSE {"wait", "loop"}
  /\ UNCHANGED <<done, main, listener, action, notified, queue, received, greeting, cancelled>>

\* A block arrives, or the wait is cancelled.
WorkerWait ==
  /\ worker = "wait"
  /\ \/ ~cancelled /\ worker' = "loop" /\ UNCHANGED cancelled
     \/ cancelled /\ worker' = "exit" /\ cancelled' = FALSE
  /\ UNCHANGED <<done, main, listener, action, notified, queue, received, greeting>>

\* Acquisition off, logger joined.
WorkerExit ==
  /\ worker = "exit" /\ worker' = "none"
  /\ UNCHANGED <<done, main, listener, action, notified, queue, received, greeting, cancelled>>

Worker == WorkerBegin \/ WorkerLoop \/ WorkerWait \/ WorkerExit

-----------------------------------------------------------------------------
Next ==
  /\ main # "ended"
  /\ \/ Signal \/ Receive \/ Greet \/ Main \/ Action \/ Worker
     \/ \E l \in Listeners : ListenerStep(l)

Spec == Init /\ [][Next]_vars

\* Threads run; select() and the wait for a block need not be helped.
Fairness ==
  /\ WF_vars(Main /\ main # "ended")
  /\ WF_vars(Action /\ main # "ended")
  /\ WF_vars((WorkerBegin \/ WorkerExit \/ WorkerLoop) /\ main # "ended")
  /\ WF_vars(WorkerWait /\ cancelled /\ main # "ended")
  /\ \A l \in Listeners : WF_vars(ListenerStep(l) /\ main # "ended")

FairSpec == Spec /\ Fairness

-----------------------------------------------------------------------------
\* When the card is reset the ActionThread has ended, and both listeners: the
\* reset falls into no item of a client's message, and nobody is accepted after
\* it.  Of the threads that use the card this leaves out the two kinds that
\* exit_handler does not join, the ADC worker and the receivers.
MessagesAtRest ==
  main \in {"reset", "ended"} =>
    action = "ended" /\ \A l \in Listeners : listener[l] = "ended"

\* The card is reset and closed (aioenetd.cpp:353-355) when no thread uses it.
\* The code does not keep this: a receiver accepted before the signal may still
\* run the items of its hello message, and the worker may not have ended.
CardUnused ==
  main \in {"reset", "ended"} => action = "ended" /\ greeting = 0 /\ worker = "none"

\* A signal ends the process.
SignalEndsServer == done ~> main = "ended"

\* The flag, once set, stays set: every loop of the server ends by testing it
\* (aioenetd.cpp:565: see if we should exit).  A worker that starts late does not keep
\* this (adc.cpp:80; LateStart).
DoneStays == [][done => done']_vars

=============================================================================
