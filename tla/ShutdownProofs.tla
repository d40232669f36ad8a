---------------------------- MODULE ShutdownProofs ----------------------------
(***************************************************************************)
(* Proofs about Shutdown, for any number of messages and whether or not a  *)
(* StreamStart comes late: that the server ends at all depends on          *)
(* LateStart, the order in which things are taken down does not.           *)
(***************************************************************************)
EXTENDS Shutdown, SequenceTheorems, TLAPS

Queued == {"message", "start", "null"}

JoinedAdc     == {"joinControl", "joinAction", "reset", "ended"}
JoinedControl == {"joinAction", "reset", "ended"}
JoinedAction  == {"reset", "ended"}

\* The null item of exit_handler is in the queue besides the messages received.
QueueBound ==
  Len(queue) <= received + IF main \in {"joinAdc"} \cup JoinedAdc THEN 1 ELSE 0

\* What exit_handler has waited for has ended, and stays so.
Joined ==
  /\ main \in JoinedAdc => listener["adc"] = "ended"
  /\ main \in JoinedControl => listener["control"] = "ended"
  /\ main \in JoinedAction => action = "ended"

IInv == TypeOK /\ QueueBound /\ Joined

-----------------------------------------------------------------------------
\* An item more, and one less.
LEMMA EnqueueBound ==
  ASSUME queue \in Seq(Queued), NEW item \in Queued, Enqueue(item)
  PROVE  queue' \in Seq(Queued) /\ Len(queue') = Len(queue) + 1 /\ notified' = TRUE
BY AppendProperties DEF Enqueue

LEMMA DequeueBound ==
  ASSUME queue \in Seq(Queued), queue # <<>>
  PROVE  /\ Head(queue) \in Queued /\ Tail(queue) \in Seq(Queued)
         /\ Len(Tail(queue)) = Len(queue) - 1
BY HeadTailProperties

\* The surroundings add messages to the queue, and the worker moves `done'; neither
\* touches what exit_handler waits for.
LEMMA SignalKeeps == ASSUME IInv, Signal PROVE IInv'
BY DEF Signal, IInv, TypeOK, QueueBound, Joined

\* A receiver thread that has greeted its client is one less of them.
LEMMA GreetKeeps == ASSUME IInv, Greet PROVE IInv'
<1>1. greeting' \in 0 .. MaxHellos
  BY MaxHellosAssumption DEF Greet, IInv, TypeOK
<1> QED
  BY <1>1 DEF Greet, IInv, TypeOK, QueueBound, Joined

LEMMA ReceiveKeeps == ASSUME IInv, Receive PROVE IInv'
<1>1. UNCHANGED <<done, main, listener, action, greeting, worker, cancelled>> /\ received' = received + 1
  BY DEF Receive
<1>2. queue' \in Seq(Queued) /\ Len(queue') = Len(queue) + 1 /\ notified' = TRUE
  BY EnqueueBound DEF Receive, IInv, TypeOK, Queued
<1>3. received' \in 0 .. MaxItems
  BY MaxItemsAssumption DEF Receive, IInv, TypeOK
<1>4. Len(queue) \in Nat
  BY LenProperties DEF IInv, TypeOK
<1>5. QueueBound'
  BY <1>1, <1>2, <1>3, <1>4 DEF IInv, TypeOK, QueueBound
<1>6. Len(queue') <= MaxItems + 1
  BY <1>2, <1>3, <1>4, <1>5, MaxItemsAssumption DEF QueueBound
<1>7. TypeOK'
  BY <1>1, <1>2, <1>3, <1>6 DEF IInv, TypeOK, Queued
<1> QED
  BY <1>1, <1>5, <1>7 DEF IInv, Joined

LEMMA WorkerKeeps == ASSUME IInv, Worker PROVE IInv'
<1>1. UNCHANGED <<main, listener, action, notified, queue, received, greeting>>
  BY DEF Worker, WorkerBegin, WorkerLoop, WorkerWait, WorkerExit
<1>2. done' \in BOOLEAN /\ cancelled' \in BOOLEAN
      /\ worker' \in {"none", "begin", "loop", "wait", "exit"}
  BY DEF IInv, TypeOK, Worker, WorkerBegin, WorkerLoop, WorkerWait, WorkerExit
<1> QED
  BY <1>1, <1>2 DEF IInv, TypeOK, QueueBound, Joined

\* exit_handler goes on only when the thread that it joins has ended.
LEMMA MainKeeps == ASSUME IInv, Main PROVE IInv'
<1>1. CASE MainWakeAction
  <2>1. /\ UNCHANGED <<done, listener, action, received, greeting, worker, cancelled>>
        /\ main = "enqueue" /\ main' = "joinAdc"
    BY <1>1 DEF MainWakeAction, MainStep
  <2>2. queue' \in Seq(Queued) /\ Len(queue') = Len(queue) + 1 /\ notified' = TRUE
    BY <1>1, EnqueueBound DEF MainWakeAction, IInv, TypeOK, Queued
  <2>3. Len(queue) \in Nat /\ Len(queue) <= received /\ received \in 0 .. MaxItems
    BY <2>1, LenProperties DEF IInv, TypeOK, QueueBound, JoinedAdc
  <2>4. Len(queue') <= received' + 1 /\ Len(queue') <= MaxItems + 1
    BY <2>1, <2>2, <2>3, MaxItemsAssumption
  <2>5. TypeOK'
    BY <2>1, <2>2, <2>4 DEF IInv, TypeOK, Queued
  <2> QED
    BY <2>1, <2>4, <2>5
       DEF IInv, QueueBound, Joined, JoinedAdc, JoinedControl, JoinedAction
<1>2. CASE MainPoll \/ MainSetDone \/ MainCancel
  <2>1. UNCHANGED <<listener, action, notified, queue, received, greeting, worker>>
    BY <1>2 DEF MainPoll, MainSetDone, MainCancel
  <2>2. /\ main \in {"poll", "exit", "cancel"} /\ main' \in {"exit", "cancel", "enqueue"}
        /\ done' \in BOOLEAN /\ cancelled' \in BOOLEAN
    BY <1>2 DEF IInv, TypeOK, MainPoll, MainSetDone, MainCancel, MainStep
  <2>3. TypeOK'
    BY <2>1, <2>2 DEF IInv, TypeOK
  <2> QED
    BY <2>1, <2>2, <2>3
       DEF IInv, QueueBound, Joined, JoinedAdc, JoinedControl, JoinedAction
<1>3. CASE MainJoinListener \/ MainJoinAction \/ MainEnd
  <2>1. UNCHANGED <<done, listener, action, notified, queue, received, greeting, worker, cancelled>>
    BY <1>3 DEF MainJoinListener, MainJoinAction, MainEnd
  <2>2. \/ main = "joinAdc" /\ main' = "joinControl" /\ listener["adc"] = "ended"
        \/ main = "joinControl" /\ main' = "joinAction" /\ listener["control"] = "ended"
        \/ main = "joinAction" /\ main' = "reset" /\ action = "ended"
        \/ main = "reset" /\ main' = "ended"
    BY <1>3 DEF MainJoinListener, MainJoinAction, MainEnd, MainStep
  <2>3. TypeOK'
    BY <2>1, <2>2 DEF IInv, TypeOK
  <2> QED
    BY <2>1, <2>2, <2>3
       DEF IInv, QueueBound, Joined, JoinedAdc, JoinedControl, JoinedAction
<1> QED
  BY <1>1, <1>2, <1>3 DEF Main

\* A listener that has ended takes no step any more,
LEMMA ListenerKeeps == ASSUME IInv, NEW l \in Listeners, ListenerStep(l) PROVE IInv'
<1>1. /\ UNCHANGED <<done, main, action, notified, queue, received, worker, cancelled>>
      /\ greeting' \in 0 .. MaxHellos
  BY MaxHellosAssumption DEF ListenerStep, Accept, IInv, TypeOK
<1>2. /\ listener[l] # "ended"
      /\ \E at \in {"outer", "inner", "select", "ended"} :
           listener' = [listener EXCEPT ![l] = at]
  BY DEF ListenerStep
<1>3. TypeOK'
  BY <1>1, <1>2 DEF IInv, TypeOK
<1> QED
  BY <1>1, <1>2, <1>3 DEF IInv, TypeOK, QueueBound, Joined, Listeners

\* nor does the ActionThread.
LEMMA ActionKeeps == ASSUME IInv, Action PROVE IInv'
<1>1. UNCHANGED <<done, main, listener, received, greeting, cancelled>> /\ action # "ended"
  BY DEF Action, ActionTest, ActionDequeue, ActionWake, ActionRun, ActionStart
<1>2. main \notin JoinedAction
  BY <1>1 DEF IInv, Joined
<1>3. Len(queue) \in Nat /\ queue \in Seq(Queued) /\ received \in Nat
  BY LenProperties, MaxItemsAssumption DEF IInv, TypeOK, Queued
<1>4. queue' \in Seq(Queued) /\ Len(queue') \in Nat /\ Len(queue') <= Len(queue)
  <2>1. queue' = queue \/ (queue # <<>> /\ queue' = Tail(queue))
    BY DEF Action, ActionTest, ActionDequeue, ActionWake, ActionRun, ActionStart
  <2>2. CASE queue' = queue
    BY <1>3, <2>2
  <2>3. CASE queue # <<>> /\ queue' = Tail(queue)
    BY <1>3, <2>3, DequeueBound, LenProperties
  <2> QED
    BY <2>1, <2>2, <2>3
<1>5. action' \in {"test", "lock", "waiting", "run", "start", "ended"}
  <2>1. CASE ActionDequeue
    BY <2>1, <1>3, DequeueBound DEF ActionDequeue, Queued
  <2> QED
    BY <2>1 DEF Action, ActionTest, ActionWake, ActionRun, ActionStart
<1>6. notified' \in BOOLEAN /\ worker' \in {"none", "begin", "loop", "wait", "exit"}
  BY DEF IInv, TypeOK, Action, ActionTest, ActionDequeue, ActionWake, ActionRun, ActionStart
<1>7. QueueBound'
  BY <1>1, <1>3, <1>4 DEF IInv, QueueBound
<1>8. TypeOK'
  <2>1. Len(queue') <= MaxItems + 1
    BY <1>3, <1>4, MaxItemsAssumption DEF IInv, TypeOK
  <2> QED
    BY <1>1, <1>4, <1>5, <1>6, <2>1 DEF IInv, TypeOK, Queued
<1> QED
  BY <1>1, <1>2, <1>7, <1>8 DEF IInv, Joined

-----------------------------------------------------------------------------
THEOREM Inductive == Spec => []IInv
<1>1. Init => IInv
  <2> SUFFICES ASSUME Init PROVE IInv
    OBVIOUS
  <2>1. queue \in Seq({"message", "start", "null"}) /\ Len(queue) = 0
    BY EmptySeq DEF Init
  <2>2. TypeOK
    <3>1. /\ received \in 0 .. MaxItems /\ Len(queue) <= MaxItems + 1
          /\ greeting \in 0 .. MaxHellos
      BY <2>1, MaxItemsAssumption, MaxHellosAssumption DEF Init
    <3>2. listener \in [Listeners -> {"outer", "inner", "select", "ended"}]
      BY DEF Init
    <3> QED
      BY <2>1, <3>1, <3>2 DEF Init, TypeOK
  <2>3. QueueBound /\ Joined
    BY <2>1 DEF Init, QueueBound, Joined, JoinedAdc, JoinedControl, JoinedAction
  <2> QED
    BY <2>2, <2>3 DEF IInv
<1>2. IInv /\ [Next]_vars => IInv'
  <2> SUFFICES ASSUME IInv, [Next]_vars PROVE IInv'
    OBVIOUS
  <2>1. CASE UNCHANGED vars
    BY <2>1 DEF vars, IInv, TypeOK, QueueBound, Joined
  <2> QED
    BY <2>1, SignalKeeps, ReceiveKeeps, GreetKeeps, MainKeeps, ActionKeeps, WorkerKeeps, ListenerKeeps
       DEF Next
<1> QED
  BY <1>1, <1>2, PTL DEF Spec

\* Type correctness: ActionQueue holds what was received and at most one item more,
\* the null item of exit_handler (aioenetd.cpp:345).
THEOREM ShutdownTypeOK == Spec => []TypeOK
<1>1. IInv => TypeOK
  BY DEF IInv
<1> QED
  BY <1>1, Inductive, PTL

\* When the card is reset and closed, and Config saved, the ActionThread and both
\* listeners have ended: exit_handler joins each of them, and a thread that has
\* ended takes no step (aioenetd.cpp:349-356).  It says nothing of the threads that
\* are not joined, the ADC worker and the receivers, which may use the card still.
THEOREM ResetAfterMessages == Spec => []MessagesAtRest
<1>1. IInv => MessagesAtRest
  BY DEF IInv, Joined, MessagesAtRest, JoinedAdc, JoinedControl, JoinedAction, Listeners
<1> QED
  BY <1>1, Inductive, PTL
=============================================================================
