----------------------------- MODULE RequestServer -----------------------------
(***************************************************************************)
(* What the control side promises its clients: the requests of a client    *)
(* are answered in the order it sent them, each once, and as long as the   *)
(* client is there the answer reaches it.  A client that leaves, or that   *)
(* the server cuts off, counts as gone: what it waits for may be dropped.  *)
(* How the requests travel, and in which order those of different clients  *)
(* are served, is left open.                                               *)
(***************************************************************************)
EXTENDS Integers, Sequences

CONSTANTS Clients, MaxRequests

VARIABLES
  waiting,   \* the numbers of each client's requests that are not yet answered
  submitted, \* how many requests each client has sent
  answers,   \* the numbers of the requests whose answers it received, in order
  gone       \* has it left?

requestVars == <<waiting, submitted, answers, gone>>

Init ==
  /\ waiting = [c \in Clients |-> {}]
  /\ submitted = [c \in Clients |-> 0]
  /\ answers = [c \in Clients |-> <<>>]
  /\ gone = [c \in Clients |-> FALSE]

\* A client that has been cut off may not know yet and send to no avail.
Submit(c) ==
  /\ submitted[c] < MaxRequests
  /\ submitted' = [submitted EXCEPT ![c] = @ + 1]
  /\ \/ waiting' = [waiting EXCEPT ![c] = @ \cup {submitted'[c]}]
     \/ gone[c] /\ UNCHANGED waiting
  /\ UNCHANGED <<answers, gone>>

\* The oldest request is answered.
Answer(c) ==
  /\ \E n \in waiting[c] :
       /\ \A m \in waiting[c] : n <= m
       /\ waiting' = [waiting EXCEPT ![c] = @ \ {n}]
       /\ \/ answers' = [answers EXCEPT ![c] = Append(@, n)]
          \/ gone[c] /\ UNCHANGED answers
  /\ UNCHANGED <<submitted, gone>>

\* A client leaves, or is cut off: then some of its last requests are dropped.
Depart(c) ==
  /\ gone' = [gone EXCEPT ![c] = TRUE]
  /\ \E left \in SUBSET waiting[c] :
       /\ \A n \in left, m \in waiting[c] : m < n => m \in left
       /\ waiting' = [waiting EXCEPT ![c] = left]
  /\ UNCHANGED <<submitted, answers>>

Next == \E c \in Clients : Submit(c) \/ Answer(c) \/ Depart(c)

Spec == Init /\ [][Next]_requestVars

=============================================================================
