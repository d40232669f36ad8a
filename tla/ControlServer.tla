----------------------------- MODULE ControlServer -----------------------------
(***************************************************************************)
(* The control side of aioenetd.cpp: the listener thread accepts           *)
(* connections, one receiver thread per control connection reads and       *)
(* parses frames and queues them, and the ActionThread takes messages off  *)
(* the queue, runs their items one by one and sends the reply to the file  *)
(* descriptor that the queue item names.  ADC connections, which take      *)
(* descriptors and never give them back, are left out.                     *)
(*                                                                         *)
(* File descriptors are small numbers that the kernel hands out again as   *)
(* soon as they are closed, the lowest first; a thread that is blocked in  *)
(* recv() keeps the connection it was called for.  A frame is a request    *)
(* number with what the parser will make of it: "good" is a message to run,*)
(* "bad" one that the parser throws on (an X reply), "huge" one whose      *)
(* length field exceeds maxPayloadLength.  Shutdown is modelled apart.     *)
(*                                                                         *)
(* External: the kernel's descriptor table and sockets, and the clients.   *)
(***************************************************************************)
EXTENDS Integers, Sequences, Functions

CONSTANTS
  Clients,      \* control connections, each made at most once
  None,         \* no connection
  Fds,          \* bound: the descriptors of the process
  Items,        \* number of data items of a message
  MaxRequests,  \* bound: requests a client sends
  MaxSent,      \* bound: requests all clients send together
  Kinds,        \* the kinds of frames clients send
  Patient,      \* do clients leave only once they have all their replies?
  Readers       \* the clients that, while they stay, read what they are sent

ASSUME ClientsAssumption == None \notin Clients
ASSUME FdsAssumption == Fds \subseteq Nat
ASSUME BoundsAssumption == Items \in Nat \ {0} /\ MaxRequests \in Nat /\ MaxSent \in Nat
ASSUME KindsAssumption == Kinds \subseteq {"good", "bad", "huge"}
ASSUME BehaviourAssumption == Patient \in BOOLEAN /\ Readers \subseteq Clients

VARIABLES
  peer,      \* what the other end of each connection is doing
  sent,      \* number of requests each client has sent
  inbox,     \* requests that wait in a connection's receive buffer
  replies,   \* what each connection has received
  fdTable,   \* the process's descriptors
  rpc,       \* where each receiver thread stands
  rfd,       \* the descriptor it was created with
  rfile,     \* the connection its recv() is blocked on
  buffer,    \* requests received and not yet parsed
  queue,     \* ActionQueue
  apc,       \* what the ActionThread is doing
  current,   \* the queue item it handles
  item,      \* the data item of it that runs next
  ran,       \* history: the items run, in order
  reused     \* history: accept() handed out a number that was still in use

clientVars   == <<peer, sent>>
receiverVars == <<rpc, rfd, rfile, buffer>>
actionVars   == <<apc, current, item, ran>>
vars == <<clientVars, inbox, replies, fdTable, receiverVars, queue, actionVars>>

Request == [from : Clients, id : 1 .. MaxRequests, kind : Kinds]
Action  == [fd : Fds, request : Request]
Nobody  == [fd |-> -1, request |-> None]

TypeOK ==
  /\ peer \in [Clients -> {"idle", "open", "closed"}]
  /\ sent \in [Clients -> 0 .. MaxRequests]
  /\ inbox \in [Clients -> Seq(Request)]
  /\ replies \in [Clients -> Seq([from : Clients, id : 0 .. MaxRequests,
                                mid : {"H", "R", "X", "garbage"}])]
  /\ fdTable \in [Fds -> Clients \cup {None}]
  /\ rpc \in [Clients -> {"none", "hello", "recv", "blocked", "process", "huge",
                          "eof", "last", "ended"}]
  /\ rfd \in [Clients -> Fds \cup {-1}]
  /\ rfile \in [Clients -> Clients \cup {None}]
  /\ buffer \in [Clients -> Seq(Request)]
  /\ queue \in Seq(Action)
  /\ apc \in {"idle", "run", "send", "crashed"}
  /\ item \in 1 .. Items
  /\ current \in Action \cup {Nobody}
  /\ ran \in Seq([from : Clients, id : 1 .. MaxRequests, item : 1 .. Items])

Init ==
  /\ peer = [c \in Clients |-> "idle"]
  /\ sent = [c \in Clients |-> 0]
  /\ inbox = [c \in Clients |-> <<>>]
  /\ replies = [c \in Clients |-> <<>>]
  /\ fdTable = [f \in Fds |-> None]
  /\ rpc = [c \in Clients |-> "none"]
  /\ rfd = [c \in Clients |-> -1]
  /\ rfile = [c \in Clients |-> None]
  /\ buffer = [c \in Clients |-> <<>>]
  /\ queue = <<>>
  /\ apc = "idle" /\ current = Nobody /\ item = 1
  /\ ran = <<>> /\ reused = FALSE

-----------------------------------------------------------------------------
(* The clients.                                                            *)

SendRequest(c) ==
  /\ peer[c] = "open" /\ sent[c] < MaxRequests
  /\ FoldFunction(LAMBDA n, total : n + total, 0, sent) < MaxSent
  /\ sent' = [sent EXCEPT ![c] = @ + 1]
  /\ \E k \in Kinds :
       inbox' = [inbox EXCEPT ![c] = Append(@, [from |-> c, id |-> sent'[c], kind |-> k])]
  /\ UNCHANGED <<peer, replies, fdTable, receiverVars, queue, actionVars>>

Answered(c) == \A n \in 1 .. sent[c] :
  \E j \in DOMAIN replies[c] : replies[c][j].from = c /\ replies[c][j].id = n

Leave(c) ==
  /\ peer[c] = "open"
  /\ Patient => Answered(c)
  /\ peer' = [peer EXCEPT ![c] = "closed"]
  /\ UNCHANGED <<sent, inbox, replies, fdTable, receiverVars, queue, actionVars>>

-----------------------------------------------------------------------------
(* The kernel.                                                             *)

FreeFds == {f \in Fds : fdTable[f] = None}

\* A client connects, and accept() hands out the lowest free descriptor.
Accept(c, f) ==
  /\ peer[c] = "idle"
  /\ f \in FreeFds /\ \A g \in FreeFds : f <= g
  /\ fdTable' = [fdTable EXCEPT ![f] = c]
  /\ peer' = [peer EXCEPT ![c] = "open"]

\* close(): whatever the descriptor refers to now is gone; EBADF is ignored.
Close(f) == fdTable' = [fdTable EXCEPT ![f] = None]

\* send() to whatever the descriptor refers to now; its errors are only logged.
SendTo(f, reply) ==
  IF fdTable[f] # None /\ peer[fdTable[f]] = "open"
  THEN replies' = [replies EXCEPT ![fdTable[f]] = Append(@, reply)]
  ELSE UNCHANGED replies

-----------------------------------------------------------------------------
(* The listeners and the receiver threads.                                 *)

\* FAULT (AcceptControl): all receiver threads read one shared variable.
AcceptControlSharesFd(c) ==
  \E f \in Fds :
    /\ Accept(c, f)
    /\ rpc' = [rpc EXCEPT ![c] = "hello"]
    /\ rfd' = [d \in Clients |-> f]
    /\ UNCHANGED <<sent, inbox, replies, rfile, buffer, queue, actionVars>>

\* HandleNewControlClients: accept and create the receiver thread.
AcceptControl(c) ==
  \E f \in Fds :
    /\ Accept(c, f)
    /\ rpc' = [rpc EXCEPT ![c] = "hello"]
    /\ rfd' = [rfd EXCEPT ![c] = f]
    /\ UNCHANGED <<sent, inbox, replies, rfile, buffer, queue, actionVars>>

\* SendControlHello
Hello(c) ==
  /\ rpc[c] = "hello"
  /\ SendTo(rfd[c], [from |-> c, id |-> 0, mid |-> "H"])
  /\ rpc' = [rpc EXCEPT ![c] = "recv"]
  /\ UNCHANGED <<clientVars, inbox, fdTable, rfd, rfile, buffer, queue, actionVars>>

\* recv() looks the descriptor up; if it is closed the loop is left.
Recv(c) ==
  /\ rpc[c] = "recv"
  /\ rfile' = [rfile EXCEPT ![c] = fdTable[rfd[c]]]
  /\ rpc' = [rpc EXCEPT ![c] = IF fdTable[rfd[c]] = None THEN "last" ELSE "blocked"]
  /\ UNCHANGED <<clientVars, inbox, replies, fdTable, rfd, buffer, queue, actionVars>>

\* recv() returns some of the frames that have arrived.
RecvData(c) ==
  /\ rpc[c] = "blocked"
  /\ LET f == rfile[c] IN
     \E n \in 1 .. Len(inbox[f]) :
       /\ buffer' = [buffer EXCEPT ![c] = @ \o SubSeq(inbox[f], 1, n)]
       /\ inbox' = [inbox EXCEPT ![f] = SubSeq(@, n + 1, Len(@))]
  /\ rpc' = [rpc EXCEPT ![c] = "process"]
  /\ UNCHANGED <<clientVars, replies, fdTable, rfd, rfile, queue, actionVars>>

\* recv() returns 0, or fails because the peer reset the connection.
RecvEnd(c) ==
  /\ rpc[c] = "blocked"
  /\ inbox[rfile[c]] = <<>> /\ peer[rfile[c]] = "closed"
  /\ \E next \in {"eof", "last"} : rpc' = [rpc EXCEPT ![c] = next]
  /\ UNCHANGED <<clientVars, inbox, replies, fdTable, rfd, rfile, buffer, queue,
                 actionVars>>

\* FAULT (Process): the newest message is served first.
ProcessStacks(c) ==
  /\ rpc[c] = "process" /\ buffer[c] # <<>> /\ Head(buffer[c]).kind # "huge"
  /\ queue' = <<[fd |-> rfd[c], request |-> Head(buffer[c])]>> \o queue
  /\ buffer' = [buffer EXCEPT ![c] = Tail(@)]
  /\ UNCHANGED <<clientVars, inbox, replies, fdTable, rpc, rfd, rfile, actionVars>>

\* ProcessMessages: the next complete frame is parsed and queued.
Process(c) ==
  /\ rpc[c] = "process" /\ buffer[c] # <<>> /\ Head(buffer[c]).kind # "huge"
  /\ queue' = Append(queue, [fd |-> rfd[c], request |-> Head(buffer[c])])
  /\ buffer' = [buffer EXCEPT ![c] = Tail(@)]
  /\ UNCHANGED <<clientVars, inbox, replies, fdTable, rpc, rfd, rfile, actionVars>>

ProcessEnd(c) ==
  /\ rpc[c] = "process" /\ buffer[c] = <<>>
  /\ rpc' = [rpc EXCEPT ![c] = "recv"]
  /\ UNCHANGED <<clientVars, inbox, replies, fdTable, rfd, rfile, buffer, queue,
                 actionVars>>

\* A length above maxPayloadLength: an X message, a local variable, is queued by
\* reference and what else was received is dropped.
ProcessHuge(c) ==
  /\ rpc[c] = "process" /\ buffer[c] # <<>> /\ Head(buffer[c]).kind = "huge"
  /\ queue' = Append(queue, [fd |-> rfd[c], request |-> Head(buffer[c])])
  /\ buffer' = [buffer EXCEPT ![c] = <<>>]
  /\ rpc' = [rpc EXCEPT ![c] = "huge"]
  /\ UNCHANGED <<clientVars, inbox, replies, fdTable, rfd, rfile, actionVars>>

\* Then Disconnect, and the receive loop goes on; on EOF it ends.
DisconnectHuge(c) ==
  /\ rpc[c] = "huge"
  /\ Close(rfd[c])
  /\ rpc' = [rpc EXCEPT ![c] = "recv"]
  /\ UNCHANGED <<clientVars, inbox, replies, rfd, rfile, buffer, queue, actionVars>>

DisconnectEof(c) ==
  /\ rpc[c] = "eof"
  /\ Close(rfd[c])
  /\ rpc' = [rpc EXCEPT ![c] = "last"]
  /\ UNCHANGED <<clientVars, inbox, replies, rfd, rfile, buffer, queue, actionVars>>

\* The Disconnect with which every receiver thread ends.
DisconnectLast(c) ==
  /\ rpc[c] = "last"
  /\ Close(rfd[c])
  /\ rpc' = [rpc EXCEPT ![c] = "ended"]
  /\ UNCHANGED <<clientVars, inbox, replies, rfd, rfile, buffer, queue, actionVars>>

Receiver(c) ==
  \/ Hello(c) \/ Recv(c) \/ RecvData(c) \/ RecvEnd(c) \/ Process(c) \/ ProcessEnd(c)
  \/ ProcessHuge(c) \/ DisconnectHuge(c) \/ DisconnectEof(c) \/ DisconnectLast(c)

-----------------------------------------------------------------------------
(* The ActionThread.                                                       *)

\* FAULT (Dequeue): a message that could not be parsed gets no reply.
DequeueDropsBad ==
  /\ apc = "idle" /\ queue # <<>>
  /\ queue' = Tail(queue)
  /\ \/ Head(queue).request.kind = "good" /\ current' = Head(queue) /\ apc' = "run"
     \/ Head(queue).request.kind # "good" /\ current' = Nobody /\ apc' = "idle"
  /\ item' = 1
  /\ UNCHANGED <<clientVars, inbox, replies, fdTable, receiverVars, ran>>

Dequeue ==
  /\ apc = "idle" /\ queue # <<>>
  /\ current' = Head(queue)
  /\ queue' = Tail(queue)
  /\ apc' = IF current'.request.kind = "good" THEN "run" ELSE "send"
  /\ item' = 1
  /\ UNCHANGED <<clientVars, inbox, replies, fdTable, receiverVars, ran>>

\* FAULT (RunItem): the last item is left out.
RunItemStopsEarly ==
  /\ apc = "run"
  /\ ran' = Append(ran, [from |-> current.request.from, id |-> current.request.id,
                         item |-> item])
  /\ \/ item < Items - 1 /\ item' = item + 1 /\ UNCHANGED apc
     \/ item >= Items - 1 /\ apc' = "send" /\ UNCHANGED item
  /\ UNCHANGED <<clientVars, inbox, replies, fdTable, receiverVars, queue, current>>

\* RunMessage: the next item's Go().
RunItem ==
  /\ apc = "run"
  /\ ran' = Append(ran, [from |-> current.request.from, id |-> current.request.id,
                         item |-> item])
  /\ \/ item < Items /\ item' = item + 1 /\ UNCHANGED apc
     \/ item = Items /\ apc' = "send" /\ UNCHANGED item
  /\ UNCHANGED <<clientVars, inbox, replies, fdTable, receiverVars, queue, current>>

\* The message of an oversize frame dies when ProcessMessages returns.
Dangling == current.request.kind = "huge" /\ rpc[current.request.from] # "huge"

\* SendResponse.  What a dangling reference yields is undefined: the message as
\* it was, other bytes, or the end of the process.
SendResponse ==
  /\ apc = "send"
  /\ \E mid \in IF Dangling THEN {"X", "garbage"}
                ELSE {IF current.request.kind = "good" THEN "R" ELSE "X"} :
       SendTo(current.fd, [from |-> current.request.from, id |-> current.request.id,
                           mid |-> mid])
  /\ apc' = "idle" /\ current' = Nobody
  /\ UNCHANGED <<clientVars, inbox, fdTable, receiverVars, queue, item, ran>>

Crash ==
  /\ apc = "send" /\ Dangling
  /\ apc' = "crashed"
  /\ UNCHANGED <<clientVars, inbox, replies, fdTable, receiverVars, queue, current,
                 item, ran>>

ActionThread == Dequeue \/ RunItem \/ SendResponse \/ Crash

-----------------------------------------------------------------------------
Next ==
  /\ apc # "crashed"
  /\ \/ \E c \in Clients : AcceptControl(c) \/ SendRequest(c) \/ Receiver(c) \/ Leave(c)
     \/ ActionThread

\* A receiver thread, a queued message or the ActionThread names the descriptor f.
InUse(f) ==
  \/ \E c \in Clients : rpc[c] \notin {"none", "ended"} /\ rfd[c] = f
  \/ \E k \in DOMAIN queue : queue[k].fd = f
  \/ current.fd = f

\* No descriptor is handed out that is in use.
FreshAccept == \A f \in Fds : fdTable[f] = None /\ fdTable'[f] # None => ~InUse(f)

\* The program does not look at `reused'.
Step == Next /\ reused' = (reused \/ ~FreshAccept)

Spec == Init /\ [][Step]_<<vars, reused>>

\* send() on a blocking socket returns when the other end reads, or is gone; the
\* server sets no timeout.  To a client that stays and stops reading it may, or
\* may not, return.
SendReturns ==
  \/ fdTable[current.fd] = None
  \/ fdTable[current.fd] \in Readers \/ peer[fdTable[current.fd]] # "open"

\* The server's threads run, except that a send() may block for good.  The hello
\* message, the first one to an empty send buffer, does not block.
Fairness ==
  /\ WF_vars(Dequeue \/ RunItem)
  /\ WF_vars(SendResponse /\ SendReturns)
  /\ \A c \in Clients : WF_vars(Receiver(c))

FairSpec == Spec /\ Fairness

-----------------------------------------------------------------------------
(* What the server promises.                                               *)

\* The requests that the ActionThread handles and that are queued.
Handled == IF current = Nobody THEN {} ELSE {current.request}
Queued  == {a.request : a \in Range(queue)}

\* The server has cut the connection, for an oversize frame or because it ended.
Dismissed(c) == rpc[c] # "none" /\ (rpc[c] = "huge" \/ \A f \in Fds : fdTable[f] # c)

\* It is gone from the server's point of view, or has left.
Gone(c) == peer[c] = "closed" \/ Dismissed(c)

\* The numbers of the requests of c that are not answered; what the receiver has in
\* its buffer and what is in the socket is dropped when the connection is cut.
Waiting(c) ==
  LET received == IF Dismissed(c) THEN {} ELSE Range(buffer[c]) \cup Range(inbox[c])
  IN  {r.id : r \in {q \in Handled \cup Queued \cup received : q.from = c}}

\* The first that a connection receives is the hello message.
Answers(c) == [j \in 1 .. Len(replies[c]) - 1 |-> replies[c][j + 1].id]

\* The server is what RequestServer promises, as long as no descriptor is handed out
\* that is in use: no request is lost, none is served twice, none is overtaken by a
\* later one of the same client, and the answer gets through.
Promise == INSTANCE RequestServer WITH
  waiting   <- [c \in Clients |-> Waiting(c)],
  submitted <- sent,
  answers   <- [c \in Clients |-> Answers(c)],
  gone      <- [c \in Clients |-> Gone(c)]

KeepsPromise == Promise!Init /\ [][reused \/ Promise!Next]_(Promise!requestVars)

\* The messages of one client run in the order it sent them.
InClientOrder ==
  \A j, k \in DOMAIN ran : j < k /\ ran[j].from = ran[k].from => ran[j].id <= ran[k].id

\* All items of a message run in order, with no item of another message between
\* them (README.md:68), and the messages of one client in the order it sent them;
\* two receivers that read one connection may swap its messages.
BundlesAreAtomic ==
  /\ \A j \in DOMAIN ran : ran[j].item = ((j - 1) % Items) + 1
  /\ \A j \in 2 .. Len(ran) :
       ran[j].item > 1 => ran[j].from = ran[j-1].from /\ ran[j].id = ran[j-1].id
  /\ reused \/ InClientOrder

\* An R reply is sent only after all items of its message have run, an X reply
\* only to messages of which none has.
RepliesFollowRuns ==
  \A c \in Clients : \A j \in DOMAIN replies[c] :
    LET r == replies[c][j]
        runs == {ran[k].item : k \in {n \in DOMAIN ran : ran[n].from = r.from
                                                       /\ ran[n].id = r.id}}
    IN  /\ r.mid = "R" => runs = 1 .. Items
        /\ r.mid = "X" => runs = {}

\* int Socket; // which client is all this from/for (aioenetd.h:13): a connection
\* receives the replies to its own requests and no others.
RepliesAreOwn ==
  \A c \in Clients : \A j \in DOMAIN replies[c] : replies[c][j].from = c

\* Nothing but an accept() that hands out a descriptor still in use makes a reply
\* go to another client: not the second close() of every receiver, not a reply to
\* a client that has left, not a descriptor that is handed out again later.
MisdeliveredByReuse == reused \/ RepliesAreOwn

\* A receiver thread reads from its own connection only, and that connection is
\* open while the receiver uses it.
OwnConnections ==
  \A c \in Clients :
    /\ rpc[c] = "blocked" => rfile[c] = c
    /\ rpc[c] \in {"hello", "blocked", "process", "huge", "eof"} => fdTable[rfd[c]] = c

\* Nothing but such an accept() makes two receiver threads meet: no other thread
\* reads what is sent to a receiver, or closes its connection under its feet.
ReceiversKeepApart == reused \/ OwnConnections

\* Syntax Errors are caught, and reported, [...] via an X Response Message to the
\* socket/client (TMessage.h:89): the X message of an oversize frame is still there,
\* and its client's connection open, when it is sent.
OversizeIsReported ==
  apc = "send" /\ current.request.kind = "huge" =>
    ~Dangling /\ fdTable[current.fd] = current.request.from

\* The request n of c is answered, or moot: its client has left, or has sent an
\* oversize frame (whose dangling reference may end the process), or a descriptor
\* was reused that was in use.
Settled(c, n) ==
  \/ \E j \in DOMAIN replies[c] : replies[c][j].from = c /\ replies[c][j].id = n
  \/ peer[c] = "closed" \/ Dismissed(c) \/ apc = "crashed" \/ reused

\* The ActionThread is in a send() that need not return.
SendStalls == apc = "send" /\ ~SendReturns

\* Unless a send() blocks the ActionThread for good, every request is settled.
EveryRequestAnswered ==
  []<>~SendStalls => \A c \in Clients : \A n \in 1 .. MaxRequests : sent[c] >= n ~> Settled(c, n)

\* A client that reads its replies has them all, whatever the others do: not kept by
\* the code, in which one client that stops reading can stop the ActionThread.
ReadersAreAnswered ==
  \A c \in Readers : \A n \in 1 .. MaxRequests : sent[c] >= n ~> Settled(c, n)

=============================================================================
