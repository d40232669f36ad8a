-------------------------- MODULE ControlServerProofs --------------------------
(***************************************************************************)
(* Proofs about ControlServer, for any number of clients, descriptors,     *)
(* items and requests, who may connect at any time.  What concerns whose   *)
(* descriptor it is, and the order of a client's requests, holds as long as*)
(* accept() hands out no descriptor that a thread or a message still names:*)
(* the invariants are stated with `reused', and their steps with           *)
(* FreshAccept.                                                            *)
(***************************************************************************)
EXTENDS ControlServer, SequenceTheorems, TLAPS

\* Who works with what: a thread has a descriptor, a read a connection, the
\* ActionThread a message unless it is idle.
Refs ==
  /\ \A c \in Clients : rpc[c] # "none" => rfd[c] \in Fds
  /\ \A c \in Clients : rpc[c] = "blocked" => rfile[c] \in Clients
  /\ IF apc = "idle" THEN current = Nobody ELSE current \in Action

Base == TypeOK /\ Refs

-----------------------------------------------------------------------------
LEMMA SentTyped ==
  ASSUME Base, NEW c \in Clients, SendRequest(c) PROVE Base'
<1>1. PICK k \in Kinds :
        inbox' = [inbox EXCEPT ![c] = Append(@, [from |-> c, id |-> sent'[c], kind |-> k])]
  BY DEF SendRequest
<1>2. /\ sent' = [sent EXCEPT ![c] = @ + 1] /\ sent[c] < MaxRequests
      /\ UNCHANGED <<peer, replies, fdTable, receiverVars, queue, actionVars>>
  BY DEF SendRequest
<1>3. sent' \in [Clients -> 0 .. MaxRequests] /\ sent'[c] \in 1 .. MaxRequests
  BY <1>2, BoundsAssumption DEF Base, TypeOK
<1>4. [from |-> c, id |-> sent'[c], kind |-> k] \in Request /\ inbox[c] \in Seq(Request)
  BY <1>3 DEF Request, Base, TypeOK
<1>5. inbox' \in [Clients -> Seq(Request)]
  BY <1>1, <1>4, AppendProperties DEF Base, TypeOK
<1> QED
  BY <1>2, <1>3, <1>5 DEF Base, TypeOK, Refs, receiverVars, actionVars

LEMMA PeersTyped ==
  ASSUME Base, NEW c \in Clients, AcceptControl(c) \/ Leave(c) PROVE Base'
<1>1. CASE Leave(c)
  BY <1>1 DEF Leave, Base, TypeOK, Refs, receiverVars, actionVars
<1>2. CASE AcceptControl(c)
  <2>1. PICK f \in Fds :
          /\ Accept(c, f)
          /\ rpc' = [rpc EXCEPT ![c] = "hello"]
          /\ rfd' = [rfd EXCEPT ![c] = f]
          /\ UNCHANGED <<sent, inbox, replies, rfile, buffer, queue, actionVars>>
    BY <1>2 DEF AcceptControl
  <2>2. /\ fdTable' \in [Fds -> Clients \cup {None}]
        /\ peer' \in [Clients -> {"idle", "open", "closed"}]
    BY <2>1 DEF Accept, Base, TypeOK
  <2>3. /\ rpc' \in [Clients -> {"none", "hello", "recv", "blocked", "process", "huge",
                                 "eof", "last", "ended"}]
        /\ rfd' \in [Clients -> Fds \cup {-1}]
    BY <2>1 DEF Base, TypeOK
  <2>4. Refs'
    BY <2>1 DEF Base, TypeOK, Refs, actionVars
  <2> QED
    BY <2>1, <2>2, <2>3, <2>4 DEF Base, TypeOK, actionVars
<1> QED
  BY <1>1, <1>2

\* A reply reaches the connection that the descriptor stands for now, or nobody.
Reply == [from : Clients, id : 0 .. MaxRequests, mid : {"H", "R", "X", "garbage"}]

LEMMA SendTyped ==
  ASSUME Base, NEW f \in Fds, NEW r \in Reply, SendTo(f, r)
  PROVE  /\ replies' \in [Clients -> Seq(Reply)]
         /\ \/ replies' = replies
            \/ /\ fdTable[f] \in Clients
               /\ replies' = [replies EXCEPT ![fdTable[f]] = Append(@, r)]
<1>1. replies \in [Clients -> Seq(Reply)] /\ fdTable[f] \in Clients \cup {None}
  BY DEF Base, TypeOK, Reply
<1>2. CASE replies' = replies
  BY <1>1, <1>2
<1>3. CASE fdTable[f] # None /\ replies' = [replies EXCEPT ![fdTable[f]] = Append(@, r)]
  <2>1. fdTable[f] \in Clients /\ replies[fdTable[f]] \in Seq(Reply)
    BY <1>1, <1>3
  <2>2. Append(replies[fdTable[f]], r) \in Seq(Reply)
    BY <2>1, AppendProperties
  <2> QED
    BY <1>1, <1>3, <2>1, <2>2
<1> QED
  BY <1>2, <1>3 DEF SendTo

LEMMA ReceiverTyped ==
  ASSUME Base, NEW c \in Clients, Receiver(c) PROVE Base'
<1>1. CASE Hello(c)
  <2>1. [from |-> c, id |-> 0, mid |-> "H"] \in Reply /\ rfd[c] \in Fds
    BY <1>1, BoundsAssumption DEF Hello, Reply, Base, Refs
  <2>2. replies' \in [Clients -> Seq(Reply)]
    BY <1>1, <2>1, SendTyped DEF Hello
  <2> QED
    BY <1>1, <2>2 DEF Hello, Reply, Base, TypeOK, Refs, receiverVars, actionVars, clientVars
<1>2. CASE Recv(c)
  <2>1. rfd[c] \in Fds /\ fdTable[rfd[c]] \in Clients \cup {None}
    BY <1>2 DEF Recv, Base, TypeOK, Refs
  <2> QED
    BY <1>2, <2>1 DEF Recv, Base, TypeOK, Refs, receiverVars, actionVars, clientVars
<1>3. CASE RecvData(c)
  <2> DEFINE f == rfile[c]
  <2>1. f \in Clients /\ inbox[f] \in Seq(Request) /\ buffer[c] \in Seq(Request)
    BY <1>3 DEF RecvData, Base, TypeOK, Refs
  <2>2. PICK n \in 1 .. Len(inbox[f]) :
          /\ buffer' = [buffer EXCEPT ![c] = @ \o SubSeq(inbox[f], 1, n)]
          /\ inbox' = [inbox EXCEPT ![f] = SubSeq(@, n + 1, Len(@))]
    BY <1>3 DEF RecvData
  <2>3. Len(inbox[f]) \in Nat /\ \A k \in 1 .. Len(inbox[f]) : inbox[f][k] \in Request
    BY <2>1, LenProperties, ElementOfSeq
  <2>4. SubSeq(inbox[f], 1, n) \in Seq(Request)
    <3>1. \A k \in 1 .. n : inbox[f][k] \in Request
      BY <2>3
    <3>2. n \in Int
      BY <2>3
    <3> QED
      BY <3>1, <3>2, SubSeqProperties
  <2>5. SubSeq(inbox[f], n + 1, Len(inbox[f])) \in Seq(Request)
    <3>1. \A k \in n + 1 .. Len(inbox[f]) : inbox[f][k] \in Request
      BY <2>3
    <3>2. n + 1 \in Int /\ Len(inbox[f]) \in Int
      BY <2>3
    <3> QED
      BY <3>1, <3>2, SubSeqProperties
  <2>6. buffer[c] \o SubSeq(inbox[f], 1, n) \in Seq(Request)
    BY <2>1, <2>4, ConcatProperties
  <2>7. buffer' \in [Clients -> Seq(Request)] /\ inbox' \in [Clients -> Seq(Request)]
    BY <2>1, <2>2, <2>5, <2>6 DEF Base, TypeOK
  <2>8. /\ rpc[c] = "blocked" /\ rpc' = [rpc EXCEPT ![c] = "process"]
        /\ UNCHANGED <<peer, sent, replies, fdTable, rfd, rfile, queue, apc, current, item, ran>>
    BY <1>3 DEF RecvData, receiverVars, actionVars, clientVars
  <2>9. TypeOK'
    BY <2>7, <2>8 DEF Base, TypeOK
  <2>10. Refs'
    <3>1. \A d \in Clients : /\ rpc'[d] # "none" => rpc[d] # "none"
                             /\ rpc'[d] = "blocked" => rpc[d] = "blocked"
      BY <2>8 DEF Base, TypeOK
    <3> QED
      BY <2>8, <3>1 DEF Base, Refs
  <2> QED
    BY <2>9, <2>10 DEF Base
<1>4. CASE RecvEnd(c)
  BY <1>4 DEF RecvEnd, Base, TypeOK, Refs, receiverVars, actionVars, clientVars
<1>5. CASE Process(c) \/ ProcessHuge(c)
  <2>1. rfd[c] \in Fds /\ buffer[c] \in Seq(Request) /\ buffer[c] # <<>>
    BY <1>5 DEF Process, ProcessHuge, Base, TypeOK, Refs
  <2>2. Head(buffer[c]) \in Request /\ Tail(buffer[c]) \in Seq(Request)
    BY <2>1, HeadTailProperties
  <2>3. [fd |-> rfd[c], request |-> Head(buffer[c])] \in Action
    BY <2>1, <2>2 DEF Action
  <2>4. /\ queue \in Seq(Action)
        /\ queue' = Append(queue, [fd |-> rfd[c], request |-> Head(buffer[c])])
    BY <1>5 DEF Process, ProcessHuge, Base, TypeOK
  <2>5. queue' \in Seq(Action)
    BY <2>3, <2>4, AppendProperties
  <2>6. /\ buffer \in [Clients -> Seq(Request)]
        /\ \/ buffer' = [buffer EXCEPT ![c] = Tail(@)]
           \/ buffer' = [buffer EXCEPT ![c] = <<>>]
    BY <1>5 DEF Process, ProcessHuge, Base, TypeOK
  <2>7. buffer' \in [Clients -> Seq(Request)]
    BY <2>2, <2>6, EmptySeq
  <2>8. /\ rpc[c] = "process" /\ (rpc' = rpc \/ rpc' = [rpc EXCEPT ![c] = "huge"])
        /\ UNCHANGED <<peer, sent, inbox, replies, fdTable, rfd, rfile, apc, current, item, ran>>
    BY <1>5 DEF Process, ProcessHuge, receiverVars, actionVars, clientVars
  <2>9. TypeOK'
    <3>1. rpc' \in [Clients -> {"none", "hello", "recv", "blocked", "process", "huge",
                               "eof", "last", "ended"}]
      BY <2>8 DEF Base, TypeOK
    <3> QED
      BY <2>5, <2>7, <2>8, <3>1 DEF Base, TypeOK
  <2>10. Refs'
    <3>1. \A d \in Clients : /\ rpc'[d] # "none" => rpc[d] # "none"
                             /\ rpc'[d] = "blocked" => rpc[d] = "blocked"
      BY <2>8 DEF Base, TypeOK
    <3> QED
      BY <2>8, <3>1 DEF Base, Refs
  <2> QED
    BY <2>9, <2>10 DEF Base
<1>6. CASE ProcessEnd(c)
  BY <1>6 DEF ProcessEnd, Base, TypeOK, Refs, receiverVars, actionVars, clientVars
<1>7. CASE DisconnectHuge(c)
  BY <1>7 DEF DisconnectHuge, Close,
         Base, TypeOK, Refs, receiverVars, actionVars, clientVars
<1>8. CASE DisconnectEof(c)
  BY <1>8 DEF DisconnectEof, Close,
         Base, TypeOK, Refs, receiverVars, actionVars, clientVars
<1>9. CASE DisconnectLast(c)
  BY <1>9 DEF DisconnectLast, Close,
         Base, TypeOK, Refs, receiverVars, actionVars, clientVars
<1> QED
  BY <1>1, <1>2, <1>3, <1>4, <1>5, <1>6, <1>7, <1>8, <1>9 DEF Receiver

LEMMA ActionTyped == ASSUME Base, ActionThread PROVE Base'
<1>1. CASE Dequeue
  <2>1. queue \in Seq(Action) /\ queue # <<>>
    BY <1>1 DEF Dequeue, Base, TypeOK
  <2>2. Head(queue) \in Action /\ Tail(queue) \in Seq(Action)
    BY <2>1, HeadTailProperties
  <2>3. /\ current' = Head(queue) /\ queue' = Tail(queue) /\ item' = 1
        /\ apc' \in {"run", "send"}
        /\ UNCHANGED <<peer, sent, inbox, replies, fdTable, rpc, rfd, rfile, buffer, ran>>
    BY <1>1 DEF Dequeue, receiverVars, clientVars
  <2>4. TypeOK'
    <3>1. item' \in 1 .. Items /\ current' \in Action /\ queue' \in Seq(Action)
      BY <2>2, <2>3, BoundsAssumption
    <3> QED
      BY <2>3, <3>1 DEF Base, TypeOK
  <2> QED
    BY <2>2, <2>3, <2>4 DEF Base, TypeOK, Refs
<1>2. CASE RunItem
  <2>1. current \in Action /\ current.request \in Request /\ item \in 1 .. Items
    BY <1>2 DEF RunItem, Action, Base, Refs, TypeOK
  <2>2. [from |-> current.request.from, id |-> current.request.id, item |-> item]
          \in [from : Clients, id : 1 .. MaxRequests, item : 1 .. Items]
    BY <2>1 DEF Request
  <2>3. ran' \in Seq([from : Clients, id : 1 .. MaxRequests, item : 1 .. Items])
    BY <1>2, <2>2, AppendProperties DEF RunItem, Base, TypeOK
  <2>4. item' \in 1 .. Items /\ apc' \in {"run", "send"}
    BY <1>2, BoundsAssumption DEF RunItem, Base, TypeOK
  <2> QED
    BY <1>2, <2>1, <2>3, <2>4 DEF RunItem, Base, TypeOK, Refs, receiverVars, clientVars
<1>3. CASE SendResponse
  <2>1. current \in Action /\ current.request \in Request /\ current.fd \in Fds
    BY <1>3 DEF SendResponse, Action, Base, Refs
  <2>2. PICK mid \in {"R", "X", "garbage"} :
          SendTo(current.fd, [from |-> current.request.from, id |-> current.request.id,
                              mid |-> mid])
    BY <1>3 DEF SendResponse
  <2>3. [from |-> current.request.from, id |-> current.request.id, mid |-> mid] \in Reply
    BY <2>1, BoundsAssumption DEF Request, Reply
  <2>4. replies' \in [Clients -> Seq(Reply)]
    BY <2>1, <2>2, <2>3, SendTyped
  <2> QED
    BY <1>3, <2>4 DEF SendResponse, Reply, Base, TypeOK, Refs, receiverVars, clientVars
<1>4. CASE Crash
  BY <1>4 DEF Crash, Base, TypeOK, Refs, receiverVars, actionVars, clientVars
<1> QED
  BY <1>1, <1>2, <1>3, <1>4 DEF ActionThread

LEMMA BaseInit == Init => Base
<1> SUFFICES ASSUME Init PROVE Base
  OBVIOUS
<1>1. /\ inbox \in [Clients -> Seq(Request)] /\ buffer \in [Clients -> Seq(Request)]
      /\ replies \in [Clients -> Seq([from : Clients, id : 0 .. MaxRequests,
                                      mid : {"H", "R", "X", "garbage"}])]
      /\ queue \in Seq(Action)
      /\ ran \in Seq([from : Clients, id : 1 .. MaxRequests, item : 1 .. Items])
  BY EmptySeq DEF Init
<1>2. item \in 1 .. Items /\ sent \in [Clients -> 0 .. MaxRequests]
  BY BoundsAssumption DEF Init
<1> QED
  BY <1>1, <1>2 DEF Init, Base, TypeOK, Refs

LEMMA BaseStep == Base /\ [Next]_vars => Base'
<1> SUFFICES ASSUME Base, [Next]_vars PROVE Base'
  OBVIOUS
<1>1. CASE Next
  BY <1>1, SentTyped, PeersTyped, ReceiverTyped, ActionTyped DEF Next
<1>2. CASE UNCHANGED vars
  BY <1>2 DEF vars, Base, TypeOK, Refs, clientVars, receiverVars, actionVars
<1> QED
  BY <1>1, <1>2

LEMMA BaseAlways == Spec => []Base
<1>1. [Step]_<<vars, reused>> => [Next]_vars
  BY DEF Step
<1> QED
  BY <1>1, BaseInit, BaseStep, PTL DEF Spec

\* Types are kept whether or not descriptors are reused.
THEOREM ServerTypeOK == Spec => []TypeOK
<1>1. Base => TypeOK
  BY DEF Base
<1> QED
  BY <1>1, BaseAlways, PTL

-----------------------------------------------------------------------------
(* Whose descriptor it is.                                                 *)

Live(c) == rpc[c] \notin {"none", "ended"}

Connected == \A c \in Clients : peer[c] = "idle" <=> rpc[c] = "none"

\* A descriptor that is open is that of its connection's receiver,
OwnFd == \A f \in Fds : \A c \in Clients : fdTable[f] = c => Live(c) /\ rfd[c] = f

\* and no two receivers have the same one.
DistinctFds == \A c, d \in Clients : Live(c) /\ Live(d) /\ rfd[c] = rfd[d] => c = d

Desc == Connected /\ OwnFd /\ DistinctFds /\ OwnConnections

\* As long as `reused' is not set, no descriptor was handed out that was in use.
LEMMA FreshStep ==
  ASSUME [Step]_<<vars, reused>>, ~reused'
  PROVE  ~reused /\ [Next /\ FreshAccept]_vars
<1>1. CASE Step
  <2>1. reused' = (reused \/ ~FreshAccept) /\ Next
    BY <1>1 DEF Step
  <2> QED
    BY <2>1, Zenon
<1>2. CASE UNCHANGED <<vars, reused>>
  <2>1. vars' = vars /\ reused' = reused
    BY <1>2
  <2> QED
    BY <2>1
<1> QED
  BY <1>1, <1>2

\* What recv() moves from the socket to the buffer.
LEMMA ShiftBack ==
  ASSUME NEW b \in Nat, NEW n \in 1 .. b, NEW k \in 1 .. b - n
  PROVE  k \in Nat /\ n \in Nat /\ k + n \in 1 .. b
  OBVIOUS

LEMMA ShiftAhead ==
  ASSUME NEW a \in Nat, NEW b \in Nat, NEW n \in 1 .. b, NEW k \in 1 .. a + n, ~(k <= a)
  PROVE  k \in Nat /\ k - a \in 1 .. b
  OBVIOUS

LEMMA RecvDataMoves ==
  ASSUME Base, Desc, NEW c \in Clients, RecvData(c)
  PROVE  /\ rpc[c] = "blocked" /\ rpc' = [rpc EXCEPT ![c] = "process"]
         /\ UNCHANGED <<peer, sent, replies, fdTable, rfd, rfile, queue, apc, current, item, ran>>
         /\ inbox[c] \in Seq(Request) /\ buffer[c] \in Seq(Request)
         /\ \A d \in Clients : d # c => inbox'[d] = inbox[d] /\ buffer'[d] = buffer[d]
         /\ \E n \in 1 .. Len(inbox[c]) :
              /\ DOMAIN buffer'[c] = 1 .. Len(buffer[c]) + n
              /\ \A k \in 1 .. Len(buffer[c]) + n :
                   buffer'[c][k] = IF k <= Len(buffer[c]) THEN buffer[c][k]
                                   ELSE inbox[c][k - Len(buffer[c])]
              /\ DOMAIN inbox'[c] = 1 .. Len(inbox[c]) - n
              /\ \A k \in 1 .. Len(inbox[c]) - n : inbox'[c][k] = inbox[c][k + n]
<1>1. /\ rpc[c] = "blocked" /\ rfile[c] = c
      /\ inbox \in [Clients -> Seq(Request)] /\ buffer \in [Clients -> Seq(Request)]
  BY DEF RecvData, Desc, OwnConnections, Base, TypeOK
<1>2. /\ rpc' = [rpc EXCEPT ![c] = "process"]
      /\ UNCHANGED <<peer, sent, replies, fdTable, rfd, rfile, queue, apc, current, item, ran>>
  BY DEF RecvData, receiverVars, actionVars, clientVars
<1>3. PICK n \in 1 .. Len(inbox[c]) :
        /\ buffer' = [buffer EXCEPT ![c] = @ \o SubSeq(inbox[c], 1, n)]
        /\ inbox' = [inbox EXCEPT ![c] = SubSeq(@, n + 1, Len(@))]
  BY <1>1 DEF RecvData
<1>4. /\ inbox[c] \in Seq(Request) /\ buffer[c] \in Seq(Request)
      /\ Len(inbox[c]) \in Nat /\ Len(buffer[c]) \in Nat /\ n \in Int
      /\ \A k \in 1 .. Len(inbox[c]) : inbox[c][k] \in Request
  BY <1>1, LenProperties, ElementOfSeq
<1>5. /\ SubSeq(inbox[c], 1, n) \in Seq(Request) /\ Len(SubSeq(inbox[c], 1, n)) = n
      /\ \A k \in 1 .. n : SubSeq(inbox[c], 1, n)[k] = inbox[c][k]
  <2>1. \A k \in 1 .. n : inbox[c][k] \in Request
    BY <1>4
  <2>2. /\ SubSeq(inbox[c], 1, n) \in Seq(Request)
        /\ Len(SubSeq(inbox[c], 1, n)) = (IF 1 <= n THEN n - 1 + 1 ELSE 0)
        /\ \A k \in 1 .. n - 1 + 1 : SubSeq(inbox[c], 1, n)[k] = inbox[c][1 + k - 1]
    BY <1>4, <2>1, SubSeqProperties
  <2>3. \A k \in 1 .. n : k \in 1 .. n - 1 + 1 /\ 1 + k - 1 = k
    BY <1>4
  <2> QED
    BY <1>4, <2>2, <2>3
<1>6. /\ inbox'[c] \in Seq(Request) /\ Len(inbox'[c]) = Len(inbox[c]) - n
      /\ \A k \in 1 .. Len(inbox[c]) - n : inbox'[c][k] = inbox[c][k + n]
  <2> DEFINE L == Len(inbox[c])
  <2>1. \A k \in n + 1 .. L : inbox[c][k] \in Request
    BY <1>4
  <2>2. inbox'[c] = SubSeq(inbox[c], n + 1, L) /\ n + 1 \in Int /\ L \in Int
    BY <1>1, <1>3, <1>4
  <2>3. /\ inbox'[c] \in Seq(Request)
        /\ Len(inbox'[c]) = (IF n + 1 <= L THEN L - (n + 1) + 1 ELSE 0)
        /\ \A k \in 1 .. L - (n + 1) + 1 : inbox'[c][k] = inbox[c][(n + 1) + k - 1]
    BY <2>1, <2>2, SubSeqProperties
  <2>4. \A k \in 1 .. L - n : k \in 1 .. L - (n + 1) + 1 /\ (n + 1) + k - 1 = k + n
    BY <1>4
  <2> QED
    BY <1>4, <2>3, <2>4
<1>7. /\ buffer'[c] \in Seq(Request) /\ Len(buffer'[c]) = Len(buffer[c]) + n
      /\ \A k \in 1 .. Len(buffer[c]) + n :
           buffer'[c][k] = IF k <= Len(buffer[c]) THEN buffer[c][k]
                           ELSE inbox[c][k - Len(buffer[c])]
  <2>1. buffer'[c] = buffer[c] \o SubSeq(inbox[c], 1, n)
    BY <1>1, <1>3
  <2>2. /\ buffer'[c] \in Seq(Request) /\ Len(buffer'[c]) = Len(buffer[c]) + n
        /\ \A k \in 1 .. Len(buffer[c]) + n :
             buffer'[c][k] = IF k <= Len(buffer[c]) THEN buffer[c][k]
                             ELSE SubSeq(inbox[c], 1, n)[k - Len(buffer[c])]
    BY <1>4, <1>5, <2>1, ConcatProperties
  <2>3. \A k \in 1 .. Len(buffer[c]) + n :
          ~(k <= Len(buffer[c])) => k - Len(buffer[c]) \in 1 .. n
    BY <1>4
  <2> QED
    BY <1>5, <2>2, <2>3
<1>8. DOMAIN buffer'[c] = 1 .. Len(buffer'[c]) /\ DOMAIN inbox'[c] = 1 .. Len(inbox'[c])
  BY <1>6, <1>7, LenProperties
<1>9. \A d \in Clients : d # c => inbox'[d] = inbox[d] /\ buffer'[d] = buffer[d]
  BY <1>1, <1>3
<1> QED
  BY <1>1, <1>2, <1>4, <1>6, <1>7, <1>8, <1>9

\* What ProcessMessages moves from the buffer to the queue.
LEMMA ProcessMoves ==
  ASSUME Base, NEW c \in Clients, Process(c) \/ ProcessHuge(c)
  PROVE  /\ rpc[c] = "process" /\ Head(buffer[c]) = buffer[c][1] /\ 1 \in DOMAIN buffer[c]
         /\ UNCHANGED <<peer, sent, inbox, replies, fdTable, rfd, rfile, apc, current, item, ran>>
         /\ \/ Process(c) /\ rpc' = rpc
            \/ ProcessHuge(c) /\ rpc' = [rpc EXCEPT ![c] = "huge"]
         /\ \A d \in Clients : d # c => buffer'[d] = buffer[d]
         /\ \A k \in DOMAIN buffer'[c] :
              k + 1 \in DOMAIN buffer[c] /\ buffer'[c][k] = buffer[c][k + 1] /\ k \in Nat /\ k >= 1
         /\ queue \in Seq(Action) /\ Len(queue) \in Nat
         /\ DOMAIN queue' = 1 .. Len(queue) + 1 /\ DOMAIN queue = 1 .. Len(queue)
         /\ \A k \in 1 .. Len(queue) : queue'[k] = queue[k]
         /\ queue'[Len(queue) + 1] = [fd |-> rfd[c], request |-> buffer[c][1]]
<1>1. /\ rpc[c] = "process" /\ buffer[c] # <<>> /\ buffer[c] \in Seq(Request)
      /\ buffer \in [Clients -> Seq(Request)] /\ queue \in Seq(Action) /\ rfd[c] \in Fds
  BY DEF Process, ProcessHuge, Base, TypeOK, Refs
<1>2. /\ queue' = Append(queue, [fd |-> rfd[c], request |-> Head(buffer[c])])
      /\ \/ Process(c) /\ rpc' = rpc /\ buffer' = [buffer EXCEPT ![c] = Tail(@)]
         \/ /\ ProcessHuge(c) /\ rpc' = [rpc EXCEPT ![c] = "huge"]
            /\ buffer' = [buffer EXCEPT ![c] = <<>>]
      /\ UNCHANGED <<peer, sent, inbox, replies, fdTable, rfd, rfile, apc, current, item, ran>>
  BY DEF Process, ProcessHuge, receiverVars, actionVars, clientVars
<1>3. /\ Head(buffer[c]) \in Request /\ Head(buffer[c]) = buffer[c][1]
      /\ Tail(buffer[c]) \in Seq(Request) /\ Len(Tail(buffer[c])) = Len(buffer[c]) - 1
      /\ \A k \in 1 .. Len(Tail(buffer[c])) : Tail(buffer[c])[k] = buffer[c][k + 1]
  BY <1>1, HeadTailProperties
<1>4. /\ Len(buffer[c]) \in Nat /\ Len(buffer[c]) >= 1
      /\ DOMAIN buffer[c] = 1 .. Len(buffer[c])
      /\ DOMAIN Tail(buffer[c]) = 1 .. Len(Tail(buffer[c]))
  BY <1>1, <1>3, LenProperties, EmptySeq
<1>5. \A k \in DOMAIN buffer'[c] :
        k + 1 \in DOMAIN buffer[c] /\ buffer'[c][k] = buffer[c][k + 1] /\ k \in Nat /\ k >= 1
  <2>1. CASE buffer' = [buffer EXCEPT ![c] = Tail(@)]
    <3>1. buffer'[c] = Tail(buffer[c])
      BY <1>1, <2>1
    <3> QED
      BY <1>3, <1>4, <3>1
  <2>2. CASE buffer' = [buffer EXCEPT ![c] = <<>>]
    <3>1. buffer'[c] = <<>>
      BY <1>1, <2>2
    <3> QED
      BY <3>1
  <2> QED
    BY <1>2, <2>1, <2>2
<1>6. [fd |-> rfd[c], request |-> Head(buffer[c])] \in Action
  BY <1>1, <1>3 DEF Action
<1>7. /\ queue' \in Seq(Action) /\ Len(queue') = Len(queue) + 1
      /\ \A k \in 1 .. Len(queue) : queue'[k] = queue[k]
      /\ queue'[Len(queue) + 1] = [fd |-> rfd[c], request |-> Head(buffer[c])]
  BY <1>1, <1>2, <1>6, AppendProperties
<1>8. DOMAIN queue = 1 .. Len(queue) /\ DOMAIN queue' = 1 .. Len(queue') /\ Len(queue) \in Nat
  BY <1>1, <1>7, LenProperties
<1>9. \A d \in Clients : d # c => buffer'[d] = buffer[d]
  BY <1>1, <1>2
<1>10. 1 \in DOMAIN buffer[c]
  BY <1>4
<1> QED
  BY <1>1, <1>2, <1>3, <1>5, <1>7, <1>8, <1>9, <1>10

\* A connection is made: its descriptor was free, and no receiver had it.
LEMMA AcceptApart ==
  ASSUME Base, Desc, FreshAccept, NEW c \in Clients, AcceptControl(c) PROVE Desc'
<1>1. PICK f \in Fds :
        /\ Accept(c, f)
        /\ rpc' = [rpc EXCEPT ![c] = "hello"]
        /\ rfd' = [rfd EXCEPT ![c] = f]
        /\ UNCHANGED <<sent, inbox, replies, rfile, buffer, queue, actionVars>>
  BY DEF AcceptControl
<1>2. /\ peer[c] = "idle" /\ fdTable[f] = None
      /\ fdTable' = [fdTable EXCEPT ![f] = c] /\ peer' = [peer EXCEPT ![c] = "open"]
      /\ UNCHANGED rfile
  BY <1>1 DEF Accept, FreeFds
<1>3. /\ peer \in [Clients -> {"idle", "open", "closed"}] /\ fdTable \in [Fds -> Clients \cup {None}]
      /\ rpc \in [Clients -> {"none", "hello", "recv", "blocked", "process", "huge",
                              "eof", "last", "ended"}]
      /\ rfd \in [Clients -> Fds \cup {-1}] /\ c # None
  BY ClientsAssumption DEF Base, TypeOK
<1>4. ~InUse(f)
  BY <1>2, <1>3 DEF FreshAccept
<1>5. rpc[c] = "none" /\ \A d \in Clients : Live(d) => rfd[d] # f /\ d # c
  BY <1>2, <1>4 DEF Desc, Connected, InUse, Live
<1>6. Connected'
  BY <1>1, <1>2, <1>3 DEF Desc, Connected
<1>7. OwnFd'
  BY <1>1, <1>2, <1>3, <1>5 DEF Desc, OwnFd, Live
<1>8. DistinctFds'
  BY <1>1, <1>3, <1>5 DEF Desc, DistinctFds, Live
<1>9. OwnConnections'
  BY <1>1, <1>2, <1>3, <1>5 DEF Desc, OwnConnections, Live
<1> QED
  BY <1>6, <1>7, <1>8, <1>9 DEF Desc

\* A client sends, or leaves.
LEMMA ClientApart ==
  ASSUME Base, Desc, NEW c \in Clients, SendRequest(c) \/ Leave(c) PROVE Desc'
<1>1. UNCHANGED <<fdTable, rpc, rfd, rfile>>
  BY DEF SendRequest, Leave, receiverVars
<1>2. \A d \in Clients : peer'[d] = "idle" <=> peer[d] = "idle"
  BY DEF SendRequest, Leave, Base, TypeOK
<1> QED
  BY <1>1, <1>2 DEF Desc, Connected, OwnFd, DistinctFds, OwnConnections, Live

\* A receiver that closes nothing.
LEMMA ReadApart ==
  ASSUME Base, Desc, NEW c \in Clients,
         Hello(c) \/ Recv(c) \/ RecvEnd(c) \/ ProcessEnd(c)
  PROVE  Desc'
<1>1. /\ UNCHANGED <<peer, inbox, fdTable, rfd, buffer>>
      /\ rpc[c] \in {"hello", "recv", "blocked", "process"}
      /\ \E p \in {"recv", "last", "blocked", "eof"} : rpc' = [rpc EXCEPT ![c] = p]
  BY DEF Hello, Recv, RecvEnd, ProcessEnd, clientVars
<1>2. /\ rpc \in [Clients -> {"none", "hello", "recv", "blocked", "process", "huge",
                              "eof", "last", "ended"}]
      /\ fdTable \in [Fds -> Clients \cup {None}] /\ rfd[c] \in Fds
      /\ rfile \in [Clients -> Clients \cup {None}]
  BY <1>1 DEF Base, TypeOK, Refs
<1>3. Connected' /\ OwnFd' /\ DistinctFds'
  BY <1>1, <1>2 DEF Desc, Connected, OwnFd, DistinctFds, Live
<1>4. ASSUME NEW d \in Clients
      PROVE  /\ rpc'[d] = "blocked" => rfile'[d] = d
             /\ rpc'[d] \in {"hello", "blocked", "process", "huge", "eof"} => fdTable[rfd[d]] = d
  <2>1. CASE d # c
    <3>1. rpc'[d] = rpc[d] /\ rfile'[d] = rfile[d]
      BY <1>1, <1>2, <2>1 DEF Hello, Recv, RecvEnd, ProcessEnd
    <3> QED
      BY <3>1 DEF Desc, OwnConnections
  <2>2. CASE d = c /\ Recv(c)
    <3>1. CASE fdTable[rfd[c]] = None
      BY <1>2, <2>2, <3>1 DEF Recv
    <3>2. CASE fdTable[rfd[c]] # None
      <4>1. fdTable[rfd[c]] = c
        BY <1>1, <1>2, <3>2 DEF Desc, OwnFd, DistinctFds, Live
      <4> QED
        BY <1>2, <2>2, <4>1 DEF Recv
    <3> QED
      BY <3>1, <3>2
  <2>3. CASE d = c /\ RecvEnd(c)
    BY <1>2, <2>3 DEF RecvEnd, Desc, OwnConnections
  <2>4. CASE d = c /\ (Hello(c) \/ ProcessEnd(c))
    BY <1>2, <2>4 DEF Hello, ProcessEnd
  <2> QED
    BY <2>1, <2>2, <2>3, <2>4
<1>5. OwnConnections'
  BY <1>1, <1>4 DEF OwnConnections
<1> QED
  BY <1>3, <1>5 DEF Desc

LEMMA MoveApart ==
  ASSUME Base, Desc, NEW c \in Clients, RecvData(c) \/ Process(c) \/ ProcessHuge(c)
  PROVE  Desc'
<1>1. /\ UNCHANGED <<peer, fdTable, rfd, rfile>>
      /\ \/ rpc[c] = "blocked" /\ rpc' = [rpc EXCEPT ![c] = "process"]
         \/ rpc[c] = "process" /\ rpc' = rpc
         \/ rpc[c] = "process" /\ ProcessHuge(c) /\ rpc' = [rpc EXCEPT ![c] = "huge"]
  <2>1. CASE RecvData(c)
    BY <2>1, RecvDataMoves
  <2>2. CASE Process(c) \/ ProcessHuge(c)
    BY <2>2, ProcessMoves
  <2> QED
    BY <2>1, <2>2
<1>2. rpc \in [Clients -> {"none", "hello", "recv", "blocked", "process", "huge",
                           "eof", "last", "ended"}]
  BY DEF Base, TypeOK
<1> QED
  BY <1>1, <1>2 DEF Desc, Connected, OwnFd, DistinctFds, OwnConnections, Live

\* A receiver closes its own descriptor, and nobody else's.
LEMMA CloseApart ==
  ASSUME Base, Desc, NEW c \in Clients,
         DisconnectHuge(c) \/ DisconnectEof(c) \/ DisconnectLast(c)
  PROVE  Desc'
<1>1. /\ UNCHANGED <<peer, inbox, rfd, rfile, buffer>>
      /\ rpc[c] \in {"huge", "eof", "last"}
      /\ \E p \in {"recv", "last", "ended"} : rpc' = [rpc EXCEPT ![c] = p]
      /\ fdTable' = [fdTable EXCEPT ![rfd[c]] = None]
  BY DEF DisconnectHuge, DisconnectEof, DisconnectLast, Close, clientVars
<1>2. /\ rpc \in [Clients -> {"none", "hello", "recv", "blocked", "process", "huge",
                              "eof", "last", "ended"}]
      /\ fdTable \in [Fds -> Clients \cup {None}] /\ rfd[c] \in Fds
  BY <1>1 DEF Base, TypeOK, Refs
<1>3. Connected' /\ DistinctFds'
  BY <1>1, <1>2 DEF Desc, Connected, DistinctFds, Live
<1>4. \A d \in Clients : fdTable[rfd[c]] = d => d = c
  BY <1>1, <1>2 DEF Desc, OwnFd, DistinctFds, Live
<1>5. OwnFd'
  BY <1>1, <1>2, <1>4, ClientsAssumption DEF Desc, OwnFd, Live
<1>6. OwnConnections'
  <2> SUFFICES ASSUME NEW d \in Clients
               PROVE  /\ rpc'[d] = "blocked" => rfile[d] = d
                      /\ rpc'[d] \in {"hello", "blocked", "process", "huge", "eof"}
                           => fdTable'[rfd[d]] = d
    BY <1>1 DEF OwnConnections
  <2>1. CASE d = c
    BY <1>1, <1>2, <2>1
  <2>2. CASE d # c
    <3>1. rpc'[d] = rpc[d]
      BY <1>1, <1>2, <2>2
    <3>2. Live(d) => rfd[d] # rfd[c] /\ rfd[d] \in Fds
      BY <1>1, <2>2 DEF Desc, DistinctFds, Base, Refs, Live
    <3> QED
      BY <1>1, <1>2, <3>1, <3>2 DEF Desc, OwnConnections, Live
  <2> QED
    BY <2>1, <2>2
<1> QED
  BY <1>3, <1>5, <1>6 DEF Desc

LEMMA DescSame ==
  ASSUME Desc, UNCHANGED <<peer, fdTable, rpc, rfd, rfile>> PROVE Desc'
BY DEF Desc, Connected, OwnFd, DistinctFds, OwnConnections, Live

LEMMA DescInit == Init => Desc
<1> SUFFICES ASSUME Init PROVE Desc
  OBVIOUS
<1>1. \A c \in Clients : peer[c] = "idle" /\ rpc[c] = "none" /\ c # None
  BY ClientsAssumption DEF Init
<1>2. \A f \in Fds : fdTable[f] = None
  BY DEF Init
<1> QED
  BY <1>1, <1>2 DEF Desc, Connected, OwnFd, DistinctFds, OwnConnections, Live

LEMMA DescStep == ASSUME Base, Desc, [Next /\ FreshAccept]_vars PROVE Desc'
<1>1. ASSUME NEW c \in Clients, FreshAccept, AcceptControl(c) PROVE Desc'
  BY <1>1, AcceptApart
<1>2. ASSUME NEW c \in Clients, SendRequest(c) \/ Leave(c) PROVE Desc'
  BY <1>2, ClientApart
<1>3. ASSUME NEW c \in Clients, Receiver(c) PROVE Desc'
  BY <1>3, ReadApart, MoveApart, CloseApart DEF Receiver
<1>4. CASE ActionThread \/ UNCHANGED vars
  <2>1. UNCHANGED <<peer, fdTable, rpc, rfd, rfile>>
    BY <1>4 DEF ActionThread, Dequeue, RunItem, SendResponse, Crash, clientVars, receiverVars, vars
  <2> QED
    BY <2>1, DescSame
<1> QED
  BY <1>1, <1>2, <1>3, <1>4 DEF Next

\* Connections may be made at any time, and descriptors handed out again; the second
\* close() that every receiver makes hits another one, and a receiver reads from
\* another connection than its own, only after an accept() handed out a descriptor
\* that a receiver or a queued message still named.
THEOREM KeptApart == Spec => []ReceiversKeepApart
<1>1. Init => Desc
  BY DescInit
<1>2. Base /\ (reused \/ Desc) /\ [Step]_<<vars, reused>> => reused' \/ Desc'
  <2> SUFFICES ASSUME Base, reused \/ Desc, [Step]_<<vars, reused>>, ~reused' PROVE Desc'
    OBVIOUS
  <2> QED
    BY FreshStep, DescStep
<1>3. reused \/ Desc => ReceiversKeepApart
  BY DEF Desc, ReceiversKeepApart
<1> QED
  BY <1>1, <1>2, <1>3, BaseAlways, PTL DEF Spec

-----------------------------------------------------------------------------
(* Whose replies they are.                                                 *)

\* A message in the queue names the descriptor of the receiver it came through,
\* which is open for no other connection.
Named(a) == /\ rpc[a.request.from] # "none" /\ rfd[a.request.from] = a.fd
            /\ fdTable[a.fd] \in {None, a.request.from}

OwnFrames(s, c) == \A k \in DOMAIN s : s[k].from = c

Own ==
  /\ \A c \in Clients : OwnFrames(inbox[c], c) /\ OwnFrames(buffer[c], c)
  /\ \A k \in DOMAIN queue : Named(queue[k])
  /\ apc # "idle" => Named(current)
  /\ RepliesAreOwn

\* A receiver keeps the descriptor it was created with.
LEMMA ThreadStays ==
  ASSUME Base, Desc, [Next]_vars, NEW c \in Clients, rpc[c] # "none"
  PROVE  rpc'[c] # "none" /\ rfd'[c] = rfd[c]
<1>1. /\ rpc \in [Clients -> {"none", "hello", "recv", "blocked", "process", "huge",
                              "eof", "last", "ended"}]
      /\ rfd \in [Clients -> Fds \cup {-1}]
  BY DEF Base, TypeOK
<1>2. ASSUME NEW d \in Clients, AcceptControl(d) PROVE rpc'[c] # "none" /\ rfd'[c] = rfd[c]
  <2>1. d # c
    BY <1>2 DEF AcceptControl, Accept, Desc, Connected
  <2> QED
    BY <1>1, <1>2, <2>1 DEF AcceptControl
<1>3. ASSUME NEW d \in Clients, Receiver(d) PROVE rpc'[c] # "none" /\ rfd'[c] = rfd[c]
  <2>1. rfd' = rfd /\ (rpc' = rpc \/ \E p : p # "none" /\ rpc' = [rpc EXCEPT ![d] = p])
    <3>1. CASE Hello(d) \/ RecvData(d) \/ RecvEnd(d) \/ Process(d) \/ ProcessEnd(d)
               \/ ProcessHuge(d) \/ DisconnectHuge(d) \/ DisconnectEof(d) \/ DisconnectLast(d)
      BY <3>1 DEF Hello, RecvData, RecvEnd, Process, ProcessEnd, ProcessHuge,
                  DisconnectHuge, DisconnectEof, DisconnectLast
    <3>2. CASE Recv(d)
      BY <3>2 DEF Recv
    <3> QED
      BY <1>3, <3>1, <3>2 DEF Receiver
  <2> QED
    BY <1>1, <2>1
<1>4. CASE ActionThread \/ UNCHANGED vars \/ \E d \in Clients : SendRequest(d) \/ Leave(d)
  BY <1>4 DEF ActionThread, Dequeue, RunItem, SendResponse, Crash, SendRequest, Leave,
              receiverVars, vars
<1> QED
  BY <1>2, <1>3, <1>4 DEF Next

\* A descriptor in use is not opened for another connection.
LEMMA TableStays ==
  ASSUME Base, [Next /\ FreshAccept]_vars, NEW f \in Fds, InUse(f)
  PROVE  fdTable'[f] \in {fdTable[f], None}
<1>1. fdTable \in [Fds -> Clients \cup {None}]
  BY DEF Base, TypeOK
<1>2. ASSUME NEW d \in Clients, FreshAccept, AcceptControl(d)
      PROVE fdTable'[f] \in {fdTable[f], None}
  <2>1. PICK g \in Fds : fdTable[g] = None /\ fdTable' = [fdTable EXCEPT ![g] = d]
    BY <1>2 DEF AcceptControl, Accept, FreeFds
  <2>2. ~InUse(g)
    BY <1>1, <1>2, <2>1, ClientsAssumption DEF FreshAccept
  <2> QED
    BY <1>1, <2>1, <2>2
<1>3. ASSUME NEW d \in Clients, Receiver(d) PROVE fdTable'[f] \in {fdTable[f], None}
  <2>1. fdTable' = fdTable \/ \E g : fdTable' = [fdTable EXCEPT ![g] = None]
    <3>1. CASE Hello(d) \/ Recv(d) \/ RecvData(d) \/ RecvEnd(d) \/ Process(d)
               \/ ProcessEnd(d) \/ ProcessHuge(d)
      BY <3>1 DEF Hello, Recv, RecvData, RecvEnd, Process, ProcessEnd, ProcessHuge
    <3>2. CASE DisconnectHuge(d) \/ DisconnectEof(d) \/ DisconnectLast(d)
      BY <3>2 DEF DisconnectHuge, DisconnectEof, DisconnectLast, Close
    <3> QED
      BY <1>3, <3>1, <3>2 DEF Receiver
  <2> QED
    BY <1>1, <2>1
<1>4. CASE ActionThread \/ UNCHANGED vars \/ \E d \in Clients : SendRequest(d) \/ Leave(d)
  BY <1>4 DEF ActionThread, Dequeue, RunItem, SendResponse, Crash, SendRequest, Leave, vars
<1> QED
  BY <1>2, <1>3, <1>4 DEF Next

\* A reply sent to a named descriptor reaches the client it is for, or nobody.
LEMMA SendOwn ==
  ASSUME Base, RepliesAreOwn, NEW f \in Fds, NEW r \in Reply, SendTo(f, r),
         fdTable[f] \in {None, r.from}
  PROVE  RepliesAreOwn'
<1>1. replies \in [Clients -> Seq(Reply)] /\ r.from \in Clients
  BY DEF Base, TypeOK, Reply
<1>2. CASE replies' = replies
  BY <1>2 DEF RepliesAreOwn
<1>3. CASE fdTable[f] \in Clients /\ replies' = [replies EXCEPT ![fdTable[f]] = Append(@, r)]
  <2>1. fdTable[f] = r.from
    BY <1>3, ClientsAssumption
  <2>2. ASSUME NEW d \in Clients, NEW j \in DOMAIN replies'[d] PROVE replies'[d][j].from = d
    <3>1. CASE d = r.from
      <4>1. replies[d] \in Seq(Reply) /\ replies'[d] = Append(replies[d], r)
        BY <1>1, <1>3, <2>1, <3>1
      <4>2. /\ Append(replies[d], r) \in Seq(Reply)
            /\ DOMAIN Append(replies[d], r) = 1 .. Len(replies[d]) + 1
            /\ DOMAIN replies[d] = 1 .. Len(replies[d]) /\ Len(replies[d]) \in Nat
            /\ \A i \in 1 .. Len(replies[d]) : Append(replies[d], r)[i] = replies[d][i]
            /\ Append(replies[d], r)[Len(replies[d]) + 1] = r
        BY <4>1, AppendProperties, LenProperties
      <4>3. j \in 1 .. Len(replies[d]) \/ j = Len(replies[d]) + 1
        BY <2>2, <4>1, <4>2
      <4> QED
        BY <3>1, <4>1, <4>2, <4>3 DEF RepliesAreOwn
    <3>2. CASE d # r.from
      BY <1>1, <1>3, <2>1, <2>2, <3>2 DEF RepliesAreOwn
    <3> QED
      BY <3>1, <3>2
  <2> QED
    BY <2>2 DEF RepliesAreOwn
<1> QED
  BY <1>2, <1>3, SendTyped

\* Where the frames are that a step leaves alone.
LEMMA OwnSame ==
  ASSUME Base, Desc, Own, [Next /\ FreshAccept]_vars,
         UNCHANGED <<inbox, buffer, queue, current, replies>>,
         apc' # "idle" => apc # "idle"
  PROVE  Own'
<1>1. ASSUME NEW a \in Action, Named(a), InUse(a.fd) PROVE Named(a)'
  <2>1. a.fd \in Fds /\ a.request.from \in Clients
    BY DEF Action, Request
  <2>2. rpc'[a.request.from] # "none" /\ rfd'[a.request.from] = rfd[a.request.from]
    BY <1>1, <2>1, ThreadStays DEF Named
  <2>3. fdTable'[a.fd] \in {fdTable[a.fd], None}
    BY <1>1, <2>1, TableStays
  <2> QED
    BY <1>1, <2>2, <2>3 DEF Named
<1>2. \A k \in DOMAIN queue : queue[k] \in Action
  BY ElementOfSeq DEF Base, TypeOK
<1>3. \A k \in DOMAIN queue' : Named(queue[k])'
  <2> SUFFICES ASSUME NEW k \in DOMAIN queue PROVE Named(queue[k])'
    OBVIOUS
  <2>1. InUse(queue[k].fd) /\ Named(queue[k]) /\ queue[k] \in Action
    BY <1>2 DEF InUse, Own
  <2> QED
    BY <1>1, <2>1
<1>4. apc' # "idle" => Named(current)'
  <2> SUFFICES ASSUME apc' # "idle" PROVE Named(current)'
    OBVIOUS
  <2>1. InUse(current.fd) /\ Named(current) /\ current \in Action
    BY DEF InUse, Own, Base, Refs
  <2> QED
    BY <1>1, <2>1
<1> QED
  BY <1>3, <1>4 DEF Own, Named, OwnFrames, RepliesAreOwn

LEMMA OwnSent ==
  ASSUME Base, Desc, Own, NEW c \in Clients, SendRequest(c) PROVE Own'
<1>1. PICK k \in Kinds :
        inbox' = [inbox EXCEPT ![c] = Append(@, [from |-> c, id |-> sent'[c], kind |-> k])]
  BY DEF SendRequest
<1>0. sent'[c] \in 1 .. MaxRequests
  <2>1. sent' = [sent EXCEPT ![c] = @ + 1] /\ sent[c] < MaxRequests
    BY DEF SendRequest
  <2>2. sent[c] \in 0 .. MaxRequests /\ sent \in [Clients -> 0 .. MaxRequests] /\ MaxRequests \in Nat
    BY BoundsAssumption DEF Base, TypeOK
  <2>3. sent'[c] = sent[c] + 1
    BY <2>1, <2>2
  <2> QED
    BY <2>1, <2>2, <2>3
<1> DEFINE r == [from |-> c, id |-> sent'[c], kind |-> k]
<1>2. UNCHANGED <<replies, fdTable, rpc, rfd, buffer, queue, apc, current>>
  BY DEF SendRequest, receiverVars, actionVars
<1>3. /\ inbox \in [Clients -> Seq(Request)] /\ inbox'[c] = Append(inbox[c], r)
      /\ r.from = c /\ \A d \in Clients : d # c => inbox'[d] = inbox[d]
  BY <1>1 DEF Base, TypeOK
<1>4. r \in Request
  BY <1>0, <1>1 DEF Request
<1> HIDE DEF r
<1>5. /\ Len(inbox[c]) \in Nat /\ DOMAIN inbox[c] = 1 .. Len(inbox[c])
      /\ DOMAIN inbox'[c] = 1 .. Len(inbox[c]) + 1
      /\ \A j \in 1 .. Len(inbox[c]) : inbox'[c][j] = inbox[c][j]
      /\ inbox'[c][Len(inbox[c]) + 1] = r
  <2>1. inbox[c] \in Seq(Request)
    BY <1>3
  <2>2. /\ Append(inbox[c], r) \in Seq(Request)
        /\ Len(Append(inbox[c], r)) = Len(inbox[c]) + 1
        /\ \A j \in 1 .. Len(inbox[c]) : Append(inbox[c], r)[j] = inbox[c][j]
        /\ Append(inbox[c], r)[Len(inbox[c]) + 1] = r
    BY <1>4, <2>1, AppendProperties
  <2> QED
    BY <1>3, <2>1, <2>2, LenProperties
<1>6. OwnFrames(inbox'[c], c)
  BY <1>3, <1>5 DEF Own, OwnFrames
<1>7. \A d \in Clients : OwnFrames(inbox'[d], d) /\ OwnFrames(buffer'[d], d)
  BY <1>2, <1>3, <1>6 DEF Own
<1>8. (\A j \in DOMAIN queue : Named(queue[j]))'
  BY <1>2 DEF Own, Named
<1>9. (apc # "idle" => Named(current))'
  BY <1>2 DEF Own, Named
<1>10. RepliesAreOwn'
  BY <1>2 DEF Own, RepliesAreOwn
<1> QED
  BY <1>7, <1>8, <1>9, <1>10 DEF Own, OwnFrames

LEMMA OwnMoved ==
  ASSUME Base, Desc, Own, NEW c \in Clients, RecvData(c) \/ Process(c) \/ ProcessHuge(c)
  PROVE  Own'
<1>1. CASE RecvData(c)
  <2>1. PICK n \in 1 .. Len(inbox[c]) :
          /\ DOMAIN buffer'[c] = 1 .. Len(buffer[c]) + n
          /\ \A k \in 1 .. Len(buffer[c]) + n :
               buffer'[c][k] = IF k <= Len(buffer[c]) THEN buffer[c][k]
                               ELSE inbox[c][k - Len(buffer[c])]
          /\ DOMAIN inbox'[c] = 1 .. Len(inbox[c]) - n
          /\ \A k \in 1 .. Len(inbox[c]) - n : inbox'[c][k] = inbox[c][k + n]
    BY <1>1, RecvDataMoves
  <2>2. /\ UNCHANGED <<replies, fdTable, rfd, queue, apc, current>>
        /\ rpc[c] = "blocked" /\ rpc' = [rpc EXCEPT ![c] = "process"]
        /\ inbox[c] \in Seq(Request) /\ buffer[c] \in Seq(Request)
        /\ \A d \in Clients : d # c => inbox'[d] = inbox[d] /\ buffer'[d] = buffer[d]
    BY <1>1, RecvDataMoves
  <2>3. /\ Len(inbox[c]) \in Nat /\ Len(buffer[c]) \in Nat
        /\ DOMAIN inbox[c] = 1 .. Len(inbox[c]) /\ DOMAIN buffer[c] = 1 .. Len(buffer[c])
    BY <2>2, LenProperties
  <2>4. /\ \A k \in 1 .. Len(inbox[c]) : inbox[c][k].from = c
        /\ \A k \in 1 .. Len(buffer[c]) : buffer[c][k].from = c
    BY <2>3 DEF Own, OwnFrames
  <2>5. OwnFrames(inbox'[c], c)
    <3>1. ASSUME NEW k \in DOMAIN inbox'[c] PROVE inbox'[c][k].from = c
      <4>1. k \in 1 .. Len(inbox[c]) - n
        BY <2>1
      <4>2. inbox'[c][k] = inbox[c][k + n]
        BY <2>1, <4>1
      <4>3. k + n \in 1 .. Len(inbox[c])
        BY <2>3, <4>1, ShiftBack
      <4> QED
        BY <2>4, <4>2, <4>3
    <3> QED
      BY <3>1 DEF OwnFrames
  <2>6. OwnFrames(buffer'[c], c)
    <3>1. ASSUME NEW k \in DOMAIN buffer'[c] PROVE buffer'[c][k].from = c
      <4>1. CASE k <= Len(buffer[c])
        BY <2>1, <2>3, <2>4, <4>1
      <4>2. CASE ~(k <= Len(buffer[c]))
        <5>1. k - Len(buffer[c]) \in 1 .. Len(inbox[c])
          BY <2>1, <2>3, <4>2
        <5> QED
          BY <2>1, <2>4, <4>2, <5>1
      <4> QED
        BY <4>1, <4>2
    <3> QED
      BY <3>1 DEF OwnFrames
  <2>7. rpc \in [Clients -> {"none", "hello", "recv", "blocked", "process", "huge",
                             "eof", "last", "ended"}]
    BY DEF Base, TypeOK
  <2>8. ASSUME NEW a, Named(a) PROVE Named(a)'
    BY <2>2, <2>7, <2>8 DEF Named
  <2>9. ASSUME NEW d \in Clients PROVE OwnFrames(inbox'[d], d) /\ OwnFrames(buffer'[d], d)
    BY <2>2, <2>5, <2>6 DEF Own
  <2> QED
    BY <2>2, <2>8, <2>9 DEF Own, RepliesAreOwn
<1>2. CASE Process(c) \/ ProcessHuge(c)
  <2>1. /\ UNCHANGED <<replies, inbox, fdTable, rfd, apc, current>>
        /\ rpc[c] = "process" /\ (rpc' = rpc \/ rpc' = [rpc EXCEPT ![c] = "huge"])
        /\ 1 \in DOMAIN buffer[c]
        /\ \A d \in Clients : d # c => buffer'[d] = buffer[d]
        /\ \A k \in DOMAIN buffer'[c] :
             k + 1 \in DOMAIN buffer[c] /\ buffer'[c][k] = buffer[c][k + 1]
    BY <1>2, ProcessMoves
  <2>2. /\ Len(queue) \in Nat /\ DOMAIN queue = 1 .. Len(queue)
        /\ DOMAIN queue' = 1 .. Len(queue) + 1
        /\ \A k \in 1 .. Len(queue) : queue'[k] = queue[k]
        /\ queue'[Len(queue) + 1] = [fd |-> rfd[c], request |-> buffer[c][1]]
    BY <1>2, ProcessMoves
  <2>3. rpc \in [Clients -> {"none", "hello", "recv", "blocked", "process", "huge",
                             "eof", "last", "ended"}]
    BY DEF Base, TypeOK
  <2>4. ASSUME NEW a \in Action, Named(a) PROVE Named(a)'
    <3>1. a.request.from \in Clients
      BY DEF Action, Request
    <3>2. CASE rpc' = rpc
      BY <2>1, <2>4, <3>2 DEF Named
    <3>3. CASE rpc' = [rpc EXCEPT ![c] = "huge"]
      BY <2>1, <2>3, <2>4, <3>1, <3>3 DEF Named
    <3> QED
      BY <2>1, <3>2, <3>3
  <2>5. ASSUME NEW k \in DOMAIN queue' PROVE Named(queue[k])'
    <3>1. CASE k \in 1 .. Len(queue)
      <4>1. queue[k] \in Action /\ Named(queue[k]) /\ queue'[k] = queue[k]
        BY <2>2, <3>1 DEF Own, Base, TypeOK
      <4> PICK a \in Action : a = queue[k]
        BY <4>1
      <4>2. Named(a) /\ queue'[k] = a
        BY <4>1
      <4>3. Named(a)'
        BY <2>4, <4>2
      <4> QED
        BY <4>2, <4>3 DEF Named
    <3>2. CASE k = Len(queue) + 1
      <4>1. queue'[k].fd = rfd[c] /\ queue'[k].request.from = c
        BY <2>1, <2>2, <3>2 DEF Own, OwnFrames
      <4>2. fdTable[rfd[c]] = c
        BY <2>1 DEF Desc, OwnConnections
      <4>3. rpc'[c] # "none"
        BY <2>1, <2>3
      <4> QED
        BY <2>1, <4>1, <4>2, <4>3 DEF Named
    <3> QED
      BY <2>2, <2>5, <3>1, <3>2
  <2>6. OwnFrames(buffer'[c], c)
    BY <2>1 DEF Own, OwnFrames
  <2>7. ASSUME NEW d \in Clients PROVE OwnFrames(inbox'[d], d) /\ OwnFrames(buffer'[d], d)
    BY <2>1, <2>6 DEF Own
  <2>8. apc' # "idle" => Named(current)'
    <3> SUFFICES ASSUME apc # "idle" PROVE Named(current)'
      BY <2>1
    <3> PICK a \in Action : a = current
      BY DEF Base, Refs
    <3>1. Named(a) /\ current' = a
      BY <2>1 DEF Own
    <3>2. Named(a)'
      BY <2>4, <3>1
    <3> QED
      BY <3>1, <3>2 DEF Named
  <2> QED
    BY <2>1, <2>5, <2>7, <2>8 DEF Own, RepliesAreOwn
<1> QED
  BY <1>1, <1>2

LEMMA OwnServed ==
  ASSUME Base, Desc, Own, Dequeue \/ SendResponse \/ \E c \in Clients : Hello(c) PROVE Own'
<1>1. CASE Dequeue
  <2>1. queue \in Seq(Action) /\ queue # <<>>
    BY <1>1 DEF Dequeue, Base, TypeOK
  <2>2. /\ Head(queue) = queue[1] /\ Tail(queue) \in Seq(Action)
        /\ Len(Tail(queue)) = Len(queue) - 1
        /\ \A k \in 1 .. Len(Tail(queue)) : Tail(queue)[k] = queue[k + 1]
    BY <2>1, HeadTailProperties
  <2>3. /\ DOMAIN queue = 1 .. Len(queue) /\ Len(queue) \in Nat /\ Len(queue) >= 1
        /\ DOMAIN Tail(queue) = 1 .. Len(Tail(queue))
    BY <2>1, <2>2, LenProperties, EmptySeq
  <2>4. /\ current' = queue[1] /\ queue' = Tail(queue)
        /\ UNCHANGED <<inbox, replies, fdTable, rpc, rfd, buffer>>
    BY <1>1, <2>2 DEF Dequeue, receiverVars
  <2>5. Named(queue[1]) /\ \A k \in DOMAIN queue' : Named(queue'[k])
    BY <2>2, <2>3, <2>4 DEF Own
  <2> QED
    BY <2>4, <2>5 DEF Own, Named, OwnFrames, RepliesAreOwn
<1>2. CASE SendResponse
  <2>1. /\ current \in Action /\ current.request \in Request /\ current.fd \in Fds
        /\ fdTable[current.fd] \in {None, current.request.from}
    BY <1>2 DEF SendResponse, Action, Base, Refs, Own, Named
  <2>2. PICK mid \in {"R", "X", "garbage"} :
          SendTo(current.fd, [from |-> current.request.from, id |-> current.request.id,
                              mid |-> mid])
    BY <1>2 DEF SendResponse
  <2>3. [from |-> current.request.from, id |-> current.request.id, mid |-> mid] \in Reply
    BY <2>1, BoundsAssumption DEF Request, Reply
  <2>4. RepliesAreOwn'
    BY <2>1, <2>2, <2>3, SendOwn DEF Own
  <2> QED
    BY <1>2, <2>4 DEF SendResponse, Own, Named, OwnFrames, receiverVars
<1>3. CASE \E c \in Clients : Hello(c)
  <2>1. PICK c \in Clients : Hello(c)
    BY <1>3
  <2>2. [from |-> c, id |-> 0, mid |-> "H"] \in Reply /\ rfd[c] \in Fds /\ rpc[c] = "hello"
    BY <2>1, BoundsAssumption DEF Hello, Reply, Base, Refs
  <2>3. RepliesAreOwn'
    BY <2>1, <2>2, SendOwn DEF Hello, Own, Desc, OwnConnections
  <2>4. rpc \in [Clients -> {"none", "hello", "recv", "blocked", "process", "huge",
                             "eof", "last", "ended"}]
    BY DEF Base, TypeOK
  <2>5. /\ rpc' = [rpc EXCEPT ![c] = "recv"]
        /\ UNCHANGED <<inbox, fdTable, rfd, buffer, queue, apc, current>>
    BY <2>1 DEF Hello, actionVars
  <2>6. ASSUME NEW a, Named(a) PROVE Named(a)'
    BY <2>2, <2>4, <2>5, <2>6 DEF Named
  <2> QED
    BY <2>3, <2>5, <2>6 DEF Own, OwnFrames
<1> QED
  BY <1>1, <1>2, <1>3

LEMMA OwnInit == Init => Own
<1> SUFFICES ASSUME Init PROVE Own
  OBVIOUS
<1>1. /\ queue = <<>> /\ apc = "idle"
      /\ \A c \in Clients : inbox[c] = <<>> /\ buffer[c] = <<>> /\ replies[c] = <<>>
  BY DEF Init
<1> QED
  BY <1>1 DEF Own, OwnFrames, RepliesAreOwn

LEMMA OwnStep == ASSUME Base, Desc, Own, [Next /\ FreshAccept]_vars PROVE Own'
<1>1. ASSUME NEW c \in Clients, SendRequest(c) PROVE Own'
  BY <1>1, OwnSent
<1>2. ASSUME NEW c \in Clients, AcceptControl(c) \/ Leave(c) PROVE Own'
  <2>1. UNCHANGED <<inbox, buffer, queue, current, replies, apc>>
    BY <1>2 DEF AcceptControl, Leave, receiverVars, actionVars
  <2> QED
    BY <2>1, OwnSame
<1>3. ASSUME NEW c \in Clients, Receiver(c) PROVE Own'
  <2>1. CASE Hello(c) \/ RecvData(c) \/ Process(c) \/ ProcessHuge(c)
    BY <2>1, OwnMoved, OwnServed
  <2>2. CASE Recv(c) \/ RecvEnd(c) \/ ProcessEnd(c) \/ DisconnectHuge(c) \/ DisconnectEof(c)
             \/ DisconnectLast(c)
    <3>1. UNCHANGED <<inbox, buffer, queue, current, replies, apc>>
      BY <2>2 DEF Recv, RecvEnd, ProcessEnd, DisconnectHuge, DisconnectEof, DisconnectLast,
                  actionVars
    <3> QED
      BY <3>1, OwnSame
  <2> QED
    BY <1>3, <2>1, <2>2 DEF Receiver
<1>4. CASE ActionThread \/ UNCHANGED vars
  <2>1. CASE Dequeue \/ SendResponse
    BY <2>1, OwnServed
  <2>2. CASE RunItem \/ Crash \/ UNCHANGED vars
    <3>1. UNCHANGED <<inbox, buffer, queue, current, replies>> /\ (apc' # "idle" => apc # "idle")
      BY <2>2 DEF RunItem, Crash, receiverVars, actionVars, vars
    <3> QED
      BY <3>1, OwnSame
  <2> QED
    BY <1>4, <2>1, <2>2 DEF ActionThread
<1> QED
  BY <1>1, <1>2, <1>3, <1>4 DEF Next

LEMMA OwnAlways == Spec => [](reused \/ (Desc /\ Own))
<1>1. Init => Desc /\ Own
  BY DescInit, OwnInit
<1>2. Base /\ (reused \/ (Desc /\ Own)) /\ [Step]_<<vars, reused>>
        => reused' \/ (Desc' /\ Own')
  <2> SUFFICES ASSUME Base, reused \/ (Desc /\ Own), [Step]_<<vars, reused>>, ~reused'
               PROVE  Desc' /\ Own'
    OBVIOUS
  <2> QED
    BY FreshStep, DescStep, OwnStep
<1> QED
  BY <1>1, <1>2, BaseAlways, PTL DEF Spec

\* A client receives the replies to its own requests and no others, whoever comes and
\* goes and whichever descriptors are handed out again: a queued message still means
\* its client, or nobody.  The one way out is an accept() that hands out a descriptor
\* while a receiver or a message names it, as after the second close() of a receiver.
THEOREM OwnReplies == Spec => []MisdeliveredByReuse
<1>1. reused \/ (Desc /\ Own) => MisdeliveredByReuse
  BY DEF Own, MisdeliveredByReuse
<1> QED
  BY <1>1, OwnAlways, PTL

-----------------------------------------------------------------------------
(* In which order requests are handled: they move from the socket to the   *)
(* buffer, the queue and the ActionThread, and none overtakes another.     *)

Unsent(c, n)   == n > sent[c]
InInbox(c, n)  == \E k \in DOMAIN inbox[c] : inbox[c][k].id = n
InBuffer(c, n) == \E k \in DOMAIN buffer[c] : buffer[c][k].id = n
InQueue(c, n)  == \E k \in DOMAIN queue : queue[k].request.from = c /\ queue[k].request.id = n
InHand(c, n)   == apc # "idle" /\ current.request.from = c /\ current.request.id = n
HasRun(c, n)   == \E k \in DOMAIN ran : ran[k].from = c /\ ran[k].id = n
Replied(c, n)  == \E d \in Clients : \E j \in DOMAIN replies[d] :
                    replies[d][j].from = c /\ replies[d][j].id = n /\ replies[d][j].mid # "H"

PastBuffer(c, n) == InInbox(c, n) \/ Unsent(c, n)
PastQueue(c, n)  == InBuffer(c, n) \/ PastBuffer(c, n)
PastHand(c, n)   == InQueue(c, n) \/ PastQueue(c, n)

\* What is further along came earlier.
Order == \A c \in Clients : \A n, m \in Nat :
  /\ InInbox(c, n) /\ Unsent(c, m) => n < m
  /\ InBuffer(c, n) /\ PastBuffer(c, m) => n < m
  /\ InQueue(c, n) /\ PastQueue(c, m) => n < m
  /\ InHand(c, n) /\ PastHand(c, m) => n < m
  /\ HasRun(c, n) /\ PastHand(c, m) => n < m
  /\ HasRun(c, n) /\ InHand(c, m) => n <= m
  /\ Replied(c, n) /\ (InHand(c, m) \/ PastHand(c, m)) => n < m

Increasing ==
  /\ \A c \in Clients : \A j, k \in DOMAIN inbox[c] : j < k => inbox[c][j].id < inbox[c][k].id
  /\ \A c \in Clients : \A j, k \in DOMAIN buffer[c] : j < k => buffer[c][j].id < buffer[c][k].id
  /\ \A j, k \in DOMAIN queue :
       j < k /\ queue[j].request.from = queue[k].request.from
         => queue[j].request.id < queue[k].request.id

InOrder == Order /\ Increasing

LEMMA IdIsNumber == \A r \in Request : r.id \in Nat
BY BoundsAssumption DEF Request

LEMMA OrderSame ==
  ASSUME InOrder, UNCHANGED <<sent, inbox, buffer, queue, current, ran>>,
         apc' # "idle" => apc # "idle",
         \A c \in Clients : \A n \in Nat : Replied(c, n)' => Replied(c, n)
  PROVE  InOrder'
<1>1. Increasing'
  BY DEF InOrder, Increasing
<1>2. Order'
  BY DEF InOrder, Order, Unsent, InInbox, InBuffer, InQueue, InHand, HasRun, PastBuffer,
         PastQueue, PastHand
<1> QED
  BY <1>1, <1>2 DEF InOrder

\* A request that is sent is the newest of its client.
LEMMA OrderSent ==
  ASSUME Base, InOrder, NEW c \in Clients, SendRequest(c) PROVE InOrder'
<1>1. PICK k \in Kinds :
        inbox' = [inbox EXCEPT ![c] = Append(@, [from |-> c, id |-> sent'[c], kind |-> k])]
  BY DEF SendRequest
<1>2. /\ UNCHANGED <<replies, buffer, queue, apc, current, ran>>
      /\ sent' = [sent EXCEPT ![c] = @ + 1] /\ sent[c] < MaxRequests
  BY DEF SendRequest, receiverVars, actionVars
<1>3. /\ sent \in [Clients -> 0 .. MaxRequests] /\ MaxRequests \in Nat
      /\ sent[c] \in 0 .. MaxRequests /\ inbox \in [Clients -> Seq(Request)]
  BY BoundsAssumption DEF Base, TypeOK
<1>4. sent'[c] = sent[c] + 1 /\ sent'[c] \in 1 .. MaxRequests /\ sent[c] \in Nat
  BY <1>2, <1>3
<1> DEFINE r == [from |-> c, id |-> sent'[c], kind |-> k]
<1>5. r \in Request /\ r.id = sent[c] + 1
  BY <1>1, <1>4 DEF Request
<1>6. inbox'[c] = Append(inbox[c], r) /\ \A d \in Clients : d # c => inbox'[d] = inbox[d]
  BY <1>1, <1>3
<1> HIDE DEF r
<1>7. /\ Len(inbox[c]) \in Nat /\ DOMAIN inbox[c] = 1 .. Len(inbox[c])
      /\ DOMAIN inbox'[c] = 1 .. Len(inbox[c]) + 1
      /\ \A j \in 1 .. Len(inbox[c]) : inbox'[c][j] = inbox[c][j] /\ inbox[c][j].id \in Nat
      /\ inbox'[c][Len(inbox[c]) + 1] = r
  <2>1. inbox[c] \in Seq(Request)
    BY <1>3
  <2>2. /\ Append(inbox[c], r) \in Seq(Request)
        /\ Len(Append(inbox[c], r)) = Len(inbox[c]) + 1
        /\ \A j \in 1 .. Len(inbox[c]) : Append(inbox[c], r)[j] = inbox[c][j]
        /\ Append(inbox[c], r)[Len(inbox[c]) + 1] = r
    BY <1>5, <2>1, AppendProperties
  <2>3. \A j \in 1 .. Len(inbox[c]) : inbox[c][j].id \in Nat
    BY <2>1, ElementOfSeq, IdIsNumber
  <2> QED
    BY <1>6, <2>1, <2>2, <2>3, LenProperties
<1>8. \A d \in Clients : \A n \in Nat :
        /\ InInbox(d, n)' => InInbox(d, n) \/ (d = c /\ n = sent[c] + 1)
        /\ Unsent(d, n)' => Unsent(d, n) /\ (d = c => n > sent[c] + 1)
        /\ Unsent(c, sent[c] + 1)
  <2> SUFFICES ASSUME NEW d \in Clients, NEW n \in Nat
               PROVE  /\ InInbox(d, n)' => InInbox(d, n) \/ (d = c /\ n = sent[c] + 1)
                      /\ Unsent(d, n)' => Unsent(d, n) /\ (d = c => n > sent[c] + 1)
                      /\ Unsent(c, sent[c] + 1)
    OBVIOUS
  <2>1. CASE d = c
    <3>1. InInbox(c, n)' => InInbox(c, n) \/ n = sent[c] + 1
      BY <1>5, <1>7 DEF InInbox
    <3>2. (Unsent(c, n)' => Unsent(c, n) /\ n > sent[c] + 1) /\ Unsent(c, sent[c] + 1)
      BY <1>4 DEF Unsent
    <3> QED
      BY <2>1, <3>1, <3>2
  <2>2. CASE d # c
    BY <1>2, <1>3, <1>4, <1>6, <2>2 DEF InInbox, Unsent
  <2> QED
    BY <2>1, <2>2
<1>9. \A d \in Clients : \A n \in Nat :
        /\ InBuffer(d, n)' = InBuffer(d, n) /\ InQueue(d, n)' = InQueue(d, n)
        /\ InHand(d, n)' = InHand(d, n) /\ HasRun(d, n)' = HasRun(d, n)
        /\ Replied(d, n)' = Replied(d, n)
  BY <1>2 DEF InBuffer, InQueue, InHand, HasRun, Replied
<1>10. Order'
  <2> SUFFICES ASSUME NEW d \in Clients, NEW n \in Nat, NEW m \in Nat
               PROVE  /\ InInbox(d, n)' /\ Unsent(d, m)' => n < m
                      /\ \A i \in Nat : PastBuffer(d, i)' => PastBuffer(d, i)
    BY <1>9 DEF InOrder, Order, PastBuffer, PastQueue, PastHand
  <2>1. InInbox(d, n)' /\ Unsent(d, m)' => n < m
    BY <1>8 DEF InOrder, Order
  <2>2. \A i \in Nat : PastBuffer(d, i)' => PastBuffer(d, i)
    BY <1>4, <1>8 DEF PastBuffer
  <2> QED
    BY <2>1, <2>2
<1>11. Increasing'
  <2>1. ASSUME NEW i \in DOMAIN inbox'[c], NEW j \in DOMAIN inbox'[c], i < j
        PROVE  inbox'[c][i].id < inbox'[c][j].id
    <3>1. i \in 1 .. Len(inbox[c])
      BY <1>7, <2>1
    <3>2. CASE j \in 1 .. Len(inbox[c])
      BY <1>7, <2>1, <3>1, <3>2 DEF InOrder, Increasing
    <3>3. CASE j = Len(inbox[c]) + 1
      <4>1. InInbox(c, inbox[c][i].id) /\ inbox[c][i].id \in Nat
        BY <1>7, <3>1 DEF InInbox
      <4>2. inbox[c][i].id < sent[c] + 1
        BY <1>4, <1>8, <4>1 DEF InOrder, Order
      <4> QED
        BY <1>5, <1>7, <3>1, <3>3, <4>2
    <3> QED
      BY <1>7, <2>1, <3>2, <3>3
  <2> QED
    BY <1>2, <1>6, <2>1 DEF InOrder, Increasing
<1> QED
  BY <1>10, <1>11 DEF InOrder

\* What recv() takes is older than what it leaves and newer than what it had.
LEMMA OrderReceived ==
  ASSUME Base, Desc, InOrder, NEW c \in Clients, RecvData(c) PROVE InOrder'
<1>1. PICK n \in 1 .. Len(inbox[c]) :
        /\ DOMAIN buffer'[c] = 1 .. Len(buffer[c]) + n
        /\ \A k \in 1 .. Len(buffer[c]) + n :
             buffer'[c][k] = IF k <= Len(buffer[c]) THEN buffer[c][k]
                             ELSE inbox[c][k - Len(buffer[c])]
        /\ DOMAIN inbox'[c] = 1 .. Len(inbox[c]) - n
        /\ \A k \in 1 .. Len(inbox[c]) - n : inbox'[c][k] = inbox[c][k + n]
  BY RecvDataMoves
<1>2. /\ UNCHANGED <<sent, replies, queue, apc, current, ran>>
      /\ inbox[c] \in Seq(Request) /\ buffer[c] \in Seq(Request)
      /\ \A d \in Clients : d # c => inbox'[d] = inbox[d] /\ buffer'[d] = buffer[d]
  BY RecvDataMoves
<1>3. /\ Len(inbox[c]) \in Nat /\ Len(buffer[c]) \in Nat
      /\ DOMAIN inbox[c] = 1 .. Len(inbox[c]) /\ DOMAIN buffer[c] = 1 .. Len(buffer[c])
      /\ \A k \in 1 .. Len(inbox[c]) : inbox[c][k].id \in Nat
      /\ \A k \in 1 .. Len(buffer[c]) : buffer[c][k].id \in Nat
  BY <1>2, LenProperties, ElementOfSeq, IdIsNumber
<1> DEFINE Taken(i) == \E k \in 1 .. n : inbox[c][k].id = i
<1>4. ASSUME NEW i \in Nat
      PROVE  /\ InBuffer(c, i)' => InBuffer(c, i) \/ Taken(i)
             /\ InInbox(c, i)' => InInbox(c, i) /\ \A j \in Nat : Taken(j) => j < i
             /\ Taken(i) => InInbox(c, i)
  <2>1. ASSUME InBuffer(c, i)' PROVE InBuffer(c, i) \/ Taken(i)
    <3>1. PICK k \in 1 .. Len(buffer[c]) + n : buffer'[c][k].id = i
      BY <1>1, <2>1 DEF InBuffer
    <3>2. CASE k <= Len(buffer[c])
      <4>1. k \in DOMAIN buffer[c] /\ buffer[c][k].id = i
        BY <1>1, <1>3, <3>1, <3>2
      <4> QED
        BY <4>1 DEF InBuffer
    <3>3. CASE ~(k <= Len(buffer[c]))
      <4>1. k - Len(buffer[c]) \in 1 .. n
        BY <1>3, <3>1, <3>3
      <4>2. buffer'[c][k] = inbox[c][k - Len(buffer[c])]
        BY <1>1, <3>1, <3>3
      <4> QED
        BY <3>1, <4>1, <4>2
    <3> QED
      BY <3>2, <3>3
  <2>2. ASSUME InInbox(c, i)' PROVE InInbox(c, i) /\ \A j \in Nat : Taken(j) => j < i
    <3>1. PICK k \in 1 .. Len(inbox[c]) - n : inbox[c][k + n].id = i
      BY <1>1, <2>2 DEF InInbox
    <3>2. k + n \in 1 .. Len(inbox[c]) /\ \A j \in 1 .. n : j \in 1 .. Len(inbox[c]) /\ j < k + n
      BY <1>3, <3>1
    <3> QED
      BY <1>3, <3>1, <3>2 DEF InOrder, Increasing, InInbox
  <2>3. Taken(i) => InInbox(c, i)
    BY <1>3 DEF InInbox
  <2> QED
    BY <2>1, <2>2, <2>3
<1> HIDE DEF Taken
<1>5. \A d \in Clients : \A i \in Nat :
        /\ InQueue(d, i)' = InQueue(d, i) /\ InHand(d, i)' = InHand(d, i)
        /\ HasRun(d, i)' = HasRun(d, i) /\ Replied(d, i)' = Replied(d, i)
        /\ Unsent(d, i)' = Unsent(d, i)
        /\ d # c => InInbox(d, i)' = InInbox(d, i) /\ InBuffer(d, i)' = InBuffer(d, i)
  BY <1>2 DEF InQueue, InHand, HasRun, Replied, Unsent, InInbox, InBuffer
<1>6. Order'
  <2>1. ASSUME NEW d \in Clients, NEW i \in Nat
        PROVE  /\ PastBuffer(d, i)' => PastBuffer(d, i)
               /\ PastQueue(d, i)' => PastQueue(d, i)
               /\ InInbox(d, i)' => InInbox(d, i)
    BY <1>4, <1>5 DEF PastBuffer, PastQueue
  <2>2. ASSUME NEW d \in Clients, NEW i \in Nat, NEW m \in Nat
        PROVE  InBuffer(d, i)' /\ PastBuffer(d, m)' => i < m
    <3>1. CASE d = c
      BY <1>4, <1>5, <3>1 DEF InOrder, Order, PastBuffer
    <3>2. CASE d # c
      BY <1>5, <3>2 DEF InOrder, Order, PastBuffer
    <3> QED
      BY <3>1, <3>2
  <2> QED
    BY <1>5, <2>1, <2>2 DEF InOrder, Order, PastHand
<1>7. Increasing'
  <2>1. ASSUME NEW j \in DOMAIN inbox'[c], NEW k \in DOMAIN inbox'[c], j < k
        PROVE  inbox'[c][j].id < inbox'[c][k].id
    <3>1. j \in 1 .. Len(inbox[c]) - n /\ k \in 1 .. Len(inbox[c]) - n
      BY <1>1, <2>1
    <3>2. inbox'[c][j] = inbox[c][j + n] /\ inbox'[c][k] = inbox[c][k + n]
      BY <1>1, <3>1
    <3>3. j + n \in 1 .. Len(inbox[c]) /\ k + n \in 1 .. Len(inbox[c]) /\ j + n < k + n
      <4>1. n \in Nat /\ j \in Nat /\ k \in Nat
        BY <1>3, <3>1
      <4> QED
        BY <1>3, <2>1, <3>1, <4>1
    <3> QED
      BY <1>3, <3>2, <3>3 DEF InOrder, Increasing
  <2>2. ASSUME NEW j \in DOMAIN buffer'[c], NEW k \in DOMAIN buffer'[c], j < k
        PROVE  buffer'[c][j].id < buffer'[c][k].id
    <3>1. j \in 1 .. Len(buffer[c]) + n /\ k \in 1 .. Len(buffer[c]) + n
      BY <1>1, <2>2
    <3>2. CASE k <= Len(buffer[c])
      <4>1. j \in 1 .. Len(buffer[c]) /\ k \in 1 .. Len(buffer[c])
        BY <1>3, <2>2, <3>1, <3>2
      <4> QED
        BY <1>1, <1>3, <2>2, <3>1, <3>2, <4>1 DEF InOrder, Increasing
    <3>3. CASE j <= Len(buffer[c]) /\ ~(k <= Len(buffer[c]))
      <4> DEFINE i == k - Len(buffer[c])
      <4>1. /\ i \in 1 .. Len(inbox[c]) /\ buffer'[c][k] = inbox[c][i]
            /\ j \in 1 .. Len(buffer[c]) /\ buffer'[c][j] = buffer[c][j]
        <5>1. n \in Nat /\ j \in Nat /\ k \in Nat
          BY <1>3, <3>1
        <5>2. i \in 1 .. Len(inbox[c]) /\ j \in 1 .. Len(buffer[c])
          BY <1>3, <3>1, <3>3, <5>1
        <5>3. buffer'[c][k] = inbox[c][i] /\ buffer'[c][j] = buffer[c][j]
          BY <1>1, <3>1, <3>3
        <5> QED
          BY <5>2, <5>3
      <4>2. InBuffer(c, buffer[c][j].id) /\ InInbox(c, inbox[c][i].id)
        BY <1>3, <4>1 DEF InBuffer, InInbox
      <4> QED
        BY <1>3, <4>1, <4>2 DEF InOrder, Order, PastBuffer
    <3>4. CASE ~(j <= Len(buffer[c]))
      <4> DEFINE i == k - Len(buffer[c])
                 h == j - Len(buffer[c])
      <4>1. /\ i \in 1 .. Len(inbox[c]) /\ buffer'[c][k] = inbox[c][i]
            /\ h \in 1 .. Len(inbox[c]) /\ buffer'[c][j] = inbox[c][h] /\ h < i
        <5>1. i \in 1 .. Len(inbox[c]) /\ h \in 1 .. Len(inbox[c]) /\ h < i
          <6>1. n \in Nat /\ n <= Len(inbox[c]) /\ j \in Nat /\ k \in Nat
            BY <1>3, <3>1
          <6>2. ~(k <= Len(buffer[c]))
            BY <1>3, <2>2, <3>4, <6>1
          <6>3. i \in 1 .. Len(inbox[c]) /\ h \in 1 .. Len(inbox[c])
            BY <1>3, <3>1, <3>4, <6>2, ShiftAhead
          <6> QED
            BY <1>3, <2>2, <6>1, <6>3
        <5>2. ~(k <= Len(buffer[c]))
          BY <1>3, <2>2, <3>1, <3>4
        <5> QED
          BY <1>1, <3>1, <3>4, <5>1, <5>2
      <4> QED
        BY <1>3, <4>1 DEF InOrder, Increasing
    <3> QED
      BY <1>3, <2>2, <3>1, <3>2, <3>3, <3>4
  <2> QED
    BY <1>2, <2>1, <2>2 DEF InOrder, Increasing
<1> QED
  BY <1>6, <1>7 DEF InOrder

\* The first frame of the buffer is queued behind everything that came before it.
LEMMA OrderQueued ==
  ASSUME Base, Desc, Own, InOrder, NEW c \in Clients, Process(c) \/ ProcessHuge(c)
  PROVE  InOrder'
<1>1. /\ 1 \in DOMAIN buffer[c]
      /\ UNCHANGED <<sent, inbox, replies, apc, current, ran>>
      /\ \A d \in Clients : d # c => buffer'[d] = buffer[d]
      /\ \A k \in DOMAIN buffer'[c] :
           k + 1 \in DOMAIN buffer[c] /\ buffer'[c][k] = buffer[c][k + 1] /\ k \in Nat /\ k >= 1
  BY ProcessMoves
<1>2. /\ queue \in Seq(Action) /\ Len(queue) \in Nat
      /\ DOMAIN queue' = 1 .. Len(queue) + 1 /\ DOMAIN queue = 1 .. Len(queue)
      /\ \A k \in 1 .. Len(queue) : queue'[k] = queue[k]
      /\ queue'[Len(queue) + 1] = [fd |-> rfd[c], request |-> buffer[c][1]]
  BY ProcessMoves
<1>3. buffer[c][1] \in Request /\ buffer[c][1].from = c /\ buffer[c][1].id \in Nat
  <2>1. buffer[c] \in Seq(Request)
    BY DEF Base, TypeOK
  <2>2. buffer[c][1] \in Request
    BY <1>1, <2>1, ElementOfSeq, LenProperties
  <2> QED
    BY <1>1, <2>2, IdIsNumber DEF Own, OwnFrames
<1>4. \A k \in 1 .. Len(queue) : queue[k].request.id \in Nat
  <2>1. \A k \in 1 .. Len(queue) : queue[k] \in Action
    BY <1>2, ElementOfSeq
  <2>2. \A k \in 1 .. Len(queue) : queue[k].request \in Request
    BY <2>1 DEF Action
  <2> QED
    BY <2>2, IdIsNumber
<1> DEFINE h == buffer[c][1].id
<1>5. ASSUME NEW i \in Nat
      PROVE  /\ InBuffer(c, i)' => InBuffer(c, i) /\ h < i
             /\ InQueue(c, i)' => InQueue(c, i) \/ i = h
             /\ InBuffer(c, h)
  <2>1. InBuffer(c, i)' => InBuffer(c, i) /\ h < i
    <3> SUFFICES ASSUME InBuffer(c, i)' PROVE InBuffer(c, i) /\ h < i
      OBVIOUS
    <3>1. PICK k \in DOMAIN buffer'[c] : buffer'[c][k].id = i
      BY DEF InBuffer
    <3>2. /\ k + 1 \in DOMAIN buffer[c] /\ buffer[c][k + 1].id = i /\ 1 < k + 1
      BY <1>1, <3>1
    <3> QED
      BY <1>1, <3>2 DEF InBuffer, InOrder, Increasing
  <2>2. InQueue(c, i)' => InQueue(c, i) \/ i = h
    <3> SUFFICES ASSUME InQueue(c, i)' PROVE InQueue(c, i) \/ i = h
      OBVIOUS
    <3>1. PICK k \in DOMAIN queue' : queue'[k].request.from = c /\ queue'[k].request.id = i
      BY DEF InQueue
    <3>2. CASE k \in 1 .. Len(queue)
      BY <1>2, <3>1, <3>2 DEF InQueue
    <3>3. CASE k = Len(queue) + 1
      BY <1>2, <3>1, <3>3
    <3> QED
      BY <1>2, <3>1, <3>2, <3>3
  <2>3. InBuffer(c, h)
    BY <1>1 DEF InBuffer
  <2> QED
    BY <2>1, <2>2, <2>3
<1>6. ASSUME NEW d \in Clients, NEW i \in Nat, d # c
      PROVE  InBuffer(d, i)' = InBuffer(d, i) /\ (InQueue(d, i)' => InQueue(d, i))
  <2>1. InBuffer(d, i)' = InBuffer(d, i)
    BY <1>1, <1>6 DEF InBuffer
  <2>2. InQueue(d, i)' => InQueue(d, i)
    <3> SUFFICES ASSUME InQueue(d, i)' PROVE InQueue(d, i)
      OBVIOUS
    <3>1. PICK k \in DOMAIN queue' : queue'[k].request.from = d /\ queue'[k].request.id = i
      BY DEF InQueue
    <3>2. k \in 1 .. Len(queue)
      BY <1>2, <1>3, <1>6, <3>1
    <3> QED
      BY <1>2, <3>1, <3>2 DEF InQueue
  <2> QED
    BY <2>1, <2>2
<1>7. \A d \in Clients : \A i \in Nat :
        /\ InInbox(d, i)' = InInbox(d, i) /\ Unsent(d, i)' = Unsent(d, i)
        /\ InHand(d, i)' = InHand(d, i) /\ HasRun(d, i)' = HasRun(d, i)
        /\ Replied(d, i)' = Replied(d, i)
  BY <1>1 DEF InInbox, Unsent, InHand, HasRun, Replied
<1> HIDE DEF h
<1>8. Order'
  <2>1. ASSUME NEW d \in Clients, NEW i \in Nat
        PROVE  /\ PastBuffer(d, i)' = PastBuffer(d, i)
               /\ PastQueue(d, i)' => PastQueue(d, i)
               /\ PastHand(d, i)' => PastHand(d, i)
    BY <1>3, <1>5, <1>6, <1>7 DEF PastBuffer, PastQueue, PastHand, h
  <2>2. ASSUME NEW d \in Clients, NEW i \in Nat, NEW m \in Nat
        PROVE  /\ InBuffer(d, i)' /\ PastBuffer(d, m)' => i < m
               /\ InQueue(d, i)' /\ PastQueue(d, m)' => i < m
    <3>1. CASE d = c
      <4>1. InBuffer(c, i)' /\ PastBuffer(c, m)' => i < m
        BY <1>5, <2>1 DEF InOrder, Order
      <4>2. InQueue(c, i)' /\ PastQueue(c, m)' => i < m
        <5>1. CASE InQueue(c, i)
          BY <2>1, <5>1 DEF InOrder, Order
        <5>2. CASE i = h
          BY <1>5, <2>1, <5>2 DEF InOrder, Order, PastQueue
        <5> QED
          BY <1>5, <5>1, <5>2
      <4> QED
        BY <3>1, <4>1, <4>2
    <3>2. CASE d # c
      BY <1>6, <2>1, <3>2 DEF InOrder, Order
    <3> QED
      BY <3>1, <3>2
  <2> QED
    BY <1>7, <2>1, <2>2 DEF InOrder, Order
<1>9. Increasing'
  <2>1. ASSUME NEW j \in DOMAIN buffer'[c], NEW k \in DOMAIN buffer'[c], j < k
        PROVE  buffer'[c][j].id < buffer'[c][k].id
    <3>1. /\ j + 1 \in DOMAIN buffer[c] /\ k + 1 \in DOMAIN buffer[c] /\ j + 1 < k + 1
          /\ buffer'[c][j] = buffer[c][j + 1] /\ buffer'[c][k] = buffer[c][k + 1]
      BY <1>1, <2>1
    <3> QED
      BY <3>1 DEF InOrder, Increasing
  <2>2. ASSUME NEW j \in DOMAIN queue', NEW k \in DOMAIN queue', j < k,
               queue'[j].request.from = queue'[k].request.from
        PROVE  queue'[j].request.id < queue'[k].request.id
    <3>1. j \in 1 .. Len(queue) /\ queue'[j] = queue[j]
      BY <1>2, <2>2
    <3>2. CASE k \in 1 .. Len(queue)
      <4>1. queue'[k] = queue[k]
        BY <1>2, <3>2
      <4> QED
        BY <1>2, <2>2, <3>1, <3>2, <4>1 DEF InOrder, Increasing
    <3>3. CASE k = Len(queue) + 1
      <4>1. queue'[k].request = buffer[c][1] /\ queue[j].request.from = c
        BY <1>2, <1>3, <2>2, <3>1, <3>3
      <4>2. InQueue(c, queue[j].request.id) /\ InBuffer(c, h) /\ queue[j].request.id \in Nat
        BY <1>2, <1>3, <1>4, <1>5, <3>1, <4>1 DEF InQueue, h
      <4>3. queue[j].request.id < h
        BY <1>3, <4>2 DEF InOrder, Order, PastQueue, h
      <4> QED
        BY <3>1, <4>1, <4>3 DEF h
    <3> QED
      BY <1>2, <2>2, <3>2, <3>3
  <2> QED
    BY <1>1, <2>1, <2>2 DEF InOrder, Increasing
<1> QED
  BY <1>8, <1>9 DEF InOrder

\* The ActionThread takes what was queued first.
LEMMA OrderDequeued == ASSUME Base, InOrder, Dequeue PROVE InOrder'
<1>1. queue \in Seq(Action) /\ queue # <<>> /\ apc = "idle" /\ apc' # "idle"
  BY DEF Dequeue, Base, TypeOK
<1>2. /\ Head(queue) = queue[1] /\ Tail(queue) \in Seq(Action)
      /\ Len(Tail(queue)) = Len(queue) - 1
      /\ \A k \in 1 .. Len(Tail(queue)) : Tail(queue)[k] = queue[k + 1]
  BY <1>1, HeadTailProperties
<1>3. /\ DOMAIN queue = 1 .. Len(queue) /\ Len(queue) \in Nat /\ Len(queue) >= 1
      /\ DOMAIN Tail(queue) = 1 .. Len(Tail(queue))
  BY <1>1, <1>2, LenProperties, EmptySeq
<1>4. /\ current' = queue[1] /\ queue' = Tail(queue)
      /\ UNCHANGED <<sent, inbox, replies, buffer, ran>>
  BY <1>2 DEF Dequeue, receiverVars, clientVars
<1>5. /\ 1 \in DOMAIN queue
      /\ \A k \in DOMAIN queue' : k + 1 \in DOMAIN queue /\ 1 < k + 1 /\ queue'[k] = queue[k + 1]
      /\ \A j, k \in DOMAIN queue' : j < k => j + 1 < k + 1
  BY <1>2, <1>3, <1>4
<1>6. ASSUME NEW d \in Clients, NEW i \in Nat
      PROVE  /\ InQueue(d, i)' => InQueue(d, i)
             /\ InHand(d, i)' => InQueue(d, i)
             /\ \A m \in Nat : InHand(d, i)' /\ InQueue(d, m)' => i < m
  <2>1. InHand(d, i)' => InQueue(d, i)
    BY <1>4, <1>5 DEF InHand, InQueue
  <2>2. InQueue(d, i)' => InQueue(d, i)
    BY <1>5 DEF InQueue
  <2>3. ASSUME NEW m \in Nat, InHand(d, i)', InQueue(d, m)' PROVE i < m
    <3>1. PICK k \in DOMAIN queue' : queue'[k].request.from = d /\ queue'[k].request.id = m
      BY <2>3 DEF InQueue
    <3>2. queue[1].request.from = d /\ queue[1].request.id = i
      BY <1>4, <2>3 DEF InHand
    <3> QED
      BY <1>5, <3>1, <3>2 DEF InOrder, Increasing
  <2> QED
    BY <2>1, <2>2, <2>3
<1>7. \A d \in Clients : \A i \in Nat :
        /\ InInbox(d, i)' = InInbox(d, i) /\ Unsent(d, i)' = Unsent(d, i)
        /\ InBuffer(d, i)' = InBuffer(d, i) /\ HasRun(d, i)' = HasRun(d, i)
        /\ Replied(d, i)' = Replied(d, i)
  BY <1>4 DEF InInbox, Unsent, InBuffer, HasRun, Replied
<1>8. Order'
  BY <1>6, <1>7 DEF InOrder, Order, PastBuffer, PastQueue, PastHand
<1>9. Increasing'
  <2>1. ASSUME NEW j \in DOMAIN queue', NEW k \in DOMAIN queue', j < k,
               queue'[j].request.from = queue'[k].request.from
        PROVE  queue'[j].request.id < queue'[k].request.id
    <3>1. /\ j + 1 \in DOMAIN queue /\ k + 1 \in DOMAIN queue /\ j + 1 < k + 1
          /\ queue'[j] = queue[j + 1] /\ queue'[k] = queue[k + 1]
      BY <1>5, <2>1
    <3> QED
      BY <2>1, <3>1 DEF InOrder, Increasing
  <2> QED
    BY <1>4, <2>1 DEF InOrder, Increasing
<1> QED
  BY <1>8, <1>9 DEF InOrder

\* A reply that is sent is one reply more, to whomever it goes.
LEMMA SendReplied ==
  ASSUME Base, NEW f \in Fds, NEW r \in Reply, SendTo(f, r), NEW c \in Clients, NEW n \in Nat,
         Replied(c, n)'
  PROVE  Replied(c, n) \/ (r.from = c /\ r.id = n /\ r.mid # "H")
<1>1. replies \in [Clients -> Seq(Reply)]
  BY DEF Base, TypeOK, Reply
<1>2. PICK d \in Clients : \E j \in DOMAIN replies'[d] :
        replies'[d][j].from = c /\ replies'[d][j].id = n /\ replies'[d][j].mid # "H"
  BY DEF Replied
<1>3. PICK j \in DOMAIN replies'[d] :
        replies'[d][j].from = c /\ replies'[d][j].id = n /\ replies'[d][j].mid # "H"
  BY <1>2
<1>4. CASE replies'[d] = replies[d]
  BY <1>3, <1>4 DEF Replied
<1>5. CASE replies'[d] = Append(replies[d], r)
  <2>1. replies[d] \in Seq(Reply)
    BY <1>1
  <2>2. /\ Append(replies[d], r) \in Seq(Reply)
        /\ Len(Append(replies[d], r)) = Len(replies[d]) + 1
        /\ \A i \in 1 .. Len(replies[d]) : Append(replies[d], r)[i] = replies[d][i]
        /\ Append(replies[d], r)[Len(replies[d]) + 1] = r
    BY <2>1, AppendProperties
  <2>3. /\ DOMAIN replies[d] = 1 .. Len(replies[d]) /\ Len(replies[d]) \in Nat
        /\ j \in 1 .. Len(replies[d]) + 1
    BY <1>3, <1>5, <2>1, <2>2, LenProperties
  <2>4. CASE j \in 1 .. Len(replies[d])
    BY <1>3, <1>5, <2>2, <2>3, <2>4 DEF Replied
  <2>5. CASE j = Len(replies[d]) + 1
    BY <1>3, <1>5, <2>2, <2>5
  <2> QED
    BY <2>3, <2>4, <2>5
<1>6. replies'[d] = replies[d] \/ replies'[d] = Append(replies[d], r)
  <2>1. CASE replies' = replies
    BY <2>1
  <2>2. CASE replies' = [replies EXCEPT ![fdTable[f]] = Append(@, r)]
    BY <1>1, <2>2
  <2> QED
    BY <2>1, <2>2, SendTyped
<1> QED
  BY <1>4, <1>5, <1>6

LEMMA OrderServed ==
  ASSUME Base, InOrder, RunItem \/ SendResponse \/ \E c \in Clients : Hello(c) PROVE InOrder'
<1>1. CASE RunItem
  <2>1. /\ UNCHANGED <<sent, inbox, buffer, queue, current, replies>>
        /\ apc # "idle" /\ apc' # "idle" /\ current.request \in Request
    BY <1>1 DEF RunItem, receiverVars, clientVars, Base, Refs, Action
  <2> DEFINE e == [from |-> current.request.from, id |-> current.request.id, item |-> item]
  <2>2. ran' = Append(ran, e) /\ e.from = current.request.from /\ e.id = current.request.id
    BY <1>1 DEF RunItem
  <2>3. /\ ran \in Seq([from : Clients, id : 1 .. MaxRequests, item : 1 .. Items])
        /\ e \in [from : Clients, id : 1 .. MaxRequests, item : 1 .. Items]
    BY <2>1 DEF Base, TypeOK, Request
  <2> HIDE DEF e
  <2>4. /\ Len(ran) \in Nat /\ DOMAIN ran = 1 .. Len(ran) /\ DOMAIN ran' = 1 .. Len(ran) + 1
        /\ \A k \in 1 .. Len(ran) : ran'[k] = ran[k]
        /\ ran'[Len(ran) + 1] = e
    BY <2>2, <2>3, AppendProperties, LenProperties
  <2>5. ASSUME NEW c \in Clients, NEW n \in Nat, HasRun(c, n)' PROVE HasRun(c, n) \/ InHand(c, n)
    <3>1. PICK k \in DOMAIN ran' : ran'[k].from = c /\ ran'[k].id = n
      BY <2>5 DEF HasRun
    <3>2. CASE k \in 1 .. Len(ran)
      BY <2>4, <3>1, <3>2 DEF HasRun
    <3>3. CASE k = Len(ran) + 1
      BY <2>1, <2>2, <2>4, <3>1, <3>3 DEF InHand
    <3> QED
      BY <2>4, <3>1, <3>2, <3>3
  <2>6. \A c \in Clients : \A n, m \in Nat : InHand(c, n) /\ InHand(c, m) => n = m
    BY DEF InHand
  <2>7. \A c \in Clients : \A n \in Nat :
          /\ InInbox(c, n)' = InInbox(c, n) /\ Unsent(c, n)' = Unsent(c, n)
          /\ InBuffer(c, n)' = InBuffer(c, n) /\ InQueue(c, n)' = InQueue(c, n)
          /\ Replied(c, n)' = Replied(c, n) /\ InHand(c, n)' = InHand(c, n)
    BY <2>1 DEF InInbox, Unsent, InBuffer, InQueue, Replied, InHand
  <2>8. Order'
    <3>1. ASSUME NEW c \in Clients, NEW n \in Nat, NEW m \in Nat
          PROVE  /\ HasRun(c, n)' /\ PastHand(c, m) => n < m
                 /\ HasRun(c, n)' /\ InHand(c, m) => n <= m
      BY <2>5, <2>6 DEF InOrder, Order
    <3> QED
      BY <2>7, <3>1 DEF InOrder, Order, PastBuffer, PastQueue, PastHand
  <2>9. Increasing'
    BY <2>1 DEF InOrder, Increasing
  <2> QED
    BY <2>8, <2>9 DEF InOrder
<1>2. CASE SendResponse
  <2>1. /\ UNCHANGED <<sent, inbox, buffer, queue, ran>>
        /\ apc # "idle" /\ apc' = "idle" /\ current.request \in Request /\ current.fd \in Fds
    BY <1>2 DEF SendResponse, receiverVars, clientVars, Base, Refs, Action
  <2>2. PICK mid \in {"R", "X", "garbage"} :
          SendTo(current.fd, [from |-> current.request.from, id |-> current.request.id,
                              mid |-> mid])
    BY <1>2 DEF SendResponse
  <2>3. [from |-> current.request.from, id |-> current.request.id, mid |-> mid] \in Reply
    BY <2>1, BoundsAssumption DEF Request, Reply
  <2>4. \A c \in Clients : \A n \in Nat :
          /\ InInbox(c, n)' = InInbox(c, n) /\ Unsent(c, n)' = Unsent(c, n)
          /\ InBuffer(c, n)' = InBuffer(c, n) /\ InQueue(c, n)' = InQueue(c, n)
          /\ HasRun(c, n)' = HasRun(c, n) /\ ~InHand(c, n)'
    BY <2>1 DEF InInbox, Unsent, InBuffer, InQueue, HasRun, InHand
  <2>5. ASSUME NEW c \in Clients, NEW n \in Nat, Replied(c, n)' PROVE Replied(c, n) \/ InHand(c, n)
    BY <2>1, <2>2, <2>3, <2>5, SendReplied DEF InHand
  <2>6. Order'
    BY <2>4, <2>5 DEF InOrder, Order, PastBuffer, PastQueue, PastHand
  <2>7. Increasing'
    BY <2>1 DEF InOrder, Increasing
  <2> QED
    BY <2>6, <2>7 DEF InOrder
<1>3. CASE \E c \in Clients : Hello(c)
  <2>1. PICK c \in Clients : Hello(c)
    BY <1>3
  <2>2. [from |-> c, id |-> 0, mid |-> "H"] \in Reply /\ rfd[c] \in Fds
    BY <2>1, BoundsAssumption DEF Hello, Reply, Base, Refs
  <2>3. \A d \in Clients : \A n \in Nat : Replied(d, n)' => Replied(d, n)
    BY <2>1, <2>2, SendReplied DEF Hello
  <2>4. UNCHANGED <<sent, inbox, buffer, queue, current, ran, apc>>
    BY <2>1 DEF Hello, clientVars, actionVars
  <2> QED
    BY <2>3, <2>4, OrderSame
<1> QED
  BY <1>1, <1>2, <1>3

LEMMA OrderInit == Init => InOrder
<1> SUFFICES ASSUME Init PROVE InOrder
  OBVIOUS
<1>1. /\ queue = <<>> /\ apc = "idle" /\ ran = <<>>
      /\ \A c \in Clients : inbox[c] = <<>> /\ buffer[c] = <<>> /\ replies[c] = <<>>
  BY DEF Init
<1>2. Order
  BY <1>1 DEF Order, InInbox, InBuffer, InQueue, InHand, HasRun, Replied
<1>3. Increasing
  BY <1>1 DEF Increasing
<1> QED
  BY <1>2, <1>3 DEF InOrder

LEMMA OrderStep == ASSUME Base, Desc, Own, InOrder, [Next]_vars PROVE InOrder'
<1>1. ASSUME NEW c \in Clients, SendRequest(c) PROVE InOrder'
  BY <1>1, OrderSent
<1>2. ASSUME UNCHANGED <<sent, inbox, buffer, queue, current, ran, replies>>,
             apc' # "idle" => apc # "idle"
      PROVE  InOrder'
  <2>1. \A c \in Clients : \A n \in Nat : Replied(c, n)' => Replied(c, n)
    BY <1>2 DEF Replied
  <2> QED
    BY <1>2, <2>1, OrderSame
<1>3. ASSUME NEW c \in Clients, AcceptControl(c) \/ Leave(c) PROVE InOrder'
  <2>1. UNCHANGED <<sent, inbox, buffer, queue, current, ran, replies, apc>>
    BY <1>3 DEF AcceptControl, Leave, receiverVars, actionVars
  <2> QED
    BY <1>2, <2>1
<1>4. ASSUME NEW c \in Clients, Receiver(c) PROVE InOrder'
  <2>1. CASE Hello(c) \/ RecvData(c) \/ Process(c) \/ ProcessHuge(c)
    BY <2>1, OrderServed, OrderReceived, OrderQueued
  <2>2. CASE Recv(c) \/ RecvEnd(c) \/ ProcessEnd(c) \/ DisconnectHuge(c) \/ DisconnectEof(c)
             \/ DisconnectLast(c)
    <3>1. UNCHANGED <<sent, inbox, buffer, queue, current, ran, replies, apc>>
      BY <2>2 DEF Recv, RecvEnd, ProcessEnd, DisconnectHuge, DisconnectEof, DisconnectLast,
                  actionVars, clientVars
    <3> QED
      BY <1>2, <3>1
  <2> QED
    BY <1>4, <2>1, <2>2 DEF Receiver
<1>5. CASE ActionThread \/ UNCHANGED vars
  <2>1. CASE Dequeue \/ RunItem \/ SendResponse
    BY <2>1, OrderServed, OrderDequeued
  <2>2. CASE Crash \/ UNCHANGED vars
    <3>1. UNCHANGED <<sent, inbox, buffer, queue, current, ran, replies>>
          /\ (apc' # "idle" => apc # "idle")
      BY <2>2 DEF Crash, receiverVars, actionVars, clientVars, vars
    <3> QED
      BY <1>2, <3>1
  <2> QED
    BY <1>5, <2>1, <2>2 DEF ActionThread
<1> QED
  BY <1>1, <1>3, <1>4, <1>5 DEF Next

-----------------------------------------------------------------------------
(* What has run: whole messages, one after the other.                      *)

LEMMA AtLeastOnce == ASSUME NEW m \in Nat, NEW d \in Int, d >= 1 PROVE m * d >= m
<1>1. m * (d - 1) >= 0
  OBVIOUS
<1>2. m * d = m * (d - 1) + m /\ m * d \in Int /\ m * (d - 1) \in Int
  OBVIOUS
<1> QED
  BY <1>1, <1>2

LEMMA DivMod ==
  ASSUME NEW m \in Nat \ {0}, NEW n \in Int
  PROVE  n \div m \in Int /\ n % m \in 0 .. m - 1 /\ n = m * (n \div m) + (n % m)
OBVIOUS

LEMMA OneRemainder ==
  ASSUME NEW m \in Nat \ {0}, NEW p \in Int, NEW q \in Int,
         NEW r \in 0 .. m - 1, NEW s \in 0 .. m - 1, m * p + r = m * q + s
  PROVE  r = s
<1>1. m * p \in Int /\ m * q \in Int
  OBVIOUS
<1>2. CASE p = q
  BY <1>1, <1>2
<1>3. CASE p > q
  <2>1. m * (p - q) >= m
    BY <1>3, AtLeastOnce
  <2>2. m * (p - q) = m * p - m * q
    OBVIOUS
  <2> QED
    BY <1>1, <2>1, <2>2
<1>4. CASE p < q
  <2>1. m * (q - p) >= m
    BY <1>4, AtLeastOnce
  <2>2. m * (q - p) = m * q - m * p
    OBVIOUS
  <2> QED
    BY <1>1, <2>1, <2>2
<1> QED
  BY <1>2, <1>3, <1>4

LEMMA NextRemainder ==
  ASSUME NEW m \in Nat \ {0}, NEW n \in Nat, NEW r \in 0 .. m - 1, (n % m) = r
  PROVE  ((n + 1) % m) = IF r = m - 1 THEN 0 ELSE r + 1
<1> DEFINE q == n \div m
           p == (n + 1) \div m
           s == (n + 1) % m
<1>1. n = m * q + r /\ n + 1 = m * p + s /\ q \in Int /\ p \in Int /\ s \in 0 .. m - 1
  BY DivMod
<1> HIDE DEF q, p, s
<1>2. m * q \in Int /\ m * p \in Int /\ m * (q + 1) = m * q + m
  BY <1>1
<1>3. CASE r = m - 1
  <2>1. m * p + s = m * (q + 1) + 0
    BY <1>1, <1>2, <1>3
  <2> QED
    BY <1>1, <1>3, <2>1, OneRemainder DEF s
<1>4. CASE r # m - 1
  <2>1. m * p + s = m * q + (r + 1) /\ r + 1 \in 0 .. m - 1
    BY <1>1, <1>2, <1>4
  <2> QED
    BY <1>1, <1>4, <2>1, OneRemainder DEF s
<1> QED
  BY <1>3, <1>4

Ran(c, n, i) == \E k \in DOMAIN ran : ran[k].from = c /\ ran[k].id = n /\ ran[k].item = i

\* What a reply says of the items of its message.
Kept(r) ==
  /\ r.mid = "R" => \A i \in 1 .. Items : Ran(r.from, r.id, i)
  /\ r.mid = "X" => ~HasRun(r.from, r.id)

\* How much of the message in hand has run,
Progress == LET r == current.request IN
  /\ apc = "run" => r.kind = "good" /\ \A i \in 1 .. item - 1 : Ran(r.from, r.id, i)
  /\ apc = "send" /\ r.kind = "good" => \A i \in 1 .. Items : Ran(r.from, r.id, i)
  /\ apc = "send" /\ r.kind # "good" => ~HasRun(r.from, r.id)

\* and where in the row of all items that is.
Whole ==
  /\ \A j \in DOMAIN ran : ran[j].item = ((j - 1) % Items) + 1
  /\ \A j \in 2 .. Len(ran) :
       ran[j].item > 1 => ran[j].from = ran[j-1].from /\ ran[j].id = ran[j-1].id

Batch ==
  /\ Whole
  /\ Len(ran) % Items = IF apc = "run" THEN item - 1 ELSE 0
  /\ apc = "run" /\ item > 1 =>
       /\ Len(ran) >= 1
       /\ ran[Len(ran)].from = current.request.from /\ ran[Len(ran)].id = current.request.id

Runs == /\ \A c \in Clients : \A j \in DOMAIN replies[c] : Kept(replies[c][j])
        /\ Progress /\ InClientOrder

LEMMA RunsSame ==
  ASSUME Runs, UNCHANGED <<replies, current, ran, item>>,
         apc' = apc \/ (apc = "send" /\ apc' = "crashed")
  PROVE  Runs'
BY DEF Runs, Kept, Progress, Ran, HasRun, InClientOrder

LEMMA SendKept ==
  ASSUME Base, Runs, ran' = ran, NEW f \in Fds, NEW r \in Reply, SendTo(f, r), Kept(r)
  PROVE  \A c \in Clients : \A j \in DOMAIN replies'[c] : Kept(replies[c][j])'
<1> SUFFICES ASSUME NEW c \in Clients, NEW j \in DOMAIN replies'[c] PROVE Kept(replies'[c][j])
  BY DEF Kept, Ran, HasRun
<1>1. replies \in [Clients -> Seq(Reply)]
  BY DEF Base, TypeOK, Reply
<1>2. CASE replies'[c] = replies[c]
  BY <1>2 DEF Runs
<1>3. CASE replies'[c] = Append(replies[c], r)
  <2>1. replies[c] \in Seq(Reply)
    BY <1>1
  <2>2. /\ Append(replies[c], r) \in Seq(Reply)
        /\ Len(Append(replies[c], r)) = Len(replies[c]) + 1
        /\ \A i \in 1 .. Len(replies[c]) : Append(replies[c], r)[i] = replies[c][i]
        /\ Append(replies[c], r)[Len(replies[c]) + 1] = r
    BY <2>1, AppendProperties
  <2>3. /\ DOMAIN replies[c] = 1 .. Len(replies[c]) /\ Len(replies[c]) \in Nat
        /\ j \in 1 .. Len(replies[c]) + 1
    BY <1>3, <2>1, <2>2, LenProperties
  <2>4. CASE j \in 1 .. Len(replies[c])
    BY <1>3, <2>2, <2>3, <2>4 DEF Runs
  <2>5. CASE j = Len(replies[c]) + 1
    BY <1>3, <2>2, <2>5
  <2> QED
    BY <2>3, <2>4, <2>5
<1>4. replies'[c] = replies[c] \/ replies'[c] = Append(replies[c], r)
  <2>1. CASE replies' = replies
    BY <2>1
  <2>2. CASE replies' = [replies EXCEPT ![fdTable[f]] = Append(@, r)]
    BY <1>1, <2>2
  <2> QED
    BY <2>1, <2>2, SendTyped
<1> QED
  BY <1>2, <1>3, <1>4

\* The next item of the message in hand runs: after those before it, and after
\* all of an earlier message of that client.
LEMMA RunsRun == ASSUME Base, Own, InOrder, Runs, RunItem PROVE Runs'
<1>0. apc = "run" /\ current.request \in Request
  BY DEF RunItem, Base, Refs, Action
<1> PICK q \in Request : q = current.request
  BY <1>0
<1> PICK e : e = [from |-> q.from, id |-> q.id, item |-> item]
  OBVIOUS
<1> DEFINE n == Len(ran)
<1>1. /\ apc = "run" /\ ran' = Append(ran, e)
      /\ UNCHANGED <<replies, current>> /\ item \in 1 .. Items /\ Items \in Nat \ {0}
      /\ \/ item < Items /\ item' = item + 1 /\ apc' = "run"
         \/ item = Items /\ apc' = "send"
  BY BoundsAssumption DEF RunItem, Base, TypeOK
<1>2. q \in Request /\ q.id \in Nat /\ q.from \in Clients /\ q.kind = "good"
  BY <1>1, IdIsNumber DEF Base, Refs, Action, Runs, Progress, Request
<1>3. /\ ran \in Seq([from : Clients, id : 1 .. MaxRequests, item : 1 .. Items])
      /\ e \in [from : Clients, id : 1 .. MaxRequests, item : 1 .. Items]
  BY <1>1, <1>2 DEF Base, TypeOK, Request
<1>4. e.from = q.from /\ e.id = q.id /\ e.item = item
  OBVIOUS
<1>5. /\ n \in Nat /\ DOMAIN ran = 1 .. n /\ DOMAIN ran' = 1 .. n + 1 /\ Len(ran') = n + 1
      /\ \A k \in 1 .. n : ran'[k] = ran[k]
      /\ ran'[n + 1] = e
  BY <1>1, <1>3, AppendProperties, LenProperties
<1>6. \A k \in 1 .. n : ran[k].id \in Nat
  <2>1. \A k \in 1 .. n : ran[k] \in [from : Clients, id : 1 .. MaxRequests, item : 1 .. Items]
    BY <1>3, <1>5, ElementOfSeq
  <2>2. \A k \in 1 .. n : ran[k].id \in 1 .. MaxRequests
    BY <2>1
  <2> QED
    BY <2>2, BoundsAssumption
<1> HIDE DEF n
<1>9. InClientOrder'
  <2> SUFFICES ASSUME NEW j \in DOMAIN ran', NEW k \in DOMAIN ran', j < k,
                      ran'[j].from = ran'[k].from
               PROVE  ran'[j].id <= ran'[k].id
    BY DEF InClientOrder
  <2>1. j \in 1 .. n /\ ran'[j] = ran[j]
    BY <1>5
  <2>2. CASE k \in 1 .. n
    <3>1. ran'[k] = ran[k]
      BY <1>5, <2>2
    <3> QED
      BY <1>5, <2>1, <2>2, <3>1 DEF Runs, InClientOrder
  <2>3. CASE k = n + 1
    <3>1. ran[j].from = q.from /\ ran[j].id \in Nat
      BY <1>4, <1>5, <1>6, <2>1, <2>3
    <3>2. HasRun(q.from, ran[j].id) /\ InHand(q.from, q.id)
      BY <1>1, <1>5, <2>1, <3>1 DEF HasRun, InHand
    <3>3. ran[j].id <= q.id
      BY <1>2, <3>1, <3>2 DEF InOrder, Order
    <3> QED
      BY <1>4, <1>5, <2>1, <2>3, <3>3
  <2> QED
    BY <1>5, <2>2, <2>3
<1>10. \A c, m, i : Ran(c, m, i) => Ran(c, m, i)'
  BY <1>5 DEF Ran
<1> PICK h : h = item
  OBVIOUS
<1>11. Ran(q.from, q.id, h)'
  BY <1>4, <1>5 DEF Ran
<1>12. Progress'
  <2>1. \A i \in 1 .. h : Ran(q.from, q.id, i)'
    <3>1. \A i \in 1 .. item - 1 : Ran(q.from, q.id, i)
      BY <1>1 DEF Runs, Progress
    <3>2. \A i \in 1 .. h : i \in 1 .. item - 1 \/ i = h
      BY <1>1
    <3> QED
      BY <1>10, <1>11, <3>1, <3>2
  <2>2. current'.request = q
    BY <1>1
  <2>3. \/ apc' = "run" /\ item' - 1 = item
        \/ apc' = "send" /\ item = Items
    BY <1>1
  <2> QED
    BY <1>2, <2>1, <2>2, <2>3 DEF Progress, Ran, HasRun
<1>13. \A c \in Clients : \A j \in DOMAIN replies'[c] : Kept(replies[c][j])'
  <2> SUFFICES ASSUME NEW c \in Clients, NEW j \in DOMAIN replies[c] PROVE Kept(replies[c][j])'
    BY <1>1
  <2> PICK r : r = replies[c][j]
    OBVIOUS
  <2>1. Kept(r) /\ replies'[c][j] = r
    BY <1>1 DEF Runs
  <2>2. ASSUME r.mid = "X" PROVE ~HasRun(r.from, r.id)'
    <3> SUFFICES ASSUME HasRun(r.from, r.id)' PROVE FALSE
      OBVIOUS
    <3>1. ~HasRun(r.from, r.id)
      BY <2>1, <2>2 DEF Kept
    <3>2. PICK k \in DOMAIN ran' : ran'[k].from = r.from /\ ran'[k].id = r.id
      BY DEF HasRun
    <3>3. k = n + 1
      BY <1>5, <3>1, <3>2 DEF HasRun
    <3>4. r.from = q.from /\ r.id = q.id
      BY <1>4, <1>5, <3>2, <3>3
    <3>5. Replied(q.from, q.id)
      BY <2>2, <3>4 DEF Replied
    <3>6. InHand(q.from, q.id)
      BY <1>1 DEF InHand
    <3> QED
      BY <1>2, <3>5, <3>6 DEF InOrder, Order
  <2>3. ASSUME r.mid = "R" PROVE \A i \in 1 .. Items : Ran(r.from, r.id, i)'
    BY <1>10, <2>1, <2>3 DEF Kept
  <2>4. Kept(r)'
    BY <2>2, <2>3 DEF Kept
  <2> QED
    BY <2>1, <2>4 DEF Kept, Ran, HasRun
<1> QED
  BY <1>9, <1>12, <1>13 DEF Runs

\* The next item of the message in hand runs, and completes the row or goes on in it.
LEMMA BatchRun == ASSUME Base, Batch, RunItem PROVE Batch'
<1>0. apc = "run" /\ current.request \in Request
  BY DEF RunItem, Base, Refs, Action
<1> PICK q \in Request : q = current.request
  BY <1>0
<1> PICK e : e = [from |-> q.from, id |-> q.id, item |-> item]
  OBVIOUS
<1> DEFINE n == Len(ran)
<1>1. /\ apc = "run" /\ ran' = Append(ran, e)
      /\ UNCHANGED current /\ item \in 1 .. Items /\ Items \in Nat \ {0}
      /\ \/ item < Items /\ item' = item + 1 /\ apc' = "run"
         \/ item = Items /\ apc' = "send"
  BY BoundsAssumption DEF RunItem, Base, TypeOK
<1>3. /\ ran \in Seq([from : Clients, id : 1 .. MaxRequests, item : 1 .. Items])
      /\ e \in [from : Clients, id : 1 .. MaxRequests, item : 1 .. Items]
  BY <1>1 DEF Base, TypeOK, Request
<1>4. e.from = q.from /\ e.id = q.id /\ e.item = item
  OBVIOUS
<1>5. /\ n \in Nat /\ DOMAIN ran = 1 .. n /\ DOMAIN ran' = 1 .. n + 1 /\ Len(ran') = n + 1
      /\ \A k \in 1 .. n : ran'[k] = ran[k]
      /\ ran'[n + 1] = e
  BY <1>1, <1>3, AppendProperties, LenProperties
<1> HIDE DEF n
<1>7. n % Items = item - 1
  BY <1>1 DEF Batch, n
<1>8. Whole'
  <2>1. ASSUME NEW j \in DOMAIN ran' PROVE ran'[j].item = ((j - 1) % Items) + 1
    <3>1. CASE j \in 1 .. n
      BY <1>5, <3>1 DEF Batch, Whole
    <3>2. CASE j = n + 1
      <4>1. j - 1 = n
        BY <1>5, <3>2
      <4> QED
        BY <1>1, <1>4, <1>5, <1>7, <3>2, <4>1
    <3> QED
      BY <1>5, <3>1, <3>2
  <2>2. ASSUME NEW j \in 2 .. n + 1, ran'[j].item > 1
        PROVE  ran'[j].from = ran'[j-1].from /\ ran'[j].id = ran'[j-1].id
    <3>1. CASE j \in 2 .. n
      <4>1. j \in 1 .. n /\ j - 1 \in 1 .. n
        BY <1>5, <3>1
      <4>2. ran'[j] = ran[j] /\ ran'[j-1] = ran[j-1]
        BY <1>5, <4>1
      <4> QED
        BY <2>2, <3>1, <4>2 DEF Batch, Whole, n
    <3>2. CASE j = n + 1
      <4>1. item > 1
        BY <1>4, <1>5, <2>2, <3>2
      <4>2. n >= 1 /\ ran[n].from = q.from /\ ran[n].id = q.id
        BY <1>1, <4>1 DEF Batch, n
      <4>3. j - 1 = n /\ n \in 1 .. n
        BY <1>5, <3>2, <4>2
      <4> QED
        BY <1>4, <1>5, <3>2, <4>2, <4>3
    <3> QED
      BY <1>5, <3>1, <3>2
  <2> QED
    BY <1>5, <2>1, <2>2 DEF Whole
<1>9. Batch'
  <2>1. Len(ran') % Items = IF apc' = "run" THEN item' - 1 ELSE 0
    <3>1. ((n + 1) % Items) = IF item - 1 = Items - 1 THEN 0 ELSE (item - 1) + 1
      <4>1. item - 1 \in 0 .. Items - 1
        BY <1>1
      <4> QED
        BY <1>1, <1>5, <1>7, <4>1, NextRemainder
    <3> QED
      BY <1>1, <1>5, <3>1
  <2>2. /\ Len(ran') >= 1
        /\ ran'[Len(ran')].from = current'.request.from /\ ran'[Len(ran')].id = current'.request.id
    BY <1>1, <1>4, <1>5
  <2> QED
    BY <1>8, <2>1, <2>2 DEF Batch
<1> QED
  BY <1>9

LEMMA BatchInit == Init => Batch
<1> SUFFICES ASSUME Init PROVE Batch
  OBVIOUS
<1>1. apc = "idle" /\ ran = <<>>
  BY DEF Init
<1>2. Len(ran) = 0 /\ DOMAIN ran = {} /\ 0 % Items = 0
  BY <1>1, BoundsAssumption
<1> QED
  BY <1>1, <1>2 DEF Batch, Whole

LEMMA BatchStep == ASSUME Base, Batch, [Next]_vars PROVE Batch'
<1>1. CASE RunItem
  BY <1>1, BatchRun
<1>2. CASE Dequeue \/ SendResponse \/ Crash
  <2>1. ran' = ran /\ apc # "run" /\ (apc' = "run" => item' = 1)
    BY <1>2 DEF Dequeue, SendResponse, Crash
  <2>2. Len(ran) % Items = 0
    BY <2>1 DEF Batch
  <2> QED
    BY <2>1, <2>2 DEF Batch, Whole
<1>3. CASE UNCHANGED <<apc, current, item, ran>>
  BY <1>3 DEF Batch, Whole
<1>4. ASSUME NEW c \in Clients, AcceptControl(c) \/ SendRequest(c) \/ Receiver(c) \/ Leave(c)
      PROVE  UNCHANGED <<apc, current, item, ran>>
  BY <1>4 DEF AcceptControl, SendRequest, Receiver, Leave, Hello, Recv, RecvData, RecvEnd,
              Process, ProcessEnd, ProcessHuge, DisconnectHuge, DisconnectEof,
              DisconnectLast, actionVars
<1> QED
  BY <1>1, <1>2, <1>3, <1>4 DEF Next, ActionThread, vars, actionVars

\* The message that is taken off the queue has not begun; what is answered has run
\* whole, or not at all.
LEMMA RunsServed ==
  ASSUME Base, InOrder, Runs, Dequeue \/ SendResponse \/ \E c \in Clients : Hello(c) PROVE Runs'
<1>1. CASE Dequeue
  <2>1. queue \in Seq(Action) /\ queue # <<>>
    BY <1>1 DEF Dequeue, Base, TypeOK
  <2>2. Head(queue) = queue[1] /\ Head(queue) \in Action /\ 1 \in DOMAIN queue
    BY <2>1, HeadTailProperties, LenProperties, EmptySeq
  <2> PICK q \in Request : q = queue[1].request
    BY <2>2 DEF Action
  <2>3. /\ current'.request = q /\ item' = 1 /\ UNCHANGED <<replies, ran>> /\ apc # "run"
        /\ apc' = IF q.kind = "good" THEN "run" ELSE "send"
    BY <1>1, <2>2 DEF Dequeue
  <2>4. ~HasRun(q.from, q.id)
    <3>1. InQueue(q.from, q.id) /\ q.id \in Nat /\ q.from \in Clients
      BY <2>2, IdIsNumber DEF InQueue, Request
    <3> QED
      BY <3>1 DEF InOrder, Order, PastHand
  <2>5. Progress'
    <3>1. \A i \in 1 .. item' - 1 : FALSE
      BY <2>3
    <3>2. ~HasRun(q.from, q.id)'
      BY <2>3, <2>4 DEF HasRun
    <3> QED
      BY <2>3, <3>1, <3>2 DEF Progress, HasRun, Ran
  <2>6. InClientOrder'
    BY <2>3 DEF Runs, InClientOrder
  <2>7. \A c \in Clients : \A j \in DOMAIN replies'[c] : Kept(replies[c][j])'
    BY <2>3 DEF Runs, Kept, HasRun, Ran
  <2> QED
    BY <2>5, <2>6, <2>7 DEF Runs
<1>2. CASE SendResponse
  <2>1. apc = "send" /\ apc' = "idle" /\ ran' = ran /\ current.request \in Request /\ current.fd \in Fds
    BY <1>2 DEF SendResponse, Base, Refs, Action
  <2> PICK q \in Request : q = current.request
    BY <2>1
  <2>2. PICK mid \in {"R", "X", "garbage"} :
          /\ SendTo(current.fd, [from |-> q.from, id |-> q.id, mid |-> mid])
          /\ mid = "R" => q.kind = "good"
          /\ mid = "X" => q.kind # "good"
    BY <1>2 DEF SendResponse, Dangling
  <2>3. [from |-> q.from, id |-> q.id, mid |-> mid] \in Reply
    BY <2>1, BoundsAssumption DEF Request, Reply
  <2>4. Kept([from |-> q.from, id |-> q.id, mid |-> mid])
    BY <2>1, <2>2 DEF Kept, Runs, Progress
  <2>5. \A c \in Clients : \A j \in DOMAIN replies'[c] : Kept(replies[c][j])'
    BY <2>1, <2>2, <2>3, <2>4, SendKept
  <2> QED
    BY <2>1, <2>5 DEF Runs, Progress, InClientOrder
<1>3. CASE \E c \in Clients : Hello(c)
  <2>1. PICK c \in Clients : Hello(c)
    BY <1>3
  <2>2. [from |-> c, id |-> 0, mid |-> "H"] \in Reply /\ rfd[c] \in Fds
    BY <2>1, BoundsAssumption DEF Hello, Reply, Base, Refs
  <2>3. UNCHANGED <<current, ran, apc, item>>
    BY <2>1 DEF Hello, actionVars
  <2>4. Kept([from |-> c, id |-> 0, mid |-> "H"])
    BY DEF Kept
  <2>5. \A d \in Clients : \A j \in DOMAIN replies'[d] : Kept(replies[d][j])'
    BY <2>1, <2>2, <2>3, <2>4, SendKept DEF Hello
  <2> QED
    BY <2>3, <2>5 DEF Runs, Progress, InClientOrder, Ran, HasRun
<1> QED
  BY <1>1, <1>2, <1>3

LEMMA RunsInit == Init => Runs
<1> SUFFICES ASSUME Init PROVE Runs
  OBVIOUS
<1>1. apc = "idle" /\ ran = <<>> /\ \A c \in Clients : replies[c] = <<>>
  BY DEF Init
<1>2. DOMAIN ran = {}
  BY <1>1
<1> QED
  BY <1>1, <1>2 DEF Runs, Progress, InClientOrder

LEMMA RunsStep == ASSUME Base, Desc, Own, InOrder, Runs, [Next]_vars PROVE Runs'
<1>1. ASSUME NEW c \in Clients, SendRequest(c) \/ AcceptControl(c) \/ Leave(c) PROVE Runs'
  <2>1. UNCHANGED <<replies, current, ran, item, apc>>
    BY <1>1 DEF SendRequest, AcceptControl, Leave, receiverVars, actionVars
  <2> QED
    BY <2>1, RunsSame
<1>2. ASSUME NEW c \in Clients, Receiver(c) PROVE Runs'
  <2>1. CASE Hello(c)
    BY <2>1, RunsServed
  <2>2. CASE ~Hello(c)
    <3>1. UNCHANGED <<replies, current, ran, item, apc>>
      BY <1>2, <2>2 DEF Receiver, Recv, RecvData, RecvEnd, Process, ProcessEnd, ProcessHuge,
                        DisconnectHuge, DisconnectEof, DisconnectLast, actionVars
    <3> QED
      BY <3>1, RunsSame
  <2> QED
    BY <2>1, <2>2
<1>3. CASE ActionThread
  <2>1. CASE Crash
    <3>1. /\ UNCHANGED <<replies, current, ran, item>>
          /\ apc = "send" /\ apc' = "crashed"
      BY <2>1 DEF Crash
    <3> QED
      BY <3>1, RunsSame
  <2> QED
    BY <1>3, <2>1, RunsServed, RunsRun DEF ActionThread
<1>4. CASE UNCHANGED vars
  <2>1. UNCHANGED <<replies, current, ran, item, apc>>
    BY <1>4 DEF vars, actionVars
  <2> QED
    BY <2>1, RunsSame
<1> QED
  BY <1>1, <1>2, <1>3, <1>4 DEF Next

LEMMA RepliesKept == Base /\ Runs => RepliesFollowRuns
<1> SUFFICES ASSUME Base, Runs, NEW c \in Clients, NEW j \in DOMAIN replies[c]
             PROVE  LET r == replies[c][j]
                        runs == {ran[k].item : k \in {n \in DOMAIN ran : ran[n].from = r.from
                                                                       /\ ran[n].id = r.id}}
                    IN  /\ r.mid = "R" => runs = 1 .. Items
                        /\ r.mid = "X" => runs = {}
  BY DEF RepliesFollowRuns
<1> DEFINE r == replies[c][j]
           runs == {ran[k].item : k \in {n \in DOMAIN ran : ran[n].from = r.from
                                                          /\ ran[n].id = r.id}}
<1>1. Kept(r)
  BY DEF Runs
<1>2. \A k \in DOMAIN ran : ran[k].item \in 1 .. Items
  <2>1. ran \in Seq([from : Clients, id : 1 .. MaxRequests, item : 1 .. Items])
    BY DEF Base, TypeOK
  <2>2. \A k \in DOMAIN ran : ran[k] \in [from : Clients, id : 1 .. MaxRequests, item : 1 .. Items]
    BY <2>1, ElementOfSeq, LenProperties
  <2> QED
    BY <2>2
<1>3. r.mid = "R" => runs = 1 .. Items
  BY <1>1, <1>2 DEF Kept, Ran
<1>4. r.mid = "X" => runs = {}
  BY <1>1 DEF Kept, HasRun
<1> QED
  BY <1>3, <1>4

LEMMA OrderAlways == Spec => [](reused \/ (Desc /\ Own /\ InOrder /\ Runs))
<1>1. Init => Desc /\ Own /\ InOrder /\ Runs
  BY DescInit, OwnInit, OrderInit, RunsInit
<1>2. Base /\ (reused \/ (Desc /\ Own /\ InOrder /\ Runs)) /\ [Step]_<<vars, reused>>
        => reused' \/ (Desc' /\ Own' /\ InOrder' /\ Runs')
  <2> SUFFICES ASSUME Base, reused \/ (Desc /\ Own /\ InOrder /\ Runs),
                      [Step]_<<vars, reused>>, ~reused'
               PROVE  Desc' /\ Own' /\ InOrder' /\ Runs'
    OBVIOUS
  <2>1. ~reused /\ [Next /\ FreshAccept]_vars /\ [Next]_vars
    BY FreshStep
  <2> QED
    BY <2>1, DescStep, OwnStep, OrderStep, RunsStep
<1> QED
  BY <1>1, <1>2, BaseAlways, PTL DEF Spec

LEMMA BatchAlways == Spec => []Batch
<1>1. Init => Batch
  BY BatchInit
<1>2. Base /\ Batch /\ [Step]_<<vars, reused>> => Batch'
  <2> SUFFICES ASSUME Base, Batch, [Step]_<<vars, reused>> PROVE Batch'
    OBVIOUS
  <2>1. [Next]_vars
    BY DEF Step
  <2> QED
    BY <2>1, BatchStep
<1> QED
  BY <1>1, <1>2, BaseAlways, PTL DEF Spec

\* A message is a unit: its items run in order and together, whatever the threads do
\* in between and whichever descriptors are reused; and the messages of a client in
\* the order it sent them, as long as no accept() hands out a descriptor in use.
THEOREM BundlesRunWhole == Spec => []BundlesAreAtomic
<1>1. Batch /\ (reused \/ (Desc /\ Own /\ InOrder /\ Runs)) => BundlesAreAtomic
  BY DEF Batch, Whole, Runs, BundlesAreAtomic
<1> QED
  BY <1>1, OrderAlways, BatchAlways, PTL

\* An R reply means that all items of its message have run, an X reply that none has,
\* as long as no accept() hands out a descriptor in use.
THEOREM RepliesAfterRuns == Spec => [](reused \/ RepliesFollowRuns)
<1>1. Base /\ (reused \/ (Desc /\ Own /\ InOrder /\ Runs)) => reused \/ RepliesFollowRuns
  BY RepliesKept
<1> QED
  BY <1>1, OrderAlways, BaseAlways, PTL

-----------------------------------------------------------------------------
(* The promise: ControlServer implements RequestServer.                    *)

\* The receiver has not yet sent the hello message.
Fresh(c) == rpc[c] \in {"none", "hello"}

\* The hello message comes first: before it a client has no request under way, and
\* after it one reply at least, unless it has left.
Greeted ==
  /\ \A c \in Clients : Fresh(c) =>
       /\ replies[c] = <<>> /\ buffer[c] = <<>>
       /\ \A k \in DOMAIN queue : queue[k].request.from # c
       /\ apc # "idle" => current.request.from # c
  /\ \A c \in Clients : ~Fresh(c) /\ replies[c] = <<>> => peer[c] # "open"

\* What a reply changes that is sent to the descriptor of its client.
LEMMA SendExact ==
  ASSUME Base, NEW f \in Fds, NEW r \in Reply, SendTo(f, r),
         fdTable[f] \in {None, r.from}
  PROVE  /\ \A d \in Clients : d # r.from => replies'[d] = replies[d]
         /\ IF fdTable[f] = r.from /\ peer[r.from] = "open"
            THEN replies'[r.from] = Append(replies[r.from], r)
            ELSE replies'[r.from] = replies[r.from]
<1>1. replies \in [Clients -> Seq(Reply)] /\ r.from \in Clients /\ fdTable[f] \in Clients \cup {None}
  BY DEF Base, TypeOK, Reply
<1>2. fdTable[f] # None => fdTable[f] = r.from
  OBVIOUS
<1>3. CASE fdTable[f] # None /\ peer[fdTable[f]] = "open"
  <2>1. fdTable[f] = r.from /\ replies' = [replies EXCEPT ![r.from] = Append(@, r)]
    BY <1>2, <1>3 DEF SendTo
  <2> QED
    BY <1>1, <1>3, <2>1
<1>4. CASE ~(fdTable[f] # None /\ peer[fdTable[f]] = "open")
  <2>1. replies' = replies
    BY <1>4 DEF SendTo
  <2>2. ~(fdTable[f] = r.from /\ peer[r.from] = "open")
    BY <1>1, <1>4, ClientsAssumption
  <2> QED
    BY <2>1, <2>2
<1> QED
  BY <1>3, <1>4

LEMMA GreetedSame ==
  ASSUME Greeted, UNCHANGED <<replies, buffer, queue, current>>, apc' # "idle" => apc # "idle",
         \A c \in Clients : /\ Fresh(c)' <=> Fresh(c)
                            /\ ~Fresh(c) /\ peer'[c] = "open" => peer[c] = "open"
  PROVE  Greeted'
<1> HIDE DEF Fresh
<1>1. ASSUME NEW c \in Clients, Fresh(c)'
      PROVE  /\ replies'[c] = <<>> /\ buffer'[c] = <<>>
             /\ \A k \in DOMAIN queue' : queue'[k].request.from # c
             /\ apc' # "idle" => current'.request.from # c
  BY <1>1 DEF Greeted
<1>2. ASSUME NEW c \in Clients, ~Fresh(c)', replies'[c] = <<>> PROVE peer'[c] # "open"
  BY <1>2 DEF Greeted
<1> QED
  BY <1>1, <1>2 DEF Greeted

LEMMA GreetedInit == Init => Greeted
BY DEF Init, Greeted, Fresh

\* The steps that change none of what Greeted is about but program counters.
LEMMA GreetedIdle ==
  ASSUME Base, Desc, Greeted,
         \/ RunItem \/ Crash \/ UNCHANGED vars
         \/ \E c \in Clients : \/ SendRequest(c) \/ AcceptControl(c) \/ Leave(c)
                               \/ Recv(c) \/ RecvEnd(c) \/ ProcessEnd(c) \/ DisconnectHuge(c)
                               \/ DisconnectEof(c) \/ DisconnectLast(c)
  PROVE  Greeted'
<1> DEFINE Still == /\ UNCHANGED <<replies, buffer, queue, current>> /\ (apc' # "idle" => apc # "idle")
                    /\ \A c \in Clients :
                         /\ rpc'[c] \in {"none", "hello"} <=> rpc[c] \in {"none", "hello"}
                         /\ peer'[c] = "open" => rpc[c] \in {"none", "hello"} \/ peer[c] = "open"
<1>0. /\ rpc \in [Clients -> {"none", "hello", "recv", "blocked", "process", "huge",
                              "eof", "last", "ended"}]
      /\ peer \in [Clients -> {"idle", "open", "closed"}]
  BY DEF Base, TypeOK
<1>1. CASE RunItem \/ Crash \/ UNCHANGED vars
  <2>1. Still
    BY <1>1 DEF RunItem, Crash, vars, receiverVars, clientVars, actionVars
  <2> QED
    BY <2>1, GreetedSame DEF Fresh
<1>2. ASSUME NEW c \in Clients, SendRequest(c) PROVE Greeted'
  <2>1. Still
    BY <1>2 DEF SendRequest, receiverVars, actionVars
  <2> QED
    BY <2>1, GreetedSame DEF Fresh
<1>3. ASSUME NEW c \in Clients, Leave(c) PROVE Greeted'
  <2>1. Still
    BY <1>0, <1>3 DEF Leave, receiverVars, actionVars
  <2> QED
    BY <2>1, GreetedSame DEF Fresh
<1>4. ASSUME NEW c \in Clients, AcceptControl(c) PROVE Greeted'
  <2>1. rpc[c] = "none" /\ rpc' = [rpc EXCEPT ![c] = "hello"] /\ peer' = [peer EXCEPT ![c] = "open"]
    BY <1>4 DEF AcceptControl, Accept, Desc, Connected
  <2>2. UNCHANGED <<replies, buffer, queue, current, apc>>
    BY <1>4 DEF AcceptControl, actionVars
  <2>3. Still
    BY <1>0, <2>1, <2>2
  <2> QED
    BY <2>3, GreetedSame DEF Fresh
<1>5. ASSUME NEW c \in Clients, 
             \/ Recv(c) \/ RecvEnd(c) \/ ProcessEnd(c) \/ DisconnectHuge(c)
             \/ DisconnectEof(c) \/ DisconnectLast(c)
      PROVE Greeted'
  <2>1. /\ rpc[c] \notin {"none", "hello"}
        /\ \E p \in {"recv", "blocked", "eof", "last", "ended"} : rpc' = [rpc EXCEPT ![c] = p]
    BY <1>5 DEF Recv, RecvEnd, ProcessEnd, DisconnectHuge, DisconnectEof, DisconnectLast
  <2>2. UNCHANGED <<peer, replies, buffer, queue, current, apc>>
    BY <1>5 DEF Recv, RecvEnd, ProcessEnd, DisconnectHuge, DisconnectEof, DisconnectLast,
                actionVars, clientVars
  <2>3. Still
    BY <1>0, <2>1, <2>2
  <2> QED
    BY <2>3, GreetedSame DEF Fresh
<1> QED
  BY <1>1, <1>2, <1>3, <1>4, <1>5

\* Receiving and queueing: the receiver has said hello.
LEMMA GreetedMoved ==
  ASSUME Base, Desc, Own, Greeted, NEW c \in Clients, RecvData(c) \/ Process(c) \/ ProcessHuge(c)
  PROVE  Greeted'
<1>1. rpc \in [Clients -> {"none", "hello", "recv", "blocked", "process", "huge",
                           "eof", "last", "ended"}]
  BY DEF Base, TypeOK
<1>2. CASE RecvData(c)
  <2>1. /\ rpc[c] = "blocked" /\ rpc' = [rpc EXCEPT ![c] = "process"]
        /\ UNCHANGED <<peer, replies, queue, apc, current>>
        /\ \A d \in Clients : d # c => buffer'[d] = buffer[d]
    BY <1>2, RecvDataMoves
  <2>2. \A d \in Clients : Fresh(d)' => Fresh(d) /\ d # c
    BY <1>1, <2>1 DEF Fresh
  <2>3. \A d \in Clients : ~Fresh(d)' => ~Fresh(d)
    BY <1>1, <2>1 DEF Fresh
  <2> HIDE DEF Fresh
  <2> QED
    BY <2>1, <2>2, <2>3 DEF Greeted
<1>3. CASE Process(c) \/ ProcessHuge(c)
  <2>1. /\ rpc[c] = "process" /\ 1 \in DOMAIN buffer[c]
        /\ UNCHANGED <<peer, replies, apc, current>>
        /\ rpc' = rpc \/ rpc' = [rpc EXCEPT ![c] = "huge"]
        /\ \A d \in Clients : d # c => buffer'[d] = buffer[d]
        /\ DOMAIN queue' = 1 .. Len(queue) + 1 /\ DOMAIN queue = 1 .. Len(queue)
        /\ Len(queue) \in Nat
        /\ \A k \in 1 .. Len(queue) : queue'[k] = queue[k]
        /\ queue'[Len(queue) + 1] = [fd |-> rfd[c], request |-> buffer[c][1]]
    BY <1>3, ProcessMoves
  <2>2. queue'[Len(queue) + 1].request.from = c
    BY <2>1 DEF Own, OwnFrames
  <2>3. \A d \in Clients : Fresh(d)' => Fresh(d) /\ d # c
    BY <1>1, <2>1 DEF Fresh
  <2>4. \A d \in Clients : ~Fresh(d)' => ~Fresh(d)
    BY <1>1, <2>1 DEF Fresh
  <2>5. ASSUME NEW d \in Clients, Fresh(d)', NEW k \in DOMAIN queue' PROVE queue'[k].request.from # d
    <3>1. k \in 1 .. Len(queue) \/ k = Len(queue) + 1
      BY <2>1
    <3> QED
      BY <2>1, <2>2, <2>3, <2>5, <3>1 DEF Greeted
  <2> QED
    BY <2>1, <2>3, <2>4, <2>5 DEF Greeted
<1> QED
  BY <1>2, <1>3

\* The ActionThread's replies reach clients that have had the hello message.
LEMMA GreetedServed ==
  ASSUME Base, Desc, Own, Greeted, Dequeue \/ SendResponse \/ \E c \in Clients : Hello(c)
  PROVE  Greeted'
<1>0. /\ rpc \in [Clients -> {"none", "hello", "recv", "blocked", "process", "huge",
                              "eof", "last", "ended"}]
      /\ replies \in [Clients -> Seq(Reply)]
  BY DEF Base, TypeOK, Reply
<1>1. CASE Dequeue
  <2>1. queue \in Seq(Action) /\ queue # <<>>
    BY <1>1 DEF Dequeue, Base, TypeOK
  <2>2. /\ Head(queue) = queue[1] /\ Tail(queue) \in Seq(Action)
        /\ Len(Tail(queue)) = Len(queue) - 1
        /\ \A k \in 1 .. Len(Tail(queue)) : Tail(queue)[k] = queue[k + 1]
    BY <2>1, HeadTailProperties
  <2>3. /\ DOMAIN queue = 1 .. Len(queue) /\ Len(queue) \in Nat /\ Len(queue) >= 1
        /\ DOMAIN Tail(queue) = 1 .. Len(Tail(queue))
    BY <2>1, <2>2, LenProperties, EmptySeq
  <2>4. /\ current' = queue[1] /\ queue' = Tail(queue)
        /\ UNCHANGED <<peer, replies, rpc, buffer>>
    BY <1>1, <2>2 DEF Dequeue, receiverVars, clientVars
  <2>5. \A d \in Clients : (\A k \in DOMAIN queue : queue[k].request.from # d) =>
          /\ current'.request.from # d
          /\ \A k \in DOMAIN queue' : queue'[k].request.from # d
    BY <2>2, <2>3, <2>4
  <2> QED
    BY <2>4, <2>5 DEF Greeted, Fresh
<1>2. CASE SendResponse
  <2> DEFINE d == current.request.from
  <2>1. /\ current \in Action /\ current.request \in Request /\ current.fd \in Fds /\ d \in Clients
        /\ fdTable[current.fd] \in {None, d} /\ apc # "idle"
    BY <1>2 DEF SendResponse, Action, Base, Refs, Own, Named, Request
  <2>2. PICK mid \in {"R", "X", "garbage"} :
          SendTo(current.fd, [from |-> d, id |-> current.request.id, mid |-> mid])
    BY <1>2 DEF SendResponse
  <2> DEFINE r == [from |-> d, id |-> current.request.id, mid |-> mid]
  <2>3. r \in Reply
    BY <2>1, BoundsAssumption DEF Request, Reply
  <2>4. /\ \A e \in Clients : e # d => replies'[e] = replies[e]
        /\ replies'[d] = Append(replies[d], r) \/ replies'[d] = replies[d]
    BY <2>1, <2>2, <2>3, SendExact
  <2>5. ~Fresh(d)
    BY <2>1 DEF Greeted
  <2>6. replies'[d] = <<>> => replies[d] = <<>>
    <3>1. replies[d] \in Seq(Reply)
      BY <1>0, <2>1
    <3>2. Append(replies[d], r) # <<>>
      BY <2>3, <3>1, AppendProperties
    <3> QED
      BY <2>4, <3>2
  <2>7. UNCHANGED <<peer, rpc, buffer, queue>> /\ apc' = "idle"
    BY <1>2 DEF SendResponse, clientVars, receiverVars
  <2> QED
    BY <2>1, <2>4, <2>5, <2>6, <2>7 DEF Greeted, Fresh
<1>3. CASE \E c \in Clients : Hello(c)
  <2>1. PICK c \in Clients : Hello(c)
    BY <1>3
  <2> DEFINE r == [from |-> c, id |-> 0, mid |-> "H"]
  <2>2. r \in Reply /\ rfd[c] \in Fds /\ rpc[c] = "hello" /\ fdTable[rfd[c]] = c
    BY <2>1, BoundsAssumption DEF Hello, Reply, Base, Refs, Desc, OwnConnections
  <2>3. /\ \A e \in Clients : e # c => replies'[e] = replies[e]
        /\ IF peer[c] = "open" THEN replies'[c] = Append(replies[c], r)
           ELSE replies'[c] = replies[c]
    BY <2>1, <2>2, SendExact DEF Hello
  <2>4. peer[c] = "open" => replies'[c] # <<>>
    BY <1>0, <2>2, <2>3, AppendProperties
  <2>5. rpc' = [rpc EXCEPT ![c] = "recv"] /\ UNCHANGED <<peer, buffer, queue, apc, current>>
    BY <2>1 DEF Hello, actionVars, clientVars
  <2>6. \A e \in Clients : Fresh(e)' => Fresh(e) /\ e # c
    BY <1>0, <2>2, <2>5 DEF Fresh
  <2>7. \A e \in Clients : ~Fresh(e)' => e = c \/ ~Fresh(e)
    BY <1>0, <2>2, <2>5 DEF Fresh
  <2> HIDE DEF Fresh
  <2> QED
    BY <2>3, <2>4, <2>5, <2>6, <2>7 DEF Greeted
<1> QED
  BY <1>1, <1>2, <1>3

LEMMA GreetedStep == ASSUME Base, Desc, Own, Greeted, [Next]_vars PROVE Greeted'
BY GreetedIdle, GreetedMoved, GreetedServed DEF Next, Receiver, ActionThread

-----------------------------------------------------------------------------
\* What the mapping says of a client, in the terms of the order of requests.
Held(c, n)     == InHand(c, n) \/ InQueue(c, n)
Received(c, n) == InBuffer(c, n) \/ InInbox(c, n)

LEMMA WaitingMeans ==
  Base /\ Own => \A c \in Clients :
    Waiting(c) = {n \in Nat : Held(c, n) \/ (~Dismissed(c) /\ Received(c, n))}
<1> SUFFICES ASSUME Base, Own, NEW c \in Clients
             PROVE  Waiting(c) = {n \in Nat : Held(c, n) \/ (~Dismissed(c) /\ Received(c, n))}
  OBVIOUS
<1>1. /\ \A k \in DOMAIN inbox[c] : inbox[c][k] \in Request /\ inbox[c][k].from = c
      /\ \A k \in DOMAIN buffer[c] : buffer[c][k] \in Request /\ buffer[c][k].from = c
      /\ \A k \in DOMAIN queue : queue[k].request \in Request
  <2>1. inbox[c] \in Seq(Request) /\ buffer[c] \in Seq(Request) /\ queue \in Seq(Action)
    BY DEF Base, TypeOK
  <2>2. /\ \A k \in DOMAIN inbox[c] : inbox[c][k] \in Request
        /\ \A k \in DOMAIN buffer[c] : buffer[c][k] \in Request
        /\ \A k \in DOMAIN queue : queue[k] \in Action
    BY <2>1, ElementOfSeq, LenProperties
  <2> QED
    BY <2>2 DEF Own, OwnFrames, Action
<1>2. /\ apc = "idle" => current = Nobody
      /\ apc # "idle" => current # Nobody /\ current.request \in Request
  BY FdsAssumption DEF Base, Refs, Action, Nobody
<1>3. ASSUME NEW n \in Waiting(c)
      PROVE  n \in Nat /\ (Held(c, n) \/ (~Dismissed(c) /\ Received(c, n)))
  <2>1. PICK r : /\ r.from = c /\ r.id = n
                 /\ r \in Handled \cup Queued \cup
                      (IF Dismissed(c) THEN {} ELSE Range(buffer[c]) \cup Range(inbox[c]))
    BY <1>3 DEF Waiting
  <2>2. CASE r \in Handled
    BY <1>2, <2>1, <2>2, IdIsNumber DEF Handled, Held, InHand
  <2>3. CASE r \in Queued
    BY <1>1, <2>1, <2>3, IdIsNumber DEF Queued, Range, Held, InQueue
  <2>4. CASE ~Dismissed(c) /\ r \in Range(buffer[c])
    BY <1>1, <2>1, <2>4, IdIsNumber DEF Range, Received, InBuffer
  <2>5. CASE ~Dismissed(c) /\ r \in Range(inbox[c])
    BY <1>1, <2>1, <2>5, IdIsNumber DEF Range, Received, InInbox
  <2> QED
    BY <2>1, <2>2, <2>3, <2>4, <2>5
<1>4. ASSUME NEW n \in Nat, Held(c, n) \/ (~Dismissed(c) /\ Received(c, n))
      PROVE  n \in Waiting(c)
  <2>1. CASE InHand(c, n)
    <3>1. current.request \in Handled
      BY <1>2, <2>1 DEF InHand, Handled
    <3> QED
      BY <2>1, <3>1 DEF InHand, Waiting
  <2>2. CASE InQueue(c, n)
    <3>1. PICK k \in DOMAIN queue : queue[k].request.from = c /\ queue[k].request.id = n
      BY <2>2 DEF InQueue
    <3>2. queue[k].request \in Queued
      BY <3>1 DEF Queued, Range
    <3> QED
      BY <3>1, <3>2 DEF Waiting
  <2>3. CASE ~Dismissed(c) /\ InBuffer(c, n)
    <3>1. PICK k \in DOMAIN buffer[c] : buffer[c][k].id = n
      BY <2>3 DEF InBuffer
    <3>2. buffer[c][k] \in Range(buffer[c]) /\ buffer[c][k].from = c
      BY <1>1, <3>1 DEF Range
    <3> QED
      BY <2>3, <3>1, <3>2 DEF Waiting
  <2>4. CASE ~Dismissed(c) /\ InInbox(c, n)
    <3>1. PICK k \in DOMAIN inbox[c] : inbox[c][k].id = n
      BY <2>4 DEF InInbox
    <3>2. inbox[c][k] \in Range(inbox[c]) /\ inbox[c][k].from = c
      BY <1>1, <3>1 DEF Range
    <3> QED
      BY <2>4, <3>1, <3>2 DEF Waiting
  <2> QED
    BY <1>4, <2>1, <2>2, <2>3, <2>4 DEF Held, Received
<1> QED
  BY <1>3, <1>4

\* A step that moves no request but within the server, and no answer, is a stutter
\* of the promise.
LEMMA PromiseSame ==
  ASSUME Base, Own, Base', Own', sent' = sent,
         \A c \in Clients :
           /\ Answers(c)' = Answers(c)
           /\ peer'[c] = "closed" <=> peer[c] = "closed"
           /\ Dismissed(c)' <=> Dismissed(c)
           /\ \A n \in Nat : /\ Held(c, n)' \/ (~Dismissed(c) /\ Received(c, n)')
                               <=> Held(c, n) \/ (~Dismissed(c) /\ Received(c, n))
  PROVE  UNCHANGED Promise!requestVars
<1>1. \A c \in Clients : Waiting(c)' = Waiting(c)
  <2>1. (\A c \in Clients :
           Waiting(c) = {n \in Nat : Held(c, n) \/ (~Dismissed(c) /\ Received(c, n))})'
    BY WaitingMeans, PTL
  <2>2. \A c \in Clients :
           Waiting(c) = {n \in Nat : Held(c, n) \/ (~Dismissed(c) /\ Received(c, n))}
    BY WaitingMeans
  <2> HIDE DEF Held, Received, Dismissed, Waiting
  <2> QED
    BY <2>1, <2>2
<1>2. [c \in Clients |-> Gone(c)]' = [c \in Clients |-> Gone(c)]
  <2> HIDE DEF Dismissed
  <2> QED
    BY DEF Gone
<1> HIDE DEF Waiting, Answers, Gone
<1> QED
  BY <1>1, <1>2 DEF Promise!requestVars

-----------------------------------------------------------------------------
\* Of an open connection the descriptor is its receiver's, so only that one is to be
\* looked at.
LEMMA DismissedMeans ==
  Base /\ Desc => \A c \in Clients :
    Dismissed(c) <=> rpc[c] # "none" /\ (rpc[c] = "huge" \/ fdTable[rfd[c]] # c)
BY DEF Dismissed, Base, Refs, Desc, OwnFd

LEMMA DismissedThen ==
  Base' /\ Desc' => \A c \in Clients :
    Dismissed(c)' <=> rpc'[c] # "none" /\ (rpc'[c] = "huge" \/ fdTable'[rfd'[c]] # c)
<1>1. (Base /\ Desc => \A c \in Clients :
         Dismissed(c) <=> rpc[c] # "none" /\ (rpc[c] = "huge" \/ fdTable[rfd[c]] # c))'
  BY DismissedMeans, PTL
<1> QED
  BY <1>1

LEMMA PromiseStill ==
  ASSUME Base, Own, Base', Own', UNCHANGED <<sent, inbox, buffer, queue, current, replies>>,
         apc' # "idle" <=> apc # "idle",
         \A c \in Clients : /\ peer'[c] = "closed" <=> peer[c] = "closed"
                            /\ Dismissed(c)' <=> Dismissed(c)
  PROVE  UNCHANGED Promise!requestVars
<1>1. \A c \in Clients : \A n \in Nat :
        /\ Held(c, n)' <=> Held(c, n)
        /\ Received(c, n)' <=> Received(c, n)
  BY DEF Held, Received, InHand, InQueue, InBuffer, InInbox
<1>2. \A c \in Clients : Answers(c)' = Answers(c)
  BY DEF Answers
<1> HIDE DEF Held, Received, Dismissed, Answers
<1> QED
  BY <1>1, <1>2, PromiseSame

LEMMA IdleKeepsPromise ==
  ASSUME Base, Desc, Own, Base', Desc', Own',
         \/ RunItem \/ Crash \/ UNCHANGED vars
         \/ \E c \in Clients : Recv(c) \/ RecvEnd(c) \/ ProcessEnd(c)
  PROVE  UNCHANGED Promise!requestVars
<1>0. /\ rpc \in [Clients -> {"none", "hello", "recv", "blocked", "process", "huge",
                              "eof", "last", "ended"}]
      /\ peer \in [Clients -> {"idle", "open", "closed"}]
      /\ rfd \in [Clients -> Fds \cup {-1}] /\ fdTable \in [Fds -> Clients \cup {None}]
      /\ \A c \in Clients : rpc[c] # "none" => rfd[c] \in Fds
  BY DEF Base, TypeOK, Refs
<1> DEFINE Still == /\ UNCHANGED <<sent, inbox, buffer, queue, current, replies>>
                    /\ apc' # "idle" <=> apc # "idle"
                    /\ \A c \in Clients :
                         /\ peer'[c] = "closed" <=> peer[c] = "closed"
                         /\ rpc'[c] # "none" /\ (rpc'[c] = "huge" \/ fdTable'[rfd'[c]] # c)
                              <=> rpc[c] # "none" /\ (rpc[c] = "huge" \/ fdTable[rfd[c]] # c)
<1>1. ASSUME Still PROVE UNCHANGED Promise!requestVars
  <2>1. \A c \in Clients : Dismissed(c)' <=> Dismissed(c)
    BY <1>1, DismissedMeans, DismissedThen
  <2> QED
    BY <1>1, <2>1, PromiseStill
<1>2. CASE RunItem \/ Crash \/ UNCHANGED vars
  <2>1. Still
    BY <1>2 DEF RunItem, Crash, vars, receiverVars, clientVars, actionVars
  <2> QED
    BY <1>1, <2>1
<1>3. ASSUME NEW c \in Clients, Recv(c) \/ RecvEnd(c) \/ ProcessEnd(c) PROVE Still
  <2>1. /\ rpc[c] \notin {"none", "huge"}
        /\ \E p \in {"recv", "blocked", "eof", "last"} : rpc' = [rpc EXCEPT ![c] = p]
        /\ UNCHANGED <<peer, sent, inbox, replies, fdTable, rfd, buffer, queue, apc, current>>
    BY <1>3 DEF Recv, RecvEnd, ProcessEnd, actionVars, clientVars
  <2> QED
    BY <1>0, <2>1
<1> QED
  BY <1>1, <1>2, <1>3

\* To accept a connection changes nothing of the requests, even if its descriptor is
\* still in use.
LEMMA AcceptKeepsPromise ==
  ASSUME Base, Desc, NEW c \in Clients, AcceptControl(c)
  PROVE  UNCHANGED Promise!requestVars
<1>1. PICK f \in Fds :
        /\ Accept(c, f)
        /\ rpc' = [rpc EXCEPT ![c] = "hello"]
        /\ UNCHANGED <<sent, inbox, replies, buffer, queue, current>>
  BY DEF AcceptControl, actionVars
<1>2. /\ peer[c] = "idle" /\ fdTable[f] = None /\ rpc[c] = "none"
      /\ fdTable' = [fdTable EXCEPT ![f] = c] /\ peer' = [peer EXCEPT ![c] = "open"]
      /\ fdTable \in [Fds -> Clients \cup {None}]
      /\ peer \in [Clients -> {"idle", "open", "closed"}]
      /\ rpc \in [Clients -> {"none", "hello", "recv", "blocked", "process", "huge",
                              "eof", "last", "ended"}]
  BY <1>1 DEF Accept, FreeFds, Desc, Connected, Base, TypeOK
<1>3. ASSUME NEW d \in Clients PROVE Dismissed(d)' <=> Dismissed(d)
  <2>1. CASE d = c
    BY <1>1, <1>2, <2>1 DEF Dismissed
  <2>2. CASE d # c
    <3>1. rpc'[d] = rpc[d] /\ \A g \in Fds : fdTable'[g] = d <=> fdTable[g] = d
      BY <1>1, <1>2, <2>2, ClientsAssumption
    <3> QED
      BY <3>1 DEF Dismissed
  <2> QED
    BY <2>1, <2>2
<1>4. \A d \in Clients : peer'[d] = "closed" <=> peer[d] = "closed"
  BY <1>2
<1> HIDE DEF Dismissed
<1>5. \A d \in Clients : /\ Waiting(d)' = Waiting(d)
                         /\ Answers(d)' = Answers(d)
                         /\ Gone(d)' <=> Gone(d)
  BY <1>1, <1>3, <1>4 DEF Waiting, Handled, Queued, Answers, Gone
<1>6. [d \in Clients |-> Gone(d)]' = [d \in Clients |-> Gone(d)]
  BY <1>3, <1>4 DEF Gone
<1> HIDE DEF Waiting, Answers, Gone
<1> QED
  BY <1>1, <1>5, <1>6 DEF Promise!requestVars

LEMMA HelloKeepsPromise ==
  ASSUME Base, Desc, Own, Greeted, Base', Desc', Own', NEW c \in Clients, Hello(c)
  PROVE  UNCHANGED Promise!requestVars
<1> DEFINE r == [from |-> c, id |-> 0, mid |-> "H"]
<1>1. /\ r \in Reply /\ rfd[c] \in Fds /\ rpc[c] = "hello" /\ fdTable[rfd[c]] = c
      /\ rpc \in [Clients -> {"none", "hello", "recv", "blocked", "process", "huge",
                              "eof", "last", "ended"}]
  BY BoundsAssumption DEF Hello, Reply, Base, TypeOK, Refs, Desc, OwnConnections
<1>2. /\ \A e \in Clients : e # c => replies'[e] = replies[e]
      /\ replies'[c] = Append(replies[c], r) \/ replies'[c] = replies[c]
  BY <1>1, SendExact DEF Hello
<1>3. /\ rpc' = [rpc EXCEPT ![c] = "recv"]
      /\ UNCHANGED <<peer, sent, inbox, fdTable, rfd, buffer, queue, apc, current>>
  BY DEF Hello, actionVars, clientVars
<1>4. ASSUME NEW e \in Clients PROVE Answers(e)' = Answers(e)
  <2>1. CASE e # c
    BY <1>2, <2>1 DEF Answers
  <2>2. CASE e = c
    <3>1. replies[c] = <<>>
      BY <1>1 DEF Greeted, Fresh
    <3>2. replies[c] \in Seq(Reply) /\ Len(replies[c]) = 0
      BY <3>1, EmptySeq
    <3>3. Len(Append(replies[c], r)) = 1
      BY <1>1, <3>2, AppendProperties
    <3>4. Len(replies'[c]) \in {0, 1}
      BY <1>2, <3>2, <3>3
    <3>5. \A l \in {0, 1} : 1 .. l - 1 = {}
      OBVIOUS
    <3>6. 1 .. Len(replies[c]) - 1 = {} /\ 1 .. Len(replies'[c]) - 1 = {}
      BY <3>2, <3>4, <3>5
    <3> QED
      BY <2>2, <3>6 DEF Answers
  <2> QED
    BY <2>1, <2>2
<1>5. \A e \in Clients : Dismissed(e)' <=> Dismissed(e)
  BY <1>1, <1>3, DismissedMeans, DismissedThen
<1>6. \A e \in Clients : \A n \in Nat :
        /\ Held(e, n)' <=> Held(e, n)
        /\ Received(e, n)' <=> Received(e, n)
  BY <1>3 DEF Held, Received, InHand, InQueue, InBuffer, InInbox
<1> HIDE DEF Held, Received, Dismissed, Answers
<1> QED
  BY <1>3, <1>4, <1>5, <1>6, PromiseSame

\* What is received from the socket, or put in the queue, is waiting as before.
LEMMA ReceivedSame ==
  ASSUME Base, Desc, NEW c \in Clients, RecvData(c), NEW i \in Nat
  PROVE  Received(c, i)' <=> Received(c, i)
<1>1. PICK n \in 1 .. Len(inbox[c]) :
        /\ DOMAIN buffer'[c] = 1 .. Len(buffer[c]) + n
        /\ \A k \in 1 .. Len(buffer[c]) + n :
             buffer'[c][k] = IF k <= Len(buffer[c]) THEN buffer[c][k]
                             ELSE inbox[c][k - Len(buffer[c])]
        /\ DOMAIN inbox'[c] = 1 .. Len(inbox[c]) - n
        /\ \A k \in 1 .. Len(inbox[c]) - n : inbox'[c][k] = inbox[c][k + n]
  BY RecvDataMoves
<1>2. /\ Len(inbox[c]) \in Nat /\ Len(buffer[c]) \in Nat
      /\ DOMAIN inbox[c] = 1 .. Len(inbox[c]) /\ DOMAIN buffer[c] = 1 .. Len(buffer[c])
  BY RecvDataMoves, LenProperties
<1>3. ASSUME Received(c, i)' PROVE Received(c, i)
  <2>1. CASE InInbox(c, i)'
    <3>1. PICK k \in 1 .. Len(inbox[c]) - n : inbox[c][k + n].id = i
      BY <1>1, <2>1 DEF InInbox
    <3>2. k + n \in 1 .. Len(inbox[c])
      BY <1>2, ShiftBack
    <3> QED
      BY <1>2, <3>1, <3>2 DEF Received, InInbox
  <2>2. CASE InBuffer(c, i)'
    <3>1. PICK k \in 1 .. Len(buffer[c]) + n : buffer'[c][k].id = i
      BY <1>1, <2>2 DEF InBuffer
    <3>2. CASE k <= Len(buffer[c])
      <4>1. k \in 1 .. Len(buffer[c])
        BY <1>2, <3>2
      <4> QED
        BY <1>1, <1>2, <3>1, <3>2, <4>1 DEF Received, InBuffer
    <3>3. CASE ~(k <= Len(buffer[c]))
      <4>1. k - Len(buffer[c]) \in 1 .. Len(inbox[c])
        BY <1>2, <3>3, ShiftAhead
      <4> QED
        BY <1>1, <1>2, <3>1, <3>3, <4>1 DEF Received, InInbox
    <3> QED
      BY <3>2, <3>3
  <2> QED
    BY <1>3, <2>1, <2>2 DEF Received
<1>4. ASSUME Received(c, i) PROVE Received(c, i)'
  <2>1. CASE InBuffer(c, i)
    <3>1. PICK k \in 1 .. Len(buffer[c]) : buffer[c][k].id = i
      BY <1>2, <2>1 DEF InBuffer
    <3>2. k \in 1 .. Len(buffer[c]) + n /\ k <= Len(buffer[c])
      BY <1>2
    <3> QED
      BY <1>1, <3>1, <3>2 DEF Received, InBuffer
  <2>2. CASE InInbox(c, i)
    <3>1. PICK k \in 1 .. Len(inbox[c]) : inbox[c][k].id = i
      BY <1>2, <2>2 DEF InInbox
    <3>2. CASE k <= n
      <4> DEFINE l == k + Len(buffer[c])
      <4>1. l \in 1 .. Len(buffer[c]) + n /\ ~(l <= Len(buffer[c])) /\ l - Len(buffer[c]) = k
        BY <1>2, <3>2
      <4>2. buffer'[c][l] = inbox[c][k]
        BY <1>1, <4>1
      <4> QED
        BY <1>1, <3>1, <4>1, <4>2 DEF Received, InBuffer
    <3>3. CASE ~(k <= n)
      <4>1. k - n \in 1 .. Len(inbox[c]) - n /\ (k - n) + n = k
        BY <1>2, <3>3
      <4>2. inbox'[c][k - n] = inbox[c][k]
        BY <1>1, <4>1
      <4> QED
        BY <1>1, <3>1, <4>1, <4>2 DEF Received, InInbox
    <3> QED
      BY <3>2, <3>3
  <2> QED
    BY <1>4, <2>1, <2>2 DEF Received
<1> QED
  BY <1>3, <1>4

\* ProcessMessages takes the first request in the buffer: the oldest of those received.
LEMMA ProcessHolds ==
  ASSUME Base, Desc, Own, InOrder, NEW c \in Clients, Process(c) \/ ProcessHuge(c)
  PROVE  LET h == buffer[c][1].id IN
         /\ h \in Nat /\ Received(c, h) /\ ~Dismissed(c)
         /\ \A d \in Clients : \A n \in Nat : Held(d, n)' <=> Held(d, n) \/ (d = c /\ n = h)
         /\ \A d \in Clients : d # c => \A n \in Nat : Received(d, n)' <=> Received(d, n)
         /\ \A n \in Nat : Received(c, n) => h <= n
         /\ \A n \in Nat : Held(c, n) => n < h
<1> DEFINE h == buffer[c][1].id
<1>1. /\ rpc[c] = "process" /\ 1 \in DOMAIN buffer[c]
      /\ UNCHANGED <<inbox, apc, current>>
      /\ \A d \in Clients : d # c => buffer'[d] = buffer[d]
      /\ DOMAIN queue' = 1 .. Len(queue) + 1 /\ DOMAIN queue = 1 .. Len(queue)
      /\ Len(queue) \in Nat
      /\ \A k \in 1 .. Len(queue) : queue'[k] = queue[k]
      /\ queue'[Len(queue) + 1] = [fd |-> rfd[c], request |-> buffer[c][1]]
  BY ProcessMoves
<1>2. /\ buffer[c] \in Seq(Request) /\ DOMAIN buffer[c] = 1 .. Len(buffer[c])
      /\ \A k \in DOMAIN buffer[c] : buffer[c][k] \in Request /\ buffer[c][k].id \in Nat
      /\ h \in Nat /\ buffer[c][1].from = c
  <2>1. buffer[c] \in Seq(Request)
    BY DEF Base, TypeOK
  <2>2. \A k \in DOMAIN buffer[c] : buffer[c][k] \in Request
    BY <2>1, ElementOfSeq, LenProperties
  <2> QED
    BY <1>1, <2>1, <2>2, IdIsNumber, LenProperties DEF Own, OwnFrames
<1>3. InBuffer(c, h) /\ Received(c, h)
  BY <1>1 DEF InBuffer, Received
<1>4. ~Dismissed(c)
  BY <1>1, DismissedMeans DEF Desc, OwnConnections
<1>5. ASSUME NEW d \in Clients, NEW n \in Nat
      PROVE  Held(d, n)' <=> Held(d, n) \/ (d = c /\ n = h)
  <2>1. InHand(d, n)' <=> InHand(d, n)
    BY <1>1 DEF InHand
  <2>2. InQueue(d, n)' <=> InQueue(d, n) \/ (d = c /\ n = h)
    <3>1. ASSUME InQueue(d, n)' PROVE InQueue(d, n) \/ (d = c /\ n = h)
      <4>1. PICK k \in 1 .. Len(queue) + 1 : queue'[k].request.from = d /\ queue'[k].request.id = n
        BY <1>1, <3>1 DEF InQueue
      <4>2. CASE k \in 1 .. Len(queue)
        BY <1>1, <4>1, <4>2 DEF InQueue
      <4>3. CASE k = Len(queue) + 1
        BY <1>1, <1>2, <4>1, <4>3
      <4> QED
        BY <1>1, <4>1, <4>2, <4>3
    <3>2. ASSUME InQueue(d, n) PROVE InQueue(d, n)'
      <4>1. PICK k \in 1 .. Len(queue) : queue[k].request.from = d /\ queue[k].request.id = n
        BY <1>1, <3>2 DEF InQueue
      <4>2. k \in 1 .. Len(queue) + 1
        BY <1>1
      <4> QED
        BY <1>1, <4>1, <4>2 DEF InQueue
    <3>3. n = h => InQueue(c, n)'
      <4>1. Len(queue) + 1 \in 1 .. Len(queue) + 1
        BY <1>1
      <4> QED
        BY <1>1, <1>2, <4>1 DEF InQueue
    <3> QED
      BY <3>1, <3>2, <3>3
  <2> QED
    BY <2>1, <2>2 DEF Held
<1>6. \A d \in Clients : d # c => \A n \in Nat : Received(d, n)' <=> Received(d, n)
  BY <1>1 DEF Received, InBuffer, InInbox
<1>7. ASSUME NEW n \in Nat, Received(c, n) PROVE h <= n
  <2>1. CASE InInbox(c, n)
    BY <1>2, <1>3, <2>1 DEF InOrder, Order, PastBuffer
  <2>2. CASE InBuffer(c, n)
    <3>1. PICK k \in DOMAIN buffer[c] : buffer[c][k].id = n
      BY <2>2 DEF InBuffer
    <3>2. k = 1 \/ 1 < k
      BY <1>2
    <3> QED
      BY <1>1, <1>2, <3>1, <3>2 DEF InOrder, Increasing
  <2> QED
    BY <1>7, <2>1, <2>2 DEF Received
<1>8. \A n \in Nat : Held(c, n) => n < h
  BY <1>2, <1>3 DEF Held, InOrder, Order, PastQueue, PastHand
<1> QED
  BY <1>2, <1>3, <1>4, <1>5, <1>6, <1>7, <1>8

LEMMA MovedKeepsPromise ==
  ASSUME Base, Desc, Own, InOrder, Base', Desc', Own',
         Dequeue \/ \E c \in Clients : RecvData(c) \/ Process(c)
  PROVE  UNCHANGED Promise!requestVars
<1>1. ASSUME NEW c \in Clients, RecvData(c) PROVE UNCHANGED Promise!requestVars
  <2>1. /\ rpc[c] = "blocked" /\ rpc' = [rpc EXCEPT ![c] = "process"]
        /\ UNCHANGED <<peer, sent, replies, fdTable, rfd, queue, apc, current>>
        /\ \A d \in Clients : d # c => inbox'[d] = inbox[d] /\ buffer'[d] = buffer[d]
        /\ rpc \in [Clients -> {"none", "hello", "recv", "blocked", "process", "huge",
                                "eof", "last", "ended"}]
    BY <1>1, RecvDataMoves DEF Base, TypeOK
  <2>2. \A d \in Clients : Dismissed(d)' <=> Dismissed(d)
    BY <2>1, DismissedMeans, DismissedThen
  <2>3. \A d \in Clients : \A n \in Nat : Received(d, n)' <=> Received(d, n)
    <3>1. \A n \in Nat : Received(c, n)' <=> Received(c, n)
      BY <1>1, ReceivedSame
    <3>2. \A d \in Clients : d # c => \A n \in Nat : Received(d, n)' <=> Received(d, n)
      BY <2>1 DEF Received, InBuffer, InInbox
    <3> QED
      BY <3>1, <3>2
  <2>4. \A d \in Clients : Answers(d)' = Answers(d) /\ \A n \in Nat : Held(d, n)' <=> Held(d, n)
    BY <2>1 DEF Answers, Held, InHand, InQueue
  <2> HIDE DEF Held, Received, Dismissed, Answers
  <2> QED
    BY <2>1, <2>2, <2>3, <2>4, PromiseSame
<1>2. ASSUME NEW c \in Clients, Process(c) PROVE UNCHANGED Promise!requestVars
  <2>1. UNCHANGED <<peer, sent, inbox, replies, fdTable, rpc, rfd, apc, current>>
    BY <1>2 DEF Process, actionVars, clientVars
  <2>2. \A d \in Clients : Dismissed(d)' <=> Dismissed(d)
    BY <2>1 DEF Dismissed
  <2>3. \A d \in Clients : Answers(d)' = Answers(d)
    BY <2>1 DEF Answers
  <2> DEFINE h == buffer[c][1].id
  <2>4. \A d \in Clients : \A n \in Nat :
          Held(d, n)' \/ (~Dismissed(d) /\ Received(d, n)')
            <=> Held(d, n) \/ (~Dismissed(d) /\ Received(d, n))
    <3>1. /\ h \in Nat /\ Received(c, h) /\ ~Dismissed(c)
          /\ \A d \in Clients : \A n \in Nat : Held(d, n)' <=> Held(d, n) \/ (d = c /\ n = h)
          /\ \A d \in Clients : d # c => \A n \in Nat : Received(d, n)' <=> Received(d, n)
      BY <1>2, ProcessHolds
    <3>2. \A n \in Nat : Received(c, n)' => Received(c, n)
      <4>1. \A k \in DOMAIN buffer'[c] : k + 1 \in DOMAIN buffer[c] /\ buffer'[c][k] = buffer[c][k + 1]
        BY <1>2, ProcessMoves
      <4> QED
        BY <2>1, <4>1 DEF Received, InInbox, InBuffer
    <3>3. \A n \in Nat : Received(c, n) => Received(c, n)' \/ n = h
      <4>1. /\ buffer[c] \in Seq(Request) /\ buffer[c] # <<>> /\ buffer'[c] = Tail(buffer[c])
        BY <1>2 DEF Process, Base, TypeOK
      <4>2. /\ Tail(buffer[c]) \in Seq(Request) /\ Len(Tail(buffer[c])) = Len(buffer[c]) - 1
            /\ \A k \in 1 .. Len(Tail(buffer[c])) : Tail(buffer[c])[k] = buffer[c][k + 1]
        BY <4>1, HeadTailProperties
      <4>3. /\ DOMAIN buffer[c] = 1 .. Len(buffer[c]) /\ Len(buffer[c]) \in Nat
            /\ DOMAIN buffer'[c] = 1 .. Len(buffer[c]) - 1
            /\ \A k \in 1 .. Len(buffer[c]) - 1 : buffer'[c][k] = buffer[c][k + 1]
        BY <4>1, <4>2, LenProperties
      <4>4. ASSUME NEW n \in Nat, InBuffer(c, n), n # h PROVE InBuffer(c, n)'
        <5>1. PICK k \in 1 .. Len(buffer[c]) : buffer[c][k].id = n
          BY <4>3, <4>4 DEF InBuffer
        <5>2. k # 1
          BY <4>4, <5>1
        <5>3. k - 1 \in 1 .. Len(buffer[c]) - 1 /\ (k - 1) + 1 = k
          BY <4>3, <5>2
        <5> QED
          BY <4>3, <5>1, <5>3 DEF InBuffer
      <4> QED
        BY <2>1, <4>4 DEF Received, InInbox
    <3> HIDE DEF Held, Received, Dismissed, h
    <3> QED
      BY <3>1, <3>2, <3>3
  <2> HIDE DEF Held, Received, Dismissed, Answers
  <2> QED
    BY <2>1, <2>2, <2>3, <2>4, PromiseSame
<1>3. CASE Dequeue
  <2>1. queue \in Seq(Action) /\ queue # <<>> /\ apc = "idle" /\ apc' # "idle"
    BY <1>3 DEF Dequeue, Base, TypeOK
  <2>2. /\ Head(queue) = queue[1] /\ Tail(queue) \in Seq(Action)
        /\ Len(Tail(queue)) = Len(queue) - 1
        /\ \A k \in 1 .. Len(Tail(queue)) : Tail(queue)[k] = queue[k + 1]
    BY <2>1, HeadTailProperties
  <2>3. /\ current' = queue[1] /\ queue' = Tail(queue)
        /\ UNCHANGED <<peer, sent, inbox, replies, buffer, rpc, fdTable>>
    BY <1>3, <2>2 DEF Dequeue, receiverVars, clientVars
  <2>4. /\ DOMAIN queue = 1 .. Len(queue) /\ Len(queue) \in Nat /\ Len(queue) >= 1
        /\ DOMAIN queue' = 1 .. Len(queue) - 1
        /\ \A k \in 1 .. Len(queue) - 1 : queue'[k] = queue[k + 1]
    BY <2>1, <2>2, <2>3, LenProperties, EmptySeq
  <2>5. \A d \in Clients : Dismissed(d)' <=> Dismissed(d)
    BY <2>3 DEF Dismissed
  <2>6. ASSUME NEW d \in Clients, NEW n \in Nat PROVE Held(d, n)' <=> Held(d, n)
    <3>1. ASSUME InQueue(d, n) PROVE Held(d, n)'
      <4>1. PICK k \in 1 .. Len(queue) : queue[k].request.from = d /\ queue[k].request.id = n
        BY <2>4, <3>1 DEF InQueue
      <4>2. CASE k = 1
        BY <2>1, <2>3, <4>1, <4>2 DEF Held, InHand
      <4>3. CASE k # 1
        <5>1. k - 1 \in 1 .. Len(queue) - 1 /\ (k - 1) + 1 = k
          BY <2>4, <4>3
        <5> QED
          BY <2>4, <4>1, <5>1 DEF Held, InQueue
      <4> QED
        BY <4>2, <4>3
    <3>2. ASSUME Held(d, n)' PROVE InQueue(d, n)
      <4>1. CASE InHand(d, n)'
        <5>1. 1 \in DOMAIN queue
          BY <2>4
        <5> QED
          BY <2>3, <4>1, <5>1 DEF InHand, InQueue
      <4>2. CASE InQueue(d, n)'
        <5>1. PICK k \in 1 .. Len(queue) - 1 : queue[k + 1].request.from = d /\ queue[k + 1].request.id = n
          BY <2>4, <4>2 DEF InQueue
        <5>2. k + 1 \in DOMAIN queue
          BY <2>4
        <5> QED
          BY <5>1, <5>2 DEF InQueue
      <4> QED
        BY <3>2, <4>1, <4>2 DEF Held
    <3>3. ~InHand(d, n)
      BY <2>1 DEF InHand
    <3> QED
      BY <3>1, <3>2, <3>3 DEF Held
  <2>7. \A d \in Clients : Answers(d)' = Answers(d) /\ \A n \in Nat : Received(d, n)' <=> Received(d, n)
    BY <2>3 DEF Answers, Received, InBuffer, InInbox
  <2> HIDE DEF Held, Received, Dismissed, Answers
  <2> QED
    BY <2>3, <2>5, <2>6, <2>7, PromiseSame
<1> QED
  BY <1>1, <1>2, <1>3

LEMMA WaitingThen ==
  Base' /\ Own' => \A c \in Clients :
    Waiting(c)' = {n \in Nat : Held(c, n)' \/ (~Dismissed(c)' /\ Received(c, n)')}
<1>1. (Base /\ Own => \A c \in Clients :
         Waiting(c) = {n \in Nat : Held(c, n) \/ (~Dismissed(c) /\ Received(c, n))})'
  BY WaitingMeans, PTL
<1> HIDE DEF Held, Received, Dismissed, Waiting
<1> QED
  BY <1>1

\* A client whose connection the server has cut may send on: it is gone.
LEMMA RequestSubmits ==
  ASSUME Base, Desc, Own, Base', Desc', Own', NEW c \in Clients, SendRequest(c)
  PROVE  Promise!Submit(c)
<1>1. PICK k \in Kinds :
        inbox' = [inbox EXCEPT ![c] = Append(@, [from |-> c, id |-> sent'[c], kind |-> k])]
  BY DEF SendRequest
<1>2. /\ UNCHANGED <<peer, replies, fdTable, rpc, rfd, buffer, queue, apc, current>>
      /\ sent' = [sent EXCEPT ![c] = @ + 1] /\ sent[c] < MaxRequests
  BY DEF SendRequest, receiverVars, actionVars
<1>3. sent'[c] \in 1 .. MaxRequests /\ sent'[c] \in Nat
  <2>1. sent[c] \in 0 .. MaxRequests /\ sent \in [Clients -> 0 .. MaxRequests] /\ MaxRequests \in Nat
    BY BoundsAssumption DEF Base, TypeOK
  <2>2. sent'[c] = sent[c] + 1
    BY <1>2, <2>1
  <2> QED
    BY <1>2, <2>1, <2>2
<1> DEFINE r == [from |-> c, id |-> sent'[c], kind |-> k]
<1>4. /\ r \in Request /\ r.id = sent'[c] /\ inbox \in [Clients -> Seq(Request)]
      /\ inbox'[c] = Append(inbox[c], r)
      /\ \A d \in Clients : d # c => inbox'[d] = inbox[d]
  BY <1>1, <1>3 DEF Base, TypeOK, Request
<1> HIDE DEF r
<1>5. /\ Len(inbox[c]) \in Nat /\ DOMAIN inbox[c] = 1 .. Len(inbox[c])
      /\ DOMAIN inbox'[c] = 1 .. Len(inbox[c]) + 1
      /\ \A j \in 1 .. Len(inbox[c]) : inbox'[c][j] = inbox[c][j]
      /\ inbox'[c][Len(inbox[c]) + 1] = r
  <2>1. inbox[c] \in Seq(Request)
    BY <1>4
  <2>2. /\ Append(inbox[c], r) \in Seq(Request)
        /\ Len(Append(inbox[c], r)) = Len(inbox[c]) + 1
        /\ \A j \in 1 .. Len(inbox[c]) : Append(inbox[c], r)[j] = inbox[c][j]
        /\ Append(inbox[c], r)[Len(inbox[c]) + 1] = r
    BY <1>4, <2>1, AppendProperties
  <2> QED
    BY <1>4, <2>1, <2>2, LenProperties
<1>6. ASSUME NEW n \in Nat PROVE InInbox(c, n)' <=> InInbox(c, n) \/ n = sent'[c]
  <2>1. ASSUME InInbox(c, n)' PROVE InInbox(c, n) \/ n = sent'[c]
    <3>1. PICK j \in 1 .. Len(inbox[c]) + 1 : inbox'[c][j].id = n
      BY <1>5, <2>1 DEF InInbox
    <3>2. j \in 1 .. Len(inbox[c]) \/ j = Len(inbox[c]) + 1
      BY <1>5
    <3> QED
      BY <1>4, <1>5, <3>1, <3>2 DEF InInbox
  <2>2. n = sent'[c] => InInbox(c, n)'
    <3>1. Len(inbox[c]) + 1 \in 1 .. Len(inbox[c]) + 1
      BY <1>5
    <3> QED
      BY <1>4, <1>5, <3>1 DEF InInbox
  <2>3. InInbox(c, n) => InInbox(c, n)'
    <3>1. \A j \in 1 .. Len(inbox[c]) : j \in 1 .. Len(inbox[c]) + 1
      BY <1>5
    <3> QED
      BY <1>5, <3>1 DEF InInbox
  <2> QED
    BY <2>1, <2>2, <2>3
<1>7. \A d \in Clients : \A n \in Nat :
        /\ Held(d, n)' <=> Held(d, n)
        /\ Received(d, n)' <=> Received(d, n) \/ (d = c /\ n = sent'[c])
  <2>1. \A d \in Clients : \A n \in Nat : (Held(d, n)' <=> Held(d, n)) /\ (InBuffer(d, n)' <=> InBuffer(d, n))
    BY <1>2 DEF Held, InHand, InQueue, InBuffer
  <2>2. \A d \in Clients : d # c => \A n \in Nat : InInbox(d, n)' <=> InInbox(d, n)
    BY <1>4 DEF InInbox
  <2> HIDE DEF InInbox, InBuffer, Held
  <2> QED
    BY <1>6, <2>1, <2>2 DEF Received
<1>8. \A d \in Clients : Dismissed(d)' <=> Dismissed(d)
  BY <1>2 DEF Dismissed
<1>9. /\ \A d \in Clients : d # c => Waiting(d)' = Waiting(d)
      /\ Waiting(c)' = IF Dismissed(c) THEN Waiting(c) ELSE Waiting(c) \cup {sent'[c]}
  <2> HIDE DEF Held, Received, Dismissed, Waiting
  <2>1. \A d \in Clients : d # c => Waiting(d)' = Waiting(d)
    BY <1>7, <1>8, WaitingMeans, WaitingThen
  <2>2. Dismissed(c) => Waiting(c)' = Waiting(c)
    BY <1>7, <1>8, WaitingMeans, WaitingThen
  <2>3. ASSUME ~Dismissed(c) PROVE Waiting(c)' = Waiting(c) \cup {sent'[c]}
    <3>1. /\ Waiting(c) = {n \in Nat : Held(c, n) \/ Received(c, n)}
          /\ Waiting(c)' = {n \in Nat : Held(c, n) \/ Received(c, n) \/ n = sent'[c]}
      BY <1>7, <1>8, <2>3, WaitingMeans, WaitingThen
    <3> QED
      BY <1>3, <3>1
  <2> QED
    BY <2>1, <2>2, <2>3
<1>10. UNCHANGED <<[d \in Clients |-> Answers(d)], [d \in Clients |-> Gone(d)]>>
  BY <1>2 DEF Answers, Gone, Dismissed
<1>11. [d \in Clients |-> Gone(d)][c] <=> Gone(c)
  <2> HIDE DEF Dismissed
  <2> QED
    BY DEF Gone
<1>12. CASE Dismissed(c)
  <2>1. UNCHANGED [d \in Clients |-> Waiting(d)]
    <3> HIDE DEF Dismissed, Waiting
    <3> QED
      BY <1>9, <1>12
  <2> HIDE DEF Waiting, Answers, Gone
  <2> QED
    BY <1>2, <1>10, <1>11, <1>12, <2>1 DEF Promise!Submit, Gone
<1>13. CASE ~Dismissed(c)
  <2>1. [d \in Clients |-> Waiting(d)]' =
          [[d \in Clients |-> Waiting(d)] EXCEPT ![c] = @ \cup {sent'[c]}]
    <3> HIDE DEF Dismissed, Waiting
    <3> QED
      BY <1>9, <1>13
  <2> HIDE DEF Waiting, Answers, Gone
  <2> QED
    BY <1>2, <1>10, <2>1 DEF Promise!Submit
<1> QED
  BY <1>12, <1>13

LEMMA Departs ==
  ASSUME Base, Own, Base', Own', NEW c \in Clients, sent' = sent,
         \A d \in Clients : Answers(d)' = Answers(d),
         peer'[c] = "closed" \/ Dismissed(c)',
         \A d \in Clients : d # c =>
           /\ peer'[d] = "closed" <=> peer[d] = "closed"
           /\ Dismissed(d)' <=> Dismissed(d)
           /\ \A n \in Nat : /\ Held(d, n)' <=> Held(d, n)
                             /\ Received(d, n)' <=> Received(d, n),
         Waiting(c)' \subseteq Waiting(c),
         \A n \in Waiting(c)', m \in Waiting(c) : m < n => m \in Waiting(c)'
  PROVE  Promise!Depart(c)
<1>1. \A d \in Clients : d # c => Waiting(d)' = Waiting(d)
  <2> HIDE DEF Held, Received, Dismissed, Waiting
  <2> QED
    BY WaitingMeans, WaitingThen
<1>2. [d \in Clients |-> Gone(d)]' = [[d \in Clients |-> Gone(d)] EXCEPT ![c] = TRUE]
  <2> HIDE DEF Dismissed
  <2> QED
    BY DEF Gone
<1>3. /\ [d \in Clients |-> Waiting(d)]' = [[d \in Clients |-> Waiting(d)] EXCEPT ![c] = Waiting(c)']
      /\ [d \in Clients |-> Waiting(d)][c] = Waiting(c)
  <2> HIDE DEF Waiting
  <2> QED
    BY <1>1
<1>4. UNCHANGED [d \in Clients |-> Answers(d)]
  <2> HIDE DEF Answers
  <2> QED
    OBVIOUS
<1> HIDE DEF Waiting, Answers, Gone, Dismissed
<1> QED
  BY <1>2, <1>3, <1>4 DEF Promise!Depart

\* What the server holds of a client came before all that it has only received.
LEMMA HeldFirst ==
  ASSUME InOrder, NEW c \in Clients, NEW n \in Nat, NEW m \in Nat, Held(c, n), Received(c, m)
  PROVE  n < m
BY DEF Held, Received, InOrder, Order, PastBuffer, PastQueue, PastHand

LEMMA LeaveDeparts ==
  ASSUME Base, Own, Base', Own', NEW c \in Clients, Leave(c) PROVE Promise!Depart(c)
<1>1. /\ peer' = [peer EXCEPT ![c] = "closed"] /\ peer \in [Clients -> {"idle", "open", "closed"}]
      /\ UNCHANGED <<sent, inbox, replies, fdTable, rpc, buffer, queue, apc, current>>
  BY DEF Leave, receiverVars, actionVars, Base, TypeOK
<1>2. \A d \in Clients : /\ Answers(d)' = Answers(d) /\ (Dismissed(d)' <=> Dismissed(d))
                         /\ d # c => (peer'[d] = "closed" <=> peer[d] = "closed")
                         /\ \A n \in Nat : /\ Held(d, n)' <=> Held(d, n)
                                           /\ Received(d, n)' <=> Received(d, n)
  BY <1>1 DEF Answers, Dismissed, Held, Received, InHand, InQueue, InBuffer, InInbox
<1>3. Waiting(c)' = Waiting(c)
  <2> HIDE DEF Held, Received, Dismissed, Waiting
  <2> QED
    BY <1>2, WaitingMeans, WaitingThen
<1>4. peer'[c] = "closed"
  BY <1>1
<1> HIDE DEF Held, Received, Dismissed, Waiting, Answers
<1> QED
  BY <1>1, <1>2, <1>3, <1>4, Departs

\* What an oversize frame leaves of its client's requests: those before it, and itself.
LEMMA HugeDeparts ==
  ASSUME Base, Desc, Own, InOrder, Base', Desc', Own', NEW c \in Clients, ProcessHuge(c)
  PROVE  Promise!Depart(c)
<1>1. /\ rpc' = [rpc EXCEPT ![c] = "huge"] /\ rpc[c] = "process"
      /\ UNCHANGED <<peer, sent, inbox, replies, fdTable, rfd, apc, current>>
      /\ rpc \in [Clients -> {"none", "hello", "recv", "blocked", "process", "huge",
                              "eof", "last", "ended"}]
  BY DEF ProcessHuge, actionVars, clientVars, Base, TypeOK
<1>2. PICK h \in Nat :
        /\ Received(c, h) /\ ~Dismissed(c)
        /\ \A d \in Clients : \A n \in Nat : Held(d, n)' <=> Held(d, n) \/ (d = c /\ n = h)
        /\ \A d \in Clients : d # c => \A n \in Nat : Received(d, n)' <=> Received(d, n)
        /\ \A n \in Nat : Received(c, n) => h <= n
        /\ \A n \in Nat : Held(c, n) => n < h
  <2> HIDE DEF Held, Received, Dismissed
  <2> QED
    BY ProcessHolds
<1>3. /\ Dismissed(c)'
      /\ \A d \in Clients : d # c => (Dismissed(d)' <=> Dismissed(d))
  BY <1>1, DismissedMeans, DismissedThen
<1>4. \A d \in Clients : Answers(d)' = Answers(d)
  BY <1>1 DEF Answers
<1> HIDE DEF Held, Received, Dismissed
<1>5. /\ Waiting(c) = {n \in Nat : Held(c, n) \/ Received(c, n)}
      /\ Waiting(c)' = {n \in Nat : Held(c, n) \/ n = h}
  <2> HIDE DEF Waiting
  <2>1. Waiting(c)' = {n \in Nat : Held(c, n)'}
    BY <1>3, WaitingThen
  <2> QED
    BY <1>2, <2>1, WaitingMeans
<1>6. \A n \in Waiting(c)', m \in Waiting(c) : m < n => m \in Waiting(c)'
  <2> SUFFICES ASSUME NEW n \in Nat, NEW m \in Nat, Held(c, n) \/ n = h,
                      Received(c, m), m < n
               PROVE  FALSE
    BY <1>5
  <2> QED
    BY <1>2
<1> HIDE DEF Waiting, Answers
<1> QED
  BY <1>1, <1>2, <1>3, <1>4, <1>5, <1>6, Departs

\* What is left when the server closes the connection.
LEMMA CloseDeparts ==
  ASSUME Base, Desc, Own, InOrder, Base', Desc', Own', NEW c \in Clients,
         DisconnectHuge(c) \/ DisconnectEof(c) \/ DisconnectLast(c)
  PROVE  Promise!Depart(c)
<1>1. /\ UNCHANGED <<peer, sent, inbox, replies, rfd, buffer, queue, apc, current>>
      /\ rpc[c] \in {"huge", "eof", "last"}
      /\ \E p \in {"recv", "last", "ended"} : rpc' = [rpc EXCEPT ![c] = p]
      /\ fdTable' = [fdTable EXCEPT ![rfd[c]] = None]
  BY DEF DisconnectHuge, DisconnectEof, DisconnectLast, Close, clientVars, actionVars
<1>2. /\ rpc \in [Clients -> {"none", "hello", "recv", "blocked", "process", "huge",
                              "eof", "last", "ended"}]
      /\ fdTable \in [Fds -> Clients \cup {None}] /\ rfd[c] \in Fds
      /\ \A d \in Clients : rpc[d] # "none" => rfd[d] \in Fds
  BY <1>1 DEF Base, TypeOK, Refs
<1>3. Dismissed(c)'
  BY <1>1, <1>2, DismissedThen, ClientsAssumption
<1>4. ASSUME NEW d \in Clients, d # c PROVE Dismissed(d)' <=> Dismissed(d)
  <2>1. rfd[d] = rfd[c] => fdTable[rfd[d]] # d
    BY <1>1, <1>2, <1>4 DEF Desc, OwnFd, DistinctFds, Live
  <2>2. rpc[d] # "none" => (fdTable'[rfd[d]] = d <=> fdTable[rfd[d]] = d)
    BY <1>1, <1>2, <2>1, ClientsAssumption
  <2>3. rpc'[d] = rpc[d] /\ rfd'[d] = rfd[d]
    BY <1>1, <1>2, <1>4
  <2>4. /\ Dismissed(d) <=> rpc[d] # "none" /\ (rpc[d] = "huge" \/ fdTable[rfd[d]] # d)
        /\ Dismissed(d)' <=> rpc'[d] # "none" /\ (rpc'[d] = "huge" \/ fdTable'[rfd'[d]] # d)
    BY DismissedMeans, DismissedThen
  <2> HIDE DEF Dismissed
  <2> QED
    BY <2>2, <2>3, <2>4
<1>5. \A d \in Clients : /\ Answers(d)' = Answers(d)
                         /\ \A n \in Nat : /\ Held(d, n)' <=> Held(d, n)
                                           /\ Received(d, n)' <=> Received(d, n)
  BY <1>1 DEF Answers, Held, Received, InHand, InQueue, InBuffer, InInbox
<1> HIDE DEF Held, Received, Dismissed
<1>6. Waiting(c)' = {n \in Nat : Held(c, n)}
  <2> HIDE DEF Waiting
  <2> QED
    BY <1>3, <1>5, WaitingThen
<1>7. /\ Waiting(c)' \subseteq Waiting(c)
      /\ \A n \in Waiting(c)', m \in Waiting(c) : m < n => m \in Waiting(c)'
  <2>1. Waiting(c) = {n \in Nat : Held(c, n) \/ (~Dismissed(c) /\ Received(c, n))}
    BY WaitingMeans
  <2>2. ASSUME NEW n \in Nat, NEW m \in Nat, Held(c, n), Received(c, m), m < n PROVE FALSE
    <3>1. n < m
      BY <2>2, HeldFirst
    <3> QED
      BY <2>2, <3>1
  <2> HIDE DEF Waiting
  <2> QED
    BY <1>6, <2>1, <2>2
<1> HIDE DEF Waiting, Answers
<1> QED
  BY <1>1, <1>3, <1>4, <1>5, <1>7, Departs

\* The reply to the message in hand answers its client's oldest request.
LEMMA ResponseAnswers ==
  ASSUME Base, Desc, Own, InOrder, Greeted, Base', Desc', Own', SendResponse
  PROVE  Promise!Answer(current.request.from)
<1>1. PICK c \in Clients, i \in Nat :
        /\ c = current.request.from /\ i = current.request.id
        /\ current.request \in Request /\ current.fd \in Fds /\ apc # "idle"
        /\ rpc[c] # "none" /\ rfd[c] = current.fd /\ fdTable[current.fd] \in {None, c}
  <2>1. /\ current.request \in Request /\ current.fd \in Fds /\ apc # "idle" /\ Named(current)
    BY DEF SendResponse, Action, Base, Refs, Own
  <2>2. current.request.from \in Clients /\ current.request.id \in Nat
    BY <2>1, IdIsNumber DEF Request
  <2> QED
    BY <2>1, <2>2 DEF Named
<1>2. PICK mid \in {"R", "X", "garbage"} :
        SendTo(current.fd, [from |-> current.request.from, id |-> current.request.id, mid |-> mid])
  BY DEF SendResponse
<1> DEFINE r == [from |-> c, id |-> i, mid |-> mid]
<1>3. r \in Reply /\ SendTo(current.fd, r)
  BY <1>1, <1>2, BoundsAssumption DEF Request, Reply
<1>4. /\ \A d \in Clients : d # c => replies'[d] = replies[d]
      /\ IF fdTable[current.fd] = c /\ peer[c] = "open"
         THEN replies'[c] = Append(replies[c], r) ELSE replies'[c] = replies[c]
  BY <1>1, <1>3, SendExact
<1>5. /\ UNCHANGED <<peer, sent, inbox, fdTable, rpc, buffer, queue>> /\ apc' = "idle"
  BY DEF SendResponse, clientVars, receiverVars
<1>6. \A d \in Clients : \A n \in Nat :
        /\ InQueue(d, n)' <=> InQueue(d, n)
        /\ Received(d, n)' <=> Received(d, n)
        /\ ~InHand(d, n)'
        /\ InHand(d, n) <=> d = c /\ n = i
  BY <1>1, <1>5 DEF InQueue, Received, InBuffer, InInbox, InHand
<1>7. \A n \in Nat : InQueue(c, n) \/ Received(c, n) => i < n
  BY <1>6 DEF Received, InOrder, Order, PastBuffer, PastQueue, PastHand
<1>8. \A d \in Clients : Dismissed(d)' <=> Dismissed(d)
  BY <1>5 DEF Dismissed
<1>9. /\ \A d \in Clients : d # c => Waiting(d)' = Waiting(d)
      /\ Waiting(c)' = Waiting(c) \ {i} /\ i \in Waiting(c)
      /\ \A n \in Waiting(c) : i <= n
  <2>1. \A d \in Clients : \A n \in Nat :
          /\ Held(d, n)' <=> InQueue(d, n)
          /\ Held(d, n) <=> InQueue(d, n) \/ (d = c /\ n = i)
    BY <1>6 DEF Held
  <2> HIDE DEF Held, Received, Dismissed, Waiting, InQueue
  <2>2. \A d \in Clients : d # c => Waiting(d)' = Waiting(d)
    BY <1>6, <1>8, <2>1, WaitingMeans, WaitingThen
  <2>3. /\ Waiting(c) = {n \in Nat : InQueue(c, n) \/ n = i \/ (~Dismissed(c) /\ Received(c, n))}
        /\ Waiting(c)' = {n \in Nat : InQueue(c, n) \/ (~Dismissed(c) /\ Received(c, n))}
    BY <1>6, <1>8, <2>1, WaitingMeans, WaitingThen
  <2>4. ASSUME NEW n \in Nat, InQueue(c, n) \/ Received(c, n) PROVE n # i /\ i <= n
    BY <1>7, <2>4
  <2> QED
    BY <2>2, <2>3, <2>4
<1>10. UNCHANGED [d \in Clients |-> Gone(d)]
  BY <1>5 DEF Gone, Dismissed
<1>11. [d \in Clients |-> Waiting(d)]' = [[d \in Clients |-> Waiting(d)] EXCEPT ![c] = @ \ {i}]
  <2> HIDE DEF Waiting
  <2> QED
    BY <1>9
<1>12. CASE fdTable[current.fd] = c /\ peer[c] = "open"
  <2>1. replies[c] \in Seq(Reply) /\ replies'[c] = Append(replies[c], r) /\ replies[c] # <<>>
    BY <1>1, <1>4, <1>12 DEF Base, TypeOK, Reply, Greeted
  <2>2. /\ Len(replies[c]) \in Nat /\ Len(replies[c]) >= 1
        /\ Len(replies'[c]) = Len(replies[c]) + 1
        /\ \A j \in 1 .. Len(replies[c]) : replies'[c][j] = replies[c][j]
        /\ replies'[c][Len(replies[c]) + 1] = r
        /\ \A j \in 1 .. Len(replies[c]) : replies[c][j] \in Reply
    BY <1>3, <2>1, AppendProperties, LenProperties, EmptySeq, ElementOfSeq
  <2>3. PICK l \in Nat : Len(replies[c]) = l + 1 /\ Len(replies'[c]) = l + 2
    <3>1. Len(replies[c]) - 1 \in Nat
      BY <2>2
    <3>2. /\ Len(replies[c]) = (Len(replies[c]) - 1) + 1
          /\ Len(replies'[c]) = (Len(replies[c]) - 1) + 2
      BY <2>2
    <3> QED
      BY <3>1, <3>2
  <2>4. /\ Answers(c) = [j \in 1 .. l |-> replies[c][j + 1].id]
        /\ Answers(c)' = [j \in 1 .. l + 1 |-> replies'[c][j + 1].id]
    BY <2>3 DEF Answers
  <2>5. Answers(c) \in Seq(Nat) /\ Len(Answers(c)) = l
    <3>1. \A j \in 1 .. l : j + 1 \in 1 .. Len(replies[c])
      BY <2>3
    <3>2. \A j \in 1 .. l : replies[c][j + 1].id \in Nat
      <4>1. \A q \in Reply : q.id \in Nat
        BY BoundsAssumption DEF Reply
      <4> QED
        BY <2>2, <3>1, <4>1
    <3>3. Answers(c) \in [1 .. l -> Nat]
      BY <2>4, <3>2
    <3> QED
      BY <2>3, <2>4, <3>3
  <2>6. Answers(c)' = Append(Answers(c), i)
    <3>1. /\ Append(Answers(c), i) \in Seq(Nat) /\ Len(Append(Answers(c), i)) = l + 1
          /\ \A j \in 1 .. l : Append(Answers(c), i)[j] = Answers(c)[j]
          /\ Append(Answers(c), i)[l + 1] = i
      BY <2>5, AppendProperties
    <3>2. Append(Answers(c), i) \in [1 .. l + 1 -> Nat]
      BY <3>1, LenProperties
    <3>3. ASSUME NEW j \in 1 .. l + 1 PROVE Append(Answers(c), i)[j] = replies'[c][j + 1].id
      <4>1. CASE j \in 1 .. l
        <5>1. j + 1 \in 1 .. Len(replies[c])
          BY <2>3, <4>1
        <5>2. replies'[c][j + 1] = replies[c][j + 1]
          BY <2>2, <5>1
        <5>3. Answers(c)[j] = replies[c][j + 1].id
          BY <2>4, <4>1
        <5>4. Append(Answers(c), i)[j] = Answers(c)[j]
          BY <3>1, <4>1
        <5> QED
          BY <5>2, <5>3, <5>4
      <4>2. CASE j = l + 1
        <5>1. j + 1 = Len(replies[c]) + 1
          BY <2>3, <4>2
        <5>2. replies'[c][j + 1].id = i
          BY <2>2, <5>1
        <5> QED
          BY <3>1, <4>2, <5>2
      <4>3. j \in 1 .. l \/ j = l + 1
        OBVIOUS
      <4> QED
        BY <4>1, <4>2, <4>3
    <3> QED
      BY <2>4, <3>2, <3>3
  <2>7. [d \in Clients |-> Answers(d)]' =
          [[d \in Clients |-> Answers(d)] EXCEPT ![c] = Append(@, i)]
    <3>1. \A d \in Clients : d # c => Answers(d)' = Answers(d)
      BY <1>4 DEF Answers
    <3> HIDE DEF Answers
    <3> QED
      BY <2>6, <3>1
  <2>8. [d \in Clients |-> Waiting(d)][c] = Waiting(c)
    OBVIOUS
  <2> HIDE DEF Waiting, Answers, Gone
  <2>9. /\ i \in [d \in Clients |-> Waiting(d)][c]
        /\ \A n \in [d \in Clients |-> Waiting(d)][c] : i <= n
    BY <1>9, <2>8
  <2>10. sent' = sent
    BY <1>5
  <2>11. Promise!Answer(c)
    BY <1>10, <1>11, <2>7, <2>9, <2>10 DEF Promise!Answer
  <2> QED
    BY <1>1, <2>11
<1>13. CASE ~(fdTable[current.fd] = c /\ peer[c] = "open")
  <2>1. UNCHANGED [d \in Clients |-> Answers(d)]
    <3>1. \A d \in Clients : replies'[d] = replies[d]
      BY <1>4, <1>13
    <3> QED
      BY <3>1 DEF Answers
  <2>2. Gone(c)
    <3>1. peer[c] \in {"open", "closed"}
      BY <1>1 DEF Base, TypeOK, Desc, Connected
    <3>2. fdTable[current.fd] # c => Dismissed(c)
      BY <1>1, DismissedMeans
    <3> QED
      BY <1>13, <3>1, <3>2 DEF Gone
  <2>3. [d \in Clients |-> Waiting(d)][c] = Waiting(c)
    OBVIOUS
  <2>4. [d \in Clients |-> Gone(d)][c]
    <3> HIDE DEF Dismissed
    <3> QED
      BY <2>2 DEF Gone
  <2> HIDE DEF Waiting, Answers, Gone
  <2>5. /\ i \in [d \in Clients |-> Waiting(d)][c]
        /\ \A n \in [d \in Clients |-> Waiting(d)][c] : i <= n
    BY <1>9, <2>3
  <2>6. sent' = sent
    BY <1>5
  <2>7. Promise!Answer(c)
    BY <1>10, <1>11, <2>1, <2>4, <2>5, <2>6 DEF Promise!Answer
  <2> QED
    BY <1>1, <2>7
<1> QED
  BY <1>12, <1>13

LEMMA PromiseInit == Init => Promise!Init
<1> SUFFICES ASSUME Init PROVE Promise!Init
  OBVIOUS
<1>1. Base /\ Own
  BY BaseInit, OwnInit
<1>2. ASSUME NEW c \in Clients PROVE Waiting(c) = {} /\ Answers(c) = <<>> /\ (Gone(c) <=> FALSE)
  <2>1. \A n \in Nat : ~Held(c, n) /\ ~Received(c, n)
    BY DEF Init, Held, Received, InHand, InQueue, InBuffer, InInbox
  <2>2. Waiting(c) = {}
    <3> HIDE DEF Held, Received, Dismissed, Waiting
    <3> QED
      BY <1>1, <2>1, WaitingMeans
  <2>3. replies[c] = <<>> /\ peer[c] = "idle" /\ rpc[c] = "none"
    BY DEF Init
  <2>4. Answers(c) = <<>>
    <3>1. Len(replies[c]) = 0
      BY <2>3, EmptySeq
    <3>2. 1 .. Len(replies[c]) - 1 = {}
      BY <3>1
    <3>3. Answers(c) \in [1 .. 0 -> Nat]
      BY <3>2 DEF Answers
    <3> HIDE DEF Answers
    <3>4. Answers(c) \in Seq(Nat)
      BY <3>3
    <3>5. Len(Answers(c)) = 0
      BY <3>3, <3>4, LenProperties
    <3> QED
      BY <3>4, <3>5, EmptySeq
  <2>5. ~Gone(c)
    BY <2>3 DEF Gone, Dismissed
  <2> QED
    BY <2>2, <2>4, <2>5
<1>3. [c \in Clients |-> Gone(c)] = [c \in Clients |-> FALSE]
  BY <1>2 DEF Gone
<1>4. sent = [c \in Clients |-> 0]
  BY DEF Init
<1> HIDE DEF Waiting, Answers, Gone
<1> QED
  BY <1>2, <1>3, <1>4 DEF Promise!Init

\* Nothing but accept() hands out a descriptor.
LEMMA OthersOpenNone ==
  ASSUME Base, [Next]_vars, \A c \in Clients : ~AcceptControl(c) PROVE FreshAccept
<1>1. fdTable \in [Fds -> Clients \cup {None}]
  BY DEF Base, TypeOK
<1>2. fdTable' = fdTable \/ \E g : fdTable' = [fdTable EXCEPT ![g] = None]
  <2>1. CASE \E c \in Clients : \/ Hello(c) \/ Recv(c) \/ RecvData(c) \/ RecvEnd(c)
                               \/ Process(c) \/ ProcessEnd(c) \/ ProcessHuge(c)
                               \/ SendRequest(c) \/ Leave(c)
    BY <2>1 DEF Hello, Recv, RecvData, RecvEnd, Process, ProcessEnd, ProcessHuge,
                SendRequest, Leave
  <2>2. CASE \E c \in Clients : DisconnectHuge(c) \/ DisconnectEof(c) \/ DisconnectLast(c)
    BY <2>2 DEF DisconnectHuge, DisconnectEof, DisconnectLast, Close
  <2>3. CASE ActionThread \/ UNCHANGED vars
    BY <2>3 DEF ActionThread, Dequeue, RunItem, SendResponse, Crash, vars
  <2> QED
    BY <2>1, <2>2, <2>3 DEF Next, Receiver
<1> QED
  BY <1>1, <1>2 DEF FreshAccept

LEMMA PromiseStep ==
  ASSUME Base, Desc, Own, InOrder, Greeted, Base', [Next]_vars
  PROVE  [Promise!Next]_(Promise!requestVars)
<1>0. CASE \E c \in Clients : AcceptControl(c)
  BY <1>0, AcceptKeepsPromise
<1> SUFFICES ASSUME \A c \in Clients : ~AcceptControl(c)
             PROVE  [Promise!Next]_(Promise!requestVars)
  BY <1>0
<1>5. Desc' /\ Own'
  <2>1. [Next /\ FreshAccept]_vars
    BY OthersOpenNone
  <2> QED
    BY <2>1, DescStep, OwnStep
<1>1. ASSUME NEW c \in Clients, SendRequest(c) PROVE Promise!Next
  BY <1>1, <1>5, RequestSubmits DEF Promise!Next
<1>2. ASSUME NEW c \in Clients,
             \/ Leave(c) \/ ProcessHuge(c)
             \/ DisconnectHuge(c) \/ DisconnectEof(c) \/ DisconnectLast(c)
      PROVE  Promise!Next
  <2>1. Promise!Depart(c)
    BY <1>2, <1>5, LeaveDeparts, HugeDeparts, CloseDeparts
  <2> QED
    BY <2>1 DEF Promise!Next
<1>3. CASE SendResponse
  <2>1. current.request.from \in Clients
    BY <1>3 DEF SendResponse, Action, Request, Base, Refs
  <2>2. Promise!Answer(current.request.from)
    BY <1>3, <1>5, ResponseAnswers
  <2> QED
    BY <2>1, <2>2 DEF Promise!Next
<1>4. CASE \/ RunItem \/ Crash \/ UNCHANGED vars \/ Dequeue
           \/ \E c \in Clients : \/ Recv(c) \/ RecvEnd(c) \/ ProcessEnd(c)
                                 \/ Hello(c) \/ RecvData(c) \/ Process(c)
  BY <1>4, <1>5, IdleKeepsPromise, HelloKeepsPromise, MovedKeepsPromise
<1> QED
  BY <1>1, <1>2, <1>3, <1>4 DEF Next, Receiver, ActionThread

LEMMA GreetedAlways == Spec => [](reused \/ (Desc /\ Own /\ InOrder /\ Greeted))
<1>1. Init => Desc /\ Own /\ InOrder /\ Greeted
  BY DescInit, OwnInit, OrderInit, GreetedInit
<1>2. Base /\ (reused \/ (Desc /\ Own /\ InOrder /\ Greeted)) /\ [Step]_<<vars, reused>>
        => reused' \/ (Desc' /\ Own' /\ InOrder' /\ Greeted')
  <2> SUFFICES ASSUME Base, reused \/ (Desc /\ Own /\ InOrder /\ Greeted),
                      [Step]_<<vars, reused>>, ~reused'
               PROVE  Desc' /\ Own' /\ InOrder' /\ Greeted'
    OBVIOUS
  <2>1. ~reused /\ [Next /\ FreshAccept]_vars /\ [Next]_vars
    BY FreshStep
  <2> QED
    BY <2>1, DescStep, OwnStep, OrderStep, GreetedStep
<1> QED
  BY <1>1, <1>2, BaseAlways, PTL DEF Spec

\* The control server keeps its promise: whatever the threads and the clients do, the
\* requests of a client are answered in the order it sent them, each once and none
\* left out, until it leaves or is cut off.  Only after an accept() has handed out a
\* descriptor in use is anything else possible.
THEOREM PromiseKept == Spec => KeepsPromise
<1>1. Base /\ Base' /\ (reused \/ (Desc /\ Own /\ InOrder /\ Greeted)) /\ [Step]_<<vars, reused>>
        => [reused \/ Promise!Next]_(Promise!requestVars)
  <2> SUFFICES ASSUME Base, Base', Desc, Own, InOrder, Greeted, [Step]_<<vars, reused>>
               PROVE  [Promise!Next]_(Promise!requestVars)
    OBVIOUS
  <2>1. [Next]_vars
    BY DEF Step
  <2> QED
    BY <2>1, PromiseStep
<1> QED
  BY <1>1, PromiseInit, BaseAlways, GreetedAlways, PTL DEF Spec, KeepsPromise

================================================================================
