-------------------------------- MODULE Upload --------------------------------
(***************************************************************************)
(* File upload (DataItems/SYS_.cpp): SYS_UploadFileName opens a file,      *)
(* SYS_UploadFileData writes to it and, with an empty payload, closes it.  *)
(* The stream `ofs' and `filename' are globals: one session, shared by     *)
(* every client.  The ActionThread runs the items of one message after     *)
(* another (ControlServer), messages of all clients in any order.          *)
(*                                                                         *)
(* A file is the sequence of the data items written to it.  External: the  *)
(* file system and the std::ofstream of libstdc++, with its buffer.        *)
(***************************************************************************)
EXTENDS Integers, Sequences

CONSTANTS
  Clients,
  NoClient,       \* no message is being run
  Names,          \* paths that sanitizePath accepts
  BadName,        \* a path that it refuses
  NoName,         \* "": what is left of a refused path
  Shapes,         \* the kinds of items that make up a message
  MaxData,        \* bound: number of data items that are run
  MaxFails        \* bound: number of calls of the file system that fail

Kinds == {"name", "data", "end"}

ASSUME UploadAssumption ==
  /\ NoClient \notin Clients
  /\ BadName \notin Names /\ NoName \notin Names
  /\ Shapes \subseteq Seq(Kinds)
  /\ MaxData \in Nat /\ MaxFails \in Nat

VARIABLES
  open,           \* ofs.is_open()
  bad,            \* !ofs: failbit or badbit is set
  pending,        \* the data in the buffer of ofs
  target,         \* filename: the path with which ofs was last opened
  files,          \* the files on disk
  by,             \* the client whose message is being run
  msg,            \* its items still to be run
  arg,            \* the name in its name items
  sent,           \* number of data items run
  fails,          \* number of calls that failed
  named,          \* history: the name in the last name item run
  asked,          \* history: the data items run since then
  refused         \* history: an item of the message threw

stream  == <<open, bad, pending, target>>
message == <<by, arg>>
vars    == <<stream, files, message, msg, sent, fails, named, asked, refused>>

Units == Clients \X Nat

TypeOK ==
  /\ open \in BOOLEAN /\ bad \in BOOLEAN /\ refused \in BOOLEAN
  /\ pending \in Seq(Units) /\ asked \in Seq(Units)
  /\ target \in Names \cup {NoName}
  /\ files \in [Names -> Seq(Units)]
  /\ by \in Clients \cup {NoClient}
  /\ msg \in Seq(Kinds)
  /\ arg \in Names \cup {BadName, NoName}
  /\ named \in Names \cup {BadName, NoName}
  /\ sent \in Nat /\ fails \in Nat

Init ==
  /\ open = FALSE /\ bad = FALSE /\ pending = <<>> /\ target = NoName
  /\ files = [n \in Names |-> <<>>]
  /\ by = NoClient /\ msg = <<>> /\ arg = NoName
  /\ sent = 0 /\ fails = 0
  /\ named = NoName /\ asked = <<>> /\ refused = FALSE

-----------------------------------------------------------------------------
(* What the stream does.                                                   *)

First(s, k) == SubSeq(s, 1, k)
Rest(s, k)  == SubSeq(s, k + 1, Len(s))

Works == fails' = fails
Fails == fails < MaxFails /\ fails' = fails + 1

\* The first k items of s reach the file.
Write(s, k) == files' = [files EXCEPT ![target] = @ \o First(s, k)]

\* FAULT (Close): the stream says it is good when the flush failed.
CloseUnchecked ==
  /\ open' = FALSE /\ pending' = <<>> /\ bad' = bad
  /\ \/ Works /\ Write(pending, Len(pending))
     \/ Fails /\ \E k \in 0 .. Len(pending) : Write(pending, k)

\* ofs.close(): the buffer is flushed and the file closed whatever happens; a
\* failure sets failbit, but success does not clear what an earlier one set.
Close ==
  /\ open' = FALSE /\ pending' = <<>>
  /\ \/ Works /\ bad' = bad /\ Write(pending, Len(pending))
     \/ Fails /\ bad' = TRUE /\ \E k \in 0 .. Len(pending) : Write(pending, k)

\* ofs.open(): a file that opens is empty, and clears the state of the stream;
\* no file has the empty name.
Open ==
  \/ /\ target' # NoName /\ Works
     /\ open' = TRUE /\ bad' = FALSE
     /\ files' = [files EXCEPT ![target'] = <<>>]
  \/ /\ IF target' = NoName THEN Works ELSE Fails
     /\ open' = FALSE /\ bad' = TRUE
     /\ UNCHANGED files

\* ofs.write(s): part of the buffer and the data reaches the file.  After a
\* failure the buffer keeps what it held, perhaps with the new data, and close()
\* writes it again.
WriteData(unit) ==
  LET data == Append(pending, unit) IN
  \/ /\ ~bad /\ Works
     /\ \E k \in 0 .. Len(data) : Write(data, k) /\ pending' = Rest(data, k)
     /\ UNCHANGED <<open, bad>>
  \/ /\ ~bad /\ Fails
     /\ \E k \in 0 .. Len(pending) : Write(data, k)
     /\ bad' = TRUE /\ pending' \in {pending, data}
     /\ UNCHANGED open
  \/ /\ bad /\ Works
     /\ UNCHANGED <<open, bad, pending, files>>

-----------------------------------------------------------------------------
(* The ActionThread: the items of one message, then its reply.             *)

Begin(c) ==
  /\ by = NoClient
  /\ \E shape \in Shapes :
       /\ sent + Len(SelectSeq(shape, LAMBDA k : k = "data")) <= MaxData
       /\ msg' = shape
  /\ by' = c /\ arg' \in Names \cup {BadName}
  /\ UNCHANGED <<stream, files, sent, fails, named, asked, refused>>

\* Go() catches what UploadFilesByDataItem throws and logs it.
ItemRun(throws) ==
  /\ msg' = Tail(msg)
  /\ refused' = (refused \/ throws)
  /\ UNCHANGED <<by, arg>>

\* The name to which the data items that follow are meant to go.
NameRun == named' = arg /\ asked' = <<>> /\ UNCHANGED sent

\* A name item closes the file of the session before.  When that leaves the
\* stream bad the item throws, and its own name is forgotten.
CloseLast ==
  /\ msg # <<>> /\ Head(msg) = "name" /\ open
  /\ Close
  /\ UNCHANGED target
  /\ \/ bad' /\ ItemRun(TRUE) /\ NameRun
     \/ ~bad' /\ UNCHANGED <<message, msg, sent, named, asked, refused>>

\* FAULT (OpenNamed): the file of the session before stays open.
OpenNamedTwice ==
  /\ msg # <<>> /\ Head(msg) = "name"
  /\ \/ open /\ ItemRun(FALSE) /\ UNCHANGED <<open, bad, target, files, fails>>
     \/ /\ ~open /\ target' = IF arg = BadName THEN NoName ELSE arg
        /\ Open /\ ItemRun(bad')
  /\ NameRun /\ UNCHANGED pending

\* It opens the file; the constructor has left nothing of a name that
\* sanitizePath refused.
OpenNamed ==
  /\ msg # <<>> /\ Head(msg) = "name" /\ ~open
  /\ target' = IF arg = BadName THEN NoName ELSE arg
  /\ Open /\ ItemRun(bad')
  /\ NameRun /\ UNCHANGED pending

\* A data item with a payload.
GoData ==
  /\ msg # <<>> /\ Head(msg) = "data"
  /\ LET unit == <<by, sent>> IN
       /\ \/ open /\ WriteData(unit) /\ ItemRun(bad')
          \/ ~open /\ Works /\ ItemRun(TRUE) /\ UNCHANGED <<open, bad, pending, files>>
       /\ asked' = Append(asked, unit)
  /\ sent' = sent + 1
  /\ UNCHANGED <<target, named>>

\* A data item without one: the upload is complete.
GoEnd ==
  /\ msg # <<>> /\ Head(msg) = "end"
  /\ \/ open /\ Close /\ ItemRun(bad')
     \/ ~open /\ Works /\ ItemRun(TRUE) /\ UNCHANGED <<open, bad, pending, files>>
  /\ UNCHANGED <<target, sent, named, asked>>

\* The reply is an R: no item's Go() threw.
Reply ==
  /\ by # NoClient /\ msg = <<>>
  /\ by' = NoClient /\ arg' = NoName /\ refused' = FALSE
  /\ UNCHANGED <<stream, files, msg, sent, fails, named, asked>>

\* The process ends, by a signal or an exception that no one catches (as that of
\* std::filesystem::absolute for an empty path), and is started again: the
\* buffer is lost, the files are as they were written.
Crash ==
  /\ open' = FALSE /\ bad' = FALSE /\ pending' = <<>> /\ target' = NoName
  /\ by' = NoClient /\ arg' = NoName /\ msg' = <<>>
  /\ named' = NoName /\ asked' = <<>> /\ refused' = FALSE
  /\ UNCHANGED <<files, sent, fails>>

Next ==
  \/ \E c \in Clients : Begin(c)
  \/ CloseLast \/ OpenNamed \/ GoData \/ GoEnd
  \/ Reply
  \/ Crash

Spec == Init /\ [][Next]_vars

-----------------------------------------------------------------------------
(* What an upload promises.                                                *)

\* A file that is closed without an error, at the end of its upload or because
\* another name came, holds the data items run since its name, all of them, once
\* and in order: after a failed write no later success, retry, crash or client
\* makes an incomplete file pass for a complete one.
ClosedFilesComplete ==
  [][open /\ ~open' /\ ~bad' /\ by' # NoClient => files'[target] = asked]_vars

\* Data goes to the file that the last name item named, never to that of an
\* earlier session, unless the stream takes none at all.
OpenIsNamed == open /\ ~bad => target = named

\* "Create File operation failed" makes the response an E (README.md:103-110): a
\* message about to be answered with an R has no failed item.
RefusedItemsShow == by # NoClient /\ msg = <<>> => ~refused

\* A file holds the data of one client.
UploadsStayApart ==
  \A n \in Names : \A j, k \in DOMAIN files[n] : files[n][j][1] = files[n][k][1]

=============================================================================
