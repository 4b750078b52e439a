--------------------------- MODULE SteamConnection ---------------------------
(***************************************************************************)
(* Sources/Asio/Connections.cpp, Modules/Connection.cpp and MultiPacket.cpp*)
(* and the part of Modules/Login-Auth.cpp that takes the logon response:   *)
(* one client's connection to Steam, from connect() to its end.            *)
(*                                                                         *)
(* Two fibers of the Asio thread, a reader (which also makes the           *)
(* connection) and a writer, share a Connection with the fiber of the      *)
(* connection module.  Connection::mutex guards it; the reader keeps the   *)
(* mutex while it connects, which is all a step here needs to know of it.  *)
(* The waiter is the port of WaitPort: wait() returns once an item is      *)
(* triggered and throws once it is cancelled.                              *)
(*                                                                         *)
(* A packet from Steam is a sequence of messages: a CMsgMulti is one of    *)
(* any length but 1.  An error of connect() that is not eof is thrown out  *)
(* of the reader and ends the program, so no step follows it.              *)
(***************************************************************************)
EXTENDS Integers, Sequences, FiniteSets, SequencesExt

CONSTANTS Wire,      \* the packets Steam sends
          MaxSends,  \* bound: messages the client's modules send
          Attempts,  \* connect() is tried at the previous endpoint and at the
                     \* list's up to this many times in all (100 in the code)
          None

Messages == FlattenSeq(Wire)
Contents == UNION {ToSet(p) : p \in ToSet(Wire)}

ASSUME ConnectionAssumption == /\ Wire \in Seq(Seq(Contents))
                               /\ MaxSends \in Nat
                               /\ Attempts \in Nat \ {0}
                               /\ IsInjective(Messages)
                               /\ None \notin Contents \cup 1..MaxSends

VARIABLES
  logon,          \* the message that is the logon response, if any
  arriving,       \* packets Steam has yet to send
  status,         \* Connection::status
  statusChanged,  \* Connection::statusChanged
  readPackets,    \* Connection::readPackets
  writePackets,   \* Connection::writePackets
  reader,         \* the reader: "fetch", "connect", "connected", "check", "read", "push",
                  \* "eof" or "ended"
  tries,          \* attempts left
  packet,         \* the packet the reader has read
  posts,          \* writePacket() calls posted to the Asio thread
  writingPackets, \* Connection::writingPackets
  writer,         \* the writer: "idle", "check", "take" or "write"
  outgoing,       \* the packet it has taken
  written,        \* what it has written
  conn,           \* fiber of the connection module: "wait", "write", "read",
                  \* "barrier", "status", "endpoint" or "ended"
  sends,          \* messages sent so far
  sendQueue,      \* sendMessageWaiter's messages
  multi,          \* fiber of MultiPacket: "wait", "handle", "barrier" or "ended"
  multiQueue,     \* multiMessageWaiter's messages
  unpacked,       \* what is left of the CMsgMulti being handled
  login,          \* fiber of the login module: "wait" or "ended"
  loginQueue,     \* cmsgClientLogonResponse's messages
  processed,      \* logon responses the login module is done with
  posted,         \* what went to the messageboard (a CMsgMulti: its contents)
  cancelled,      \* Client::quit has been called
  whiteboard,     \* ConnectionStatus
  endpoint        \* LocalEndpoint is on the whiteboard

readerVars == <<arriving, reader, tries, packet>>
writerVars == <<posts, writingPackets, writer, outgoing, written>>
sharedVars == <<status, statusChanged, readPackets, writePackets>>
moduleVars == <<conn, sends, sendQueue, whiteboard, endpoint>>
boardVars == <<multi, multiQueue, unpacked, login, loginQueue, processed, posted>>
clientVars == <<moduleVars, boardVars, cancelled>>
vars == <<logon, readerVars, writerVars, sharedVars, clientVars>>

Closed == status \in {"GotEOF", "Error"}

(* makeConnection() holds the mutex around connect().                      *)
Unlocked == reader # "connect"

Init ==
  /\ logon \in Contents \cup {None}
  /\ arriving = Wire
  /\ status = "Connecting"
  /\ statusChanged = TRUE
  /\ readPackets = <<>>
  /\ writePackets = <<>>
  /\ reader \in {"fetch", "connect"}   \* without or with a previous endpoint
  /\ tries = Attempts
  /\ packet = <<>>
  /\ posts = 0
  /\ writingPackets = FALSE
  /\ writer = "idle"
  /\ outgoing = None
  /\ written = <<>>
  /\ conn = "wait"
  /\ sends = 0
  /\ sendQueue = <<>>
  /\ multi = "wait"
  /\ multiQueue = <<>>
  /\ unpacked = <<>>
  /\ login = "wait"
  /\ loginQueue = <<>>
  /\ processed = {}
  /\ posted = <<>>
  /\ cancelled = FALSE
  /\ whiteboard = "Disconnected"
  /\ endpoint = FALSE

-----------------------------------------------------------------------------
(* The reader.                                                             *)

(* Mutation: the waiter item is not triggered.                             *)
MutSetStatusQuietly(new) == status' = new /\ UNCHANGED statusChanged

SetStatus(new) == status' = new /\ statusChanged' = TRUE

Goto(next) == reader' = next

(* The server list arrives (a failing query ends the program), or the 200  *)
(* ms between two attempts are over.                                       *)
TryNext == /\ reader = "fetch"
           /\ Goto(IF tries > 0 THEN "connect" ELSE "ended")
           /\ UNCHANGED <<logon, arriving, tries, packet, writerVars, sharedVars, clientVars>>

ConnectFails == /\ reader = "connect"
                /\ tries' = tries - 1
                /\ Goto("fetch")
                /\ UNCHANGED <<logon, arriving, packet, writerVars, sharedVars, clientVars>>

ConnectSucceeds == /\ reader = "connect"
                   /\ Goto("connected")
                   /\ UNCHANGED <<logon, arriving, tries, packet, writerVars, sharedVars, clientVars>>

Connected == /\ reader = "connected"
             /\ SetStatus("Connected")
             /\ Goto("check")
             /\ UNCHANGED <<logon, arriving, tries, packet, writerVars, readPackets, writePackets,
                            clientVars>>

(* readPacket(): the fiber itself keeps the Connection alive, so only the  *)
(* status counts.                                                          *)
CheckStatus == /\ reader = "check"
               /\ Goto(IF status = "Connected" THEN "read" ELSE "ended")
               /\ UNCHANGED <<logon, arriving, tries, packet, writerVars, sharedVars, clientVars>>

(* Steam answers a logon, which is the first thing the client sends.       *)
Arrive == /\ reader = "read"
          /\ arriving # <<>>
          /\ logon \in ToSet(Head(arriving)) => written # <<>>
          /\ packet' = Head(arriving)
          /\ arriving' = Tail(arriving)
          /\ Goto("push")
          /\ UNCHANGED <<logon, tries, writerVars, sharedVars, clientVars>>

PushPacket == /\ reader = "push"
              /\ readPackets' = Append(readPackets, packet)
              /\ packet' = <<>>
              /\ Goto("check")
              /\ UNCHANGED <<logon, arriving, tries, writerVars, status, statusChanged,
                             writePackets, clientVars>>

(* The read fails: eof is told to the client, any other error is not.      *)
ReadFails(eof) == /\ reader = "read"
                  /\ Goto(IF eof THEN "eof" ELSE "ended")
                  /\ UNCHANGED <<logon, arriving, tries, packet, writerVars, sharedVars, clientVars>>

GotEOF == /\ reader = "eof"
          /\ SetStatus("GotEOF")
          /\ Goto("ended")
          /\ UNCHANGED <<logon, arriving, tries, packet, writerVars, readPackets, writePackets,
                         clientVars>>

-----------------------------------------------------------------------------
(* The writer.                                                             *)

(* The function Connection::writePacket posts: one fiber at a time writes. *)
StartWriting == /\ posts > 0
                /\ Unlocked
                /\ posts' = posts - 1
                /\ IF ~writingPackets /\ writePackets # <<>>
                   THEN writingPackets' = TRUE /\ writer' = "check"
                   ELSE UNCHANGED <<writingPackets, writer>>
                /\ UNCHANGED <<logon, readerVars, outgoing, written, sharedVars, clientVars>>

StopWriting == writer' = "idle" /\ writingPackets' = FALSE

CheckWriting == /\ writer = "check"
                /\ Unlocked
                /\ IF status = "Connected"
                   THEN writer' = "take" /\ UNCHANGED writingPackets
                   ELSE StopWriting
                /\ UNCHANGED <<logon, readerVars, posts, outgoing, written, sharedVars, clientVars>>

TakePacket == /\ writer = "take"
              /\ Unlocked
              /\ IF writePackets = <<>>
                 THEN StopWriting /\ UNCHANGED <<outgoing, writePackets>>
                 ELSE /\ outgoing' = Head(writePackets)
                      /\ writePackets' = Tail(writePackets)
                      /\ writer' = "write"
                      /\ UNCHANGED writingPackets
              /\ UNCHANGED <<logon, readerVars, posts, written, status, statusChanged,
                             readPackets, clientVars>>

(* Mutation: a fiber writes one packet only.                               *)
MutWriteOne == /\ writer = "write"
               /\ written' = Append(written, outgoing)
               /\ outgoing' = None
               /\ StopWriting
               /\ UNCHANGED <<logon, readerVars, posts, sharedVars, clientVars>>

WriteSucceeds == /\ writer = "write"
                 /\ written' = Append(written, outgoing)
                 /\ outgoing' = None
                 /\ writer' = "check"
                 /\ UNCHANGED <<logon, readerVars, posts, writingPackets, sharedVars, clientVars>>

(* Mutation: the writer keeps the packet.                                  *)
MutWriteFails(new) == /\ writer = "write"
                      /\ Unlocked
                      /\ SetStatus(new)
                      /\ writer' = "check"
                      /\ UNCHANGED <<logon, readerVars, posts, writingPackets, outgoing, written,
                                     readPackets, writePackets, clientVars>>

(* The packet is lost; setStatus() may override the reader's GotEOF.       *)
WriteFails(new) == /\ writer = "write"
                   /\ Unlocked
                   /\ outgoing' = None
                   /\ SetStatus(new)
                   /\ writer' = "check"
                   /\ UNCHANGED <<logon, readerVars, posts, writingPackets, written, readPackets,
                                  writePackets, clientVars>>

-----------------------------------------------------------------------------
(* The modules.                                                            *)

(* A module sends once it has seen the connection; Client::quit.           *)
Send == /\ whiteboard = "Connected"
        /\ sends < MaxSends
        /\ sends' = sends + 1
        /\ sendQueue' = Append(sendQueue, sends + 1)
        /\ UNCHANGED <<logon, readerVars, writerVars, sharedVars, conn, whiteboard, endpoint,
                       boardVars, cancelled>>

Quit == /\ ~cancelled
        /\ cancelled' = TRUE
        /\ UNCHANGED <<logon, readerVars, writerVars, sharedVars, moduleVars, boardVars>>

(* Mutation: nobody waits for the logon response to be processed.          *)
MutPostOnly(m, next) == /\ posted' = Append(posted, m)
                        /\ next # "barrier"
                        /\ loginQueue' = IF m = logon THEN Append(loginQueue, m) ELSE loginQueue

(* HandlerBase::handle: the message goes to the messageboard.  For a logon *)
(* response the fiber that posts it waits until its recipient has dropped  *)
(* it; "barrier" and "next" are where the fiber goes.                      *)
Post(m, next) == /\ posted' = Append(posted, m)
                 /\ IF m = logon
                    THEN loginQueue' = Append(loginQueue, m) /\ next = "barrier"
                    ELSE UNCHANGED loginQueue /\ next # "barrier"

Step(next) == conn' = next

(* wait() throws; run() catches, tells the whiteboard and lets go of the   *)
(* connection.                                                             *)
EndConnection == /\ Step("ended")
                 /\ whiteboard' = "Disconnected"
                 /\ endpoint' = FALSE

ConnCancelled == /\ conn = "wait"
                 /\ cancelled
                 /\ EndConnection
                 /\ UNCHANGED <<logon, readerVars, writerVars, sharedVars, sends, sendQueue, boardVars,
                                cancelled>>

ConnWakes == /\ conn = "wait"
             /\ ~cancelled
             /\ sendQueue # <<>> \/ (Unlocked /\ (statusChanged \/ readPackets # <<>>))
             /\ Step("write")
             /\ UNCHANGED <<logon, readerVars, writerVars, sharedVars, sends, sendQueue, whiteboard,
                            endpoint, boardVars, cancelled>>

(* ConnectionModule::writePackets with Connection::writePacket.            *)
ConnWrites == /\ conn = "write"
              /\ IF sendQueue = <<>>
                 THEN Step("read") /\ UNCHANGED <<writePackets, sendQueue, posts>>
                 ELSE /\ Unlocked
                      /\ writePackets' = Append(writePackets, Head(sendQueue))
                      /\ sendQueue' = Tail(sendQueue)
                      /\ posts' = posts + 1
                      /\ UNCHANGED conn
              /\ UNCHANGED <<logon, readerVars, writingPackets, writer, outgoing, written, status,
                             statusChanged, readPackets, sends, whiteboard, endpoint, boardVars,
                             cancelled>>

(* Mutation: the fiber does not wait for the contents of a CMsgMulti.      *)
MutHandlePacket(p) == IF Len(p) # 1
                      THEN /\ multiQueue' = Append(multiQueue, p)
                           /\ Step("read")
                           /\ UNCHANGED <<posted, loginQueue>>
                      ELSE /\ UNCHANGED multiQueue
                           /\ \E next \in {"barrier", "read"} : Post(Head(p), next) /\ Step(next)

(* handlePacket(): a CMsgMulti is left to MultiPacket and waited for.      *)
HandlePacket(p) == IF Len(p) # 1
                   THEN /\ multiQueue' = Append(multiQueue, p)
                        /\ Step("barrier")
                        /\ UNCHANGED <<posted, loginQueue>>
                   ELSE /\ UNCHANGED multiQueue
                        /\ \E next \in {"barrier", "read"} : Post(Head(p), next) /\ Step(next)

(* ConnectionModule::readPackets: one packet of its loop, or its end.      *)
ConnReads == /\ conn = "read"
             /\ Unlocked
             /\ IF readPackets = <<>>
                THEN Step("status") /\ UNCHANGED <<readPackets, multiQueue, posted, loginQueue>>
                ELSE /\ readPackets' = Tail(readPackets)
                     /\ HandlePacket(Head(readPackets))
             /\ UNCHANGED <<logon, readerVars, writerVars, status, statusChanged, writePackets, sends,
                            sendQueue, whiteboard, endpoint, multi, unpacked, login, processed,
                            cancelled>>

(* getStatus() and what body() makes of it; the fiber may be suspended     *)
(* between setting ConnectionStatus and LocalEndpoint.                     *)
ConnLooks == /\ conn = "status"
             /\ Unlocked
             /\ statusChanged' = FALSE
             /\ IF Closed
                THEN EndConnection
                ELSE /\ Step(IF status # whiteboard /\ status = "Connected" THEN "endpoint" ELSE "wait")
                     /\ whiteboard' = status
                     /\ UNCHANGED endpoint
             /\ UNCHANGED <<logon, readerVars, writerVars, status, readPackets, writePackets, sends,
                            sendQueue, boardVars, cancelled>>

StoreEndpoint == /\ conn = "endpoint"
                 /\ Unlocked
                 /\ endpoint' = TRUE
                 /\ Step("wait")
                 /\ UNCHANGED <<logon, readerVars, writerVars, sharedVars, sends, sendQueue, whiteboard,
                                boardVars, cancelled>>

MultiCancelled == /\ multi = "wait"
                  /\ cancelled
                  /\ multi' = "ended"
                  /\ UNCHANGED <<logon, readerVars, writerVars, sharedVars, moduleVars, multiQueue,
                                 unpacked, login, loginQueue, processed, posted, cancelled>>

MultiWakes == /\ multi = "wait"
              /\ ~cancelled
              /\ multiQueue # <<>>
              /\ multi' = "handle"
              /\ unpacked' = Head(multiQueue)
              /\ multiQueue' = Tail(multiQueue)
              /\ UNCHANGED <<logon, readerVars, writerVars, sharedVars, moduleVars, login, loginQueue,
                             processed, posted, cancelled>>

(* MultiPacketModule::handle: its loop over the messages, and its end, at  *)
(* which the CMsgMulti is destructed and the connection's fiber goes on.   *)
MultiHandles ==
  /\ multi = "handle"
  /\ IF unpacked # <<>>
     THEN /\ unpacked' = Tail(unpacked)
          /\ \E next \in {"barrier", "handle"} : Post(Head(unpacked), next) /\ multi' = next
          /\ UNCHANGED conn
     ELSE /\ multi' = "wait"
          /\ conn' = IF conn = "barrier" THEN "read" ELSE conn
          /\ UNCHANGED <<unpacked, posted, loginQueue>>
  /\ UNCHANGED <<logon, readerVars, writerVars, sharedVars, sends, sendQueue, whiteboard, endpoint,
                 multiQueue, login, processed, cancelled>>

LoginCancelled == /\ login = "wait"
                  /\ cancelled
                  /\ login' = "ended"
                  /\ UNCHANGED <<logon, readerVars, writerVars, sharedVars, moduleVars, multi,
                                 multiQueue, unpacked, loginQueue, processed, posted, cancelled>>

(* LoginModule::handle; a logon that is refused quits the client.  Then    *)
(* the response is destructed and the fiber that posted it goes on.        *)
LoginHandles(refused) ==
  /\ login = "wait"
  /\ ~cancelled
  /\ loginQueue # <<>>
  /\ loginQueue' = Tail(loginQueue)
  /\ processed' = processed \cup {Head(loginQueue)}
  /\ cancelled' = refused
  /\ IF multi = "barrier"
     THEN multi' = "handle" /\ UNCHANGED conn
     ELSE conn' = (IF conn = "barrier" THEN "read" ELSE conn) /\ UNCHANGED multi
  /\ UNCHANGED <<logon, readerVars, writerVars, sharedVars, sends, sendQueue, whiteboard, endpoint,
                 multiQueue, unpacked, login, posted>>

-----------------------------------------------------------------------------
Reader == TryNext \/ Connected \/ CheckStatus \/ PushPacket \/ GotEOF

Writer == StartWriting \/ CheckWriting \/ TakePacket

ConnFiber == ConnCancelled \/ ConnWakes \/ ConnWrites \/ ConnReads \/ ConnLooks \/ StoreEndpoint

MultiFiber == MultiCancelled \/ MultiWakes \/ MultiHandles

LoginFiber == LoginCancelled \/ \E refused \in BOOLEAN : LoginHandles(refused)

Network == \/ ConnectFails
           \/ ConnectSucceeds
           \/ Arrive
           \/ \E eof \in BOOLEAN : ReadFails(eof)
           \/ WriteSucceeds
           \/ \E new \in {"GotEOF", "Error"} : WriteFails(new)

Next == Reader \/ Writer \/ ConnFiber \/ MultiFiber \/ LoginFiber \/ Network \/ Send \/ Quit

Spec == Init /\ [][Next]_vars

(* The schedulers run every fiber that can run, and connect() returns one  *)
(* way or the other.  Nothing is assumed of reads, writes and the modules. *)
Fairness == /\ WF_vars(Reader)
            /\ WF_vars(StartWriting)
            /\ WF_vars(CheckWriting \/ TakePacket)
            /\ WF_vars(ConnFiber)
            /\ WF_vars(MultiFiber)
            /\ WF_vars(LoginFiber)
            /\ WF_vars(ConnectFails \/ ConnectSucceeds)

FairSpec == Spec /\ Fairness

-----------------------------------------------------------------------------
(* A fiber waits in the barrier for a message nobody will take any more.   *)
Stranded == \/ login = "ended" /\ loginQueue # <<>>
            \/ multi = "ended" /\ multiQueue # <<>>

(* The types.  The flag tells whether a writer exists, the writer holds a  *)
(* packet only while it writes it, and a LocalEndpoint is only on the      *)
(* whiteboard while the connection is.                                     *)
TypeOK ==
  /\ logon \in Contents \cup {None}
  /\ arriving \in Seq(ToSet(Wire))
  /\ status \in {"Connecting", "Connected", "GotEOF", "Error"}
  /\ statusChanged \in BOOLEAN
  /\ readPackets \in Seq(ToSet(Wire))
  /\ writePackets \in Seq(1..MaxSends)
  /\ reader \in {"fetch", "connect", "connected", "check", "read", "push", "eof", "ended"}
  /\ tries \in 0..Attempts
  /\ posts \in 0..MaxSends
  /\ writer \in {"idle", "check", "take", "write"}
  /\ writingPackets = (writer # "idle")
  /\ outgoing \in 1..MaxSends <=> writer = "write"
  /\ conn \in {"wait", "write", "read", "barrier", "status", "endpoint", "ended"}
  /\ sends \in 0..MaxSends
  /\ sendQueue \in Seq(1..MaxSends)
  /\ multi \in {"wait", "handle", "barrier", "ended"}
  /\ login \in {"wait", "ended"}
  /\ processed \subseteq {logon}
  /\ cancelled \in BOOLEAN
  /\ whiteboard \in {"Disconnected", "Connecting", "Connected"}
  /\ endpoint => whiteboard = "Connected"

(* Connection.cpp:283, "the messages are not interlaved with later         *)
(* messages from the network connection": with a CMsgMulti unpacked by     *)
(* another fiber, the messages still reach the messageboard in the order   *)
(* in which Steam sent them.                                               *)
InWireOrder == IsPrefix(posted, Messages)

(* Connection.cpp:286: nothing that came after a logon response is posted, *)
(* and no status is looked at, before the login module is done with it.    *)
LogonHoldsBack ==
  \A k \in 1..Len(posted) :
    posted[k] = logon /\ logon \notin processed =>
      k = Len(posted) /\ conn = "barrier" /\ multiQueue = <<>>

(* writePacket() and the writer, which ends when it finds nothing to       *)
(* write, run on two threads; still no packet is left in the queue of a    *)
(* working connection with nobody to write it.                             *)
NoPacketStranded == writePackets # <<>> /\ status = "Connected" => writingPackets \/ posts > 0

(* The end of the connection, found by the reader or the writer, and a     *)
(* quit both end the module's fiber, unless it is stranded in a barrier.   *)
EndIsReached == Closed \/ cancelled ~> conn = "ended" \/ Stranded

-----------------------------------------------------------------------------
(* What the comments say.                                                  *)

(* Connection.cpp:286, "the message is fully processed before a potential  *)
(* connection close is detected": the fiber does not end for a closed      *)
(* connection with the logon response still in readPackets.                *)
LogonBeforeClose ==
  conn = "ended" /\ ~cancelled => \A k \in 1..Len(readPackets) : readPackets[k] # <<logon>>

(* Cancel.hpp:39, "all cancels() will, eventually, lead to the owning      *)
(* fiber to exit".                                                         *)
CancelEndsConnection == cancelled ~> conn = "ended"
=============================================================================
