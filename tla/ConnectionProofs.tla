-------------------------- MODULE ConnectionProofs --------------------------
(***************************************************************************)
(* Proofs about SteamConnection, for any packets and any number of         *)
(* messages and attempts; about HttpQueue, for any queries, URLs and       *)
(* schedule; and about Login, for any set of accounts and a UI of either   *)
(* kind.                                                                   *)
(***************************************************************************)
EXTENDS SteamConnection, HttpQueue, Login, TLAPS, WellFoundedInduction

-----------------------------------------------------------------------------
(* SteamConnection                                                         *)

(* The reader holds a packet when it pushes one, has an attempt left when  *)
(* it makes one, and nobody else changes the status before it does.        *)
ReaderInv ==
  /\ arriving \in Seq(ToSet(Wire))
  /\ status \in {"Connecting", "Connected", "GotEOF", "Error"}
  /\ statusChanged \in BOOLEAN
  /\ readPackets \in Seq(ToSet(Wire))
  /\ reader \in {"fetch", "connect", "connected", "check", "read", "push", "eof", "ended"}
  /\ tries \in 0..Attempts
  /\ reader = "connect" => tries # 0
  /\ reader = "push" => packet \in ToSet(Wire)
  /\ reader \in {"fetch", "connect", "connected"} => status = "Connecting"

(* Every message sent is counted once: queued by the module or posted.     *)
WriterInv ==
  /\ writePackets \in Seq(1..MaxSends)
  /\ sendQueue \in Seq(1..MaxSends)
  /\ posts \in Nat
  /\ sends \in 0..MaxSends
  /\ Len(sendQueue) + posts <= sends
  /\ writer \in {"idle", "check", "take", "write"}
  /\ writingPackets = (writer # "idle")
  /\ outgoing \in 1..MaxSends <=> writer = "write"
  /\ sends = 0 => writePackets = <<>> /\ writer = "idle"

(* The whiteboard says Connected, and messages are sent, only when the     *)
(* connection has been.                                                    *)
ModuleInv ==
  /\ conn \in {"wait", "write", "read", "barrier", "status", "endpoint", "ended"}
  /\ login \in {"wait", "ended"}
  /\ cancelled \in BOOLEAN
  /\ whiteboard \in {"Disconnected", "Connecting", "Connected"}
  /\ whiteboard = "Connected" => status # "Connecting"
  /\ sends # 0 => status # "Connecting"
  /\ conn = "endpoint" => whiteboard = "Connected"
  /\ endpoint => whiteboard = "Connected"

(* At most one CMsgMulti and one logon response are under way, and whoever *)
(* waits for one waits in the barrier.                                     *)
BarrierInv ==
  /\ logon \in Contents \cup {None}
  /\ multi \in {"wait", "handle", "barrier", "ended"}
  /\ multiQueue \in Seq(ToSet(Wire))
  /\ unpacked \in Seq(Contents)
  /\ loginQueue \in Seq({logon})
  /\ processed \subseteq {logon}
  /\ posted \in Seq(Contents)
  /\ multiQueue # <<>> => conn = "barrier" /\ multi \in {"wait", "ended"} /\ Len(multiQueue) = 1
  /\ multi \in {"handle", "barrier"} => conn = "barrier"
  /\ loginQueue # <<>> => /\ conn = "barrier"
                          /\ multi # "handle"
                          /\ multiQueue = <<>>
                          /\ Len(loginQueue) = 1
  /\ \A k \in 1..Len(posted) : posted[k] = logon /\ logon \notin processed => loginQueue # <<>>

Inv == ReaderInv /\ WriterInv /\ ModuleInv /\ BarrierInv /\ LogonHoldsBack

-----------------------------------------------------------------------------
(* The steps of Next by name.                                              *)
LEMMA StepCases ==
  ASSUME [Next]_vars
  PROVE  \/ TryNext \/ Connected \/ CheckStatus \/ PushPacket \/ GotEOF
         \/ StartWriting \/ CheckWriting \/ TakePacket
         \/ ConnCancelled \/ ConnWakes \/ ConnWrites \/ ConnReads \/ ConnLooks \/ StoreEndpoint
         \/ MultiCancelled \/ MultiWakes \/ MultiHandles
         \/ LoginCancelled \/ (\E refused \in BOOLEAN : LoginHandles(refused))
         \/ ConnectFails \/ ConnectSucceeds \/ Arrive \/ (\E eof \in BOOLEAN : ReadFails(eof))
         \/ WriteSucceeds \/ (\E new \in {"GotEOF", "Error"} : WriteFails(new))
         \/ Send \/ Quit
         \/ UNCHANGED vars
BY DEF Next, Reader, Writer, ConnFiber, MultiFiber, LoginFiber, Network

(* What taking the head of a non-empty sequence leaves.                    *)
LEMMA TakeHead ==
  ASSUME NEW S, NEW q \in Seq(S), q # <<>>
  PROVE  /\ Len(q) \in Nat \ {0}
         /\ Head(q) \in S
         /\ Tail(q) \in Seq(S)
         /\ Len(Tail(q)) = Len(q) - 1
OBVIOUS

(* What appending to a sequence gives.                                     *)
LEMMA Appended ==
  ASSUME NEW S, NEW q \in Seq(S), NEW e \in S
  PROVE  /\ Append(q, e) \in Seq(S)
         /\ Append(q, e) # <<>>
         /\ Len(Append(q, e)) = Len(q) + 1
         /\ Append(q, e)[Len(q) + 1] = e
         /\ \A k \in 1..Len(q) : Append(q, e)[k] = q[k]
OBVIOUS

(* A packet is a sequence of messages.                                     *)
LEMMA PacketType ==
  ASSUME NEW p \in ToSet(Wire)
  PROVE  p \in Seq(Contents)
BY ConnectionAssumption DEF ToSet

(* The initial states satisfy the invariant.                               *)
LEMMA InitInv == Init => Inv
<1> SUFFICES ASSUME Init PROVE Inv
  OBVIOUS
<1>1. ReaderInv
  <2>1. Wire \in Seq(ToSet(Wire))
    BY ConnectionAssumption DEF ToSet
  <2>2. readPackets \in Seq(ToSet(Wire))
    BY DEF Init
  <2> QED
    BY <2>1, <2>2, ConnectionAssumption DEF Init, ReaderInv
<1>2. WriterInv
  <2>1. writePackets \in Seq(1..MaxSends) /\ sendQueue \in Seq(1..MaxSends) /\ Len(sendQueue) = 0
    BY DEF Init
  <2>2. outgoing \notin 1..MaxSends /\ MaxSends \in Nat
    BY ConnectionAssumption DEF Init
  <2> QED
    <3>1. sends = 0 /\ 0 \in 0..MaxSends /\ posts = 0 /\ writePackets = <<>> /\ writer = "idle"
      BY <2>2 DEF Init
    <3>2. writingPackets = (writer # "idle")
      BY DEF Init
    <3> QED
      BY <2>1, <2>2, <3>1, <3>2 DEF WriterInv
<1>3. ModuleInv
  BY DEF Init, ModuleInv
<1>4. BarrierInv /\ LogonHoldsBack
  <2>1. multiQueue \in Seq(ToSet(Wire)) /\ unpacked \in Seq(Contents) /\ loginQueue \in Seq({logon})
        /\ posted \in Seq(Contents) /\ Len(posted) = 0
    BY DEF Init
  <2> QED
    BY <2>1 DEF Init, BarrierInv, LogonHoldsBack
<1> QED
  BY <1>1, <1>2, <1>3, <1>4 DEF Inv

-----------------------------------------------------------------------------
(* The reader keeps its part of the invariant, and nobody else disturbs    *)
(* it.                                                                     *)
LEMMA NextReader == Inv /\ [Next]_vars => ReaderInv'
<1> SUFFICES ASSUME Inv, [Next]_vars PROVE ReaderInv'
  OBVIOUS
<1> USE DEF ReaderInv, Inv
<1>1. CASE TryNext
  BY <1>1 DEF TryNext, Goto, sharedVars
<1>2. CASE Connected
  BY <1>2 DEF Connected, Goto, SetStatus
<1>3. CASE CheckStatus
  BY <1>3 DEF CheckStatus, Goto, sharedVars
<1>4. CASE PushPacket
  BY <1>4, Appended DEF PushPacket, Goto
<1>5. CASE GotEOF
  BY <1>5 DEF GotEOF, Goto, SetStatus
<1>6. CASE StartWriting \/ CheckWriting \/ WriteSucceeds
  BY <1>6 DEF StartWriting, CheckWriting, WriteSucceeds, readerVars, sharedVars
<1>7. CASE TakePacket \/ (\E new \in {"GotEOF", "Error"} : WriteFails(new))
  <2>1. writer # "idle" => status # "Connecting"
    BY DEF WriterInv, ModuleInv
  <2> QED
    BY <1>7, <2>1 DEF TakePacket, WriteFails, SetStatus, readerVars
<1>8. CASE ConnCancelled \/ ConnWakes \/ StoreEndpoint \/ MultiCancelled \/ MultiWakes
           \/ MultiHandles \/ LoginCancelled \/ Send \/ Quit
  BY <1>8 DEF ConnCancelled, ConnWakes, StoreEndpoint, MultiCancelled, MultiWakes,
              MultiHandles, LoginCancelled, Send, Quit, readerVars, sharedVars
<1>9. CASE \E refused \in BOOLEAN : LoginHandles(refused)
  BY <1>9 DEF LoginHandles, readerVars, sharedVars
<1>10. CASE ConnWrites \/ ConnLooks
  BY <1>10 DEF ConnWrites, ConnLooks, readerVars
<1>11. CASE ConnReads
  BY <1>11, TakeHead DEF ConnReads, readerVars
<1>12. CASE ConnectFails
  BY <1>12, ConnectionAssumption DEF ConnectFails, Goto, sharedVars
<1>13. CASE ConnectSucceeds \/ (\E eof \in BOOLEAN : ReadFails(eof))
  BY <1>13 DEF ConnectSucceeds, ReadFails, Goto, sharedVars
<1>14. CASE Arrive
  BY <1>14, TakeHead DEF Arrive, Goto, sharedVars
<1>15. CASE UNCHANGED vars
  BY <1>15 DEF vars, readerVars, sharedVars
<1> QED
  BY StepCases, <1>1, <1>2, <1>3, <1>4, <1>5, <1>6, <1>7, <1>8, <1>9, <1>10, <1>11, <1>12,
     <1>13, <1>14, <1>15

(* So do the writer and those who send,                                    *)
LEMMA NextWriter == Inv /\ [Next]_vars => WriterInv'
<1> SUFFICES ASSUME Inv, [Next]_vars PROVE WriterInv'
  OBVIOUS
<1> USE DEF WriterInv, Inv
<1>1. CASE TryNext \/ Connected \/ CheckStatus \/ PushPacket \/ GotEOF \/ ConnectFails
           \/ ConnectSucceeds \/ Arrive \/ (\E eof \in BOOLEAN : ReadFails(eof))
  BY <1>1 DEF TryNext, Connected, CheckStatus, PushPacket, GotEOF, ConnectFails, ConnectSucceeds,
              Arrive, ReadFails, writerVars, sharedVars, clientVars, moduleVars
<1>2. CASE StartWriting
  <2>1. /\ posts' \in Nat /\ posts' <= posts
        /\ UNCHANGED <<writePackets, sendQueue, sends, outgoing>>
    BY <1>2 DEF StartWriting, sharedVars, clientVars, moduleVars
  <2>2. Len(sendQueue) \in Nat
    OBVIOUS
  <2>3. CASE ~writingPackets /\ writePackets # <<>>
    <3>1. writingPackets' = TRUE /\ writer' = "check" /\ writer = "idle"
      BY <1>2, <2>3 DEF StartWriting
    <3> QED
      <4>1. writingPackets' = (writer' # "idle")
        BY <3>1
      <4>2. sends # 0
        BY <2>3
      <4>3. Len(sendQueue') + posts' <= sends'
        BY <2>1, <2>2
      <4> QED
        BY <2>1, <3>1, <4>1, <4>2, <4>3
  <2>4. CASE ~(~writingPackets /\ writePackets # <<>>)
    <3>1. UNCHANGED <<writingPackets, writer>>
      BY <1>2, <2>4 DEF StartWriting
    <3> QED
      BY <2>1, <2>2, <3>1
  <2> QED
    BY <2>3, <2>4
<1>3. CASE CheckWriting
  BY <1>3 DEF CheckWriting, StopWriting, sharedVars, clientVars, moduleVars
<1>4. CASE TakePacket
  BY <1>4, TakeHead DEF TakePacket, StopWriting, clientVars, moduleVars
<1>5. CASE WriteSucceeds
  BY <1>5, ConnectionAssumption DEF WriteSucceeds, sharedVars, clientVars, moduleVars
<1>6. CASE \E new \in {"GotEOF", "Error"} : WriteFails(new)
  BY <1>6, ConnectionAssumption DEF WriteFails, clientVars, moduleVars
<1>7. CASE ConnCancelled \/ ConnWakes \/ ConnReads \/ ConnLooks \/ StoreEndpoint \/ MultiCancelled
           \/ MultiWakes \/ MultiHandles \/ LoginCancelled \/ Quit
  BY <1>7 DEF ConnCancelled, ConnWakes, ConnReads, ConnLooks, StoreEndpoint, MultiCancelled,
              MultiWakes, MultiHandles, LoginCancelled, Quit, writerVars, sharedVars, moduleVars
<1>8. CASE \E refused \in BOOLEAN : LoginHandles(refused)
  BY <1>8 DEF LoginHandles, writerVars, sharedVars
<1>9. CASE ConnWrites
  <2>1. CASE sendQueue = <<>>
    BY <1>9, <2>1 DEF ConnWrites
  <2>2. CASE sendQueue # <<>>
    <3>1. /\ Head(sendQueue) \in 1..MaxSends
          /\ sendQueue' \in Seq(1..MaxSends)
          /\ Len(sendQueue') = Len(sendQueue) - 1
          /\ Len(sendQueue) \in Nat
      BY <1>9, <2>2, TakeHead DEF ConnWrites
    <3>2. writePackets' = Append(writePackets, Head(sendQueue))
      BY <1>9, <2>2 DEF ConnWrites
    <3>3. writePackets' \in Seq(1..MaxSends)
      BY <3>1, <3>2
    <3>4. posts' = posts + 1 /\ UNCHANGED <<sends, writer, writingPackets, outgoing>>
      BY <1>9, <2>2 DEF ConnWrites
    <3> QED
      BY <3>1, <3>3, <3>4
  <2> QED
    BY <2>1, <2>2
<1>10. CASE Send
  <2>1. sends + 1 \in 1..MaxSends
    BY <1>10, ConnectionAssumption DEF Send
  <2>2. /\ sendQueue' \in Seq(1..MaxSends)
        /\ Len(sendQueue') = Len(sendQueue) + 1
    BY <1>10, <2>1, Appended DEF Send
  <2>3. Len(sendQueue) \in Nat
    OBVIOUS
  <2> QED
    BY <1>10, <2>1, <2>2, <2>3, ConnectionAssumption DEF Send, writerVars, sharedVars
<1>11. CASE UNCHANGED vars
  BY <1>11 DEF vars, writerVars, sharedVars, clientVars, moduleVars
<1> QED
  BY StepCases, <1>1, <1>2, <1>3, <1>4, <1>5, <1>6, <1>7, <1>8, <1>9, <1>10, <1>11

(* and the connection module's fiber.                                      *)
LEMMA NextModule == Inv /\ [Next]_vars => ModuleInv'
<1> SUFFICES ASSUME Inv, [Next]_vars PROVE ModuleInv'
  OBVIOUS
<1> USE DEF ModuleInv, Inv
<1>1. CASE TryNext \/ CheckStatus \/ PushPacket \/ ConnectFails \/ ConnectSucceeds \/ Arrive
           \/ (\E eof \in BOOLEAN : ReadFails(eof))
           \/ StartWriting \/ CheckWriting \/ TakePacket \/ WriteSucceeds
  BY <1>1 DEF TryNext, CheckStatus, PushPacket, ConnectFails, ConnectSucceeds, Arrive, ReadFails,
              StartWriting, CheckWriting, TakePacket, WriteSucceeds, sharedVars, clientVars,
              moduleVars, boardVars
<1>2. CASE Connected \/ GotEOF \/ (\E new \in {"GotEOF", "Error"} : WriteFails(new))
  BY <1>2 DEF Connected, GotEOF, WriteFails, SetStatus, clientVars, moduleVars, boardVars
<1>3. CASE ConnCancelled
  BY <1>3 DEF ConnCancelled, EndConnection, Step, sharedVars, boardVars
<1>4. CASE ConnWakes \/ ConnWrites \/ StoreEndpoint
  BY <1>4 DEF ConnWakes, ConnWrites, StoreEndpoint, Step, sharedVars, boardVars
<1>5. CASE ConnReads
  BY <1>5 DEF ConnReads, HandlePacket, Step
<1>6. CASE ConnLooks
  BY <1>6 DEF ConnLooks, Closed, EndConnection, Step, boardVars, ReaderInv
<1>7. CASE MultiCancelled \/ MultiWakes \/ LoginCancelled
  BY <1>7 DEF MultiCancelled, MultiWakes, LoginCancelled, sharedVars, moduleVars
<1>12. CASE Quit
  BY <1>12 DEF Quit, sharedVars, moduleVars, boardVars
<1>11. CASE Send
  BY <1>11 DEF Send, sharedVars, boardVars
<1>8. CASE MultiHandles
  BY <1>8 DEF MultiHandles, sharedVars
<1>9. CASE \E refused \in BOOLEAN : LoginHandles(refused)
  BY <1>9 DEF LoginHandles, sharedVars
<1>10. CASE UNCHANGED vars
  BY <1>10 DEF vars, sharedVars, clientVars, moduleVars, boardVars
<1> QED
  BY StepCases, <1>1, <1>2, <1>3, <1>4, <1>5, <1>6, <1>7, <1>8, <1>9, <1>10, <1>11,
     <1>12

-----------------------------------------------------------------------------
(* The steps that leave what BarrierInv is about alone.                    *)
LEMMA QuietSteps ==
  ASSUME Inv,
         \/ TryNext \/ Connected \/ CheckStatus \/ PushPacket \/ GotEOF \/ ConnectFails
         \/ ConnectSucceeds \/ Arrive \/ (\E eof \in BOOLEAN : ReadFails(eof))
         \/ StartWriting \/ CheckWriting \/ TakePacket \/ WriteSucceeds
         \/ (\E new \in {"GotEOF", "Error"} : WriteFails(new))
         \/ Send \/ Quit \/ UNCHANGED vars
  PROVE  BarrierInv' /\ LogonHoldsBack'
<1>1. UNCHANGED <<logon, conn, boardVars>>
  BY DEF TryNext, Connected, CheckStatus, PushPacket, GotEOF, ConnectFails, ConnectSucceeds, Arrive,
         ReadFails, StartWriting, CheckWriting, TakePacket, WriteSucceeds, WriteFails, Send, Quit,
         vars, clientVars, moduleVars
<1> QED
  BY <1>1 DEF Inv, BarrierInv, LogonHoldsBack, boardVars

(* The steps of the connection's fiber outside the barrier.                *)
LEMMA ConnSteps ==
  ASSUME Inv, ConnCancelled \/ ConnWakes \/ ConnWrites \/ ConnLooks \/ StoreEndpoint
  PROVE  BarrierInv' /\ LogonHoldsBack'
<1>1. conn # "barrier" /\ UNCHANGED <<logon, boardVars>>
  BY DEF ConnCancelled, ConnWakes, ConnWrites, ConnLooks, StoreEndpoint
<1> QED
  BY <1>1 DEF Inv, BarrierInv, LogonHoldsBack, boardVars

(* The login and MultiPacket fibers end, or MultiPacket takes a CMsgMulti. *)
LEMMA FiberSteps ==
  ASSUME Inv, LoginCancelled \/ MultiCancelled \/ MultiWakes
  PROVE  BarrierInv' /\ LogonHoldsBack'
<1> USE DEF Inv, BarrierInv, LogonHoldsBack, moduleVars
<1>1. CASE LoginCancelled
  BY <1>1 DEF LoginCancelled
<1>2. CASE MultiCancelled
  BY <1>2 DEF MultiCancelled
<1>3. CASE MultiWakes
  <2>1. Head(multiQueue) \in Seq(Contents)
    BY <1>3, TakeHead, PacketType DEF MultiWakes
  <2>2. multiQueue' = <<>> /\ multiQueue' \in Seq(ToSet(Wire))
    BY <1>3 DEF MultiWakes
  <2> QED
    BY <1>3, <2>1, <2>2 DEF MultiWakes
<1> QED
  BY <1>1, <1>2, <1>3

(* Posting a message when no logon response is under way.                  *)
LEMMA Posting ==
  ASSUME Inv, loginQueue = <<>>, NEW m \in Contents, NEW next, Post(m, next),
         UNCHANGED <<logon, processed>>
  PROVE  /\ posted' \in Seq(Contents)
         /\ loginQueue' \in Seq({logon})
         /\ loginQueue' # <<>> => next = "barrier" /\ Len(loginQueue') = 1
         /\ \A k \in 1..Len(posted') :
              posted'[k] = logon /\ logon \notin processed =>
                k = Len(posted') /\ loginQueue' # <<>> /\ next = "barrier"
<1> USE DEF Inv, BarrierInv, Post
<1>1. /\ posted' \in Seq(Contents)
      /\ Len(posted') = Len(posted) + 1
      /\ posted'[Len(posted) + 1] = m
      /\ \A k \in 1..Len(posted) : posted'[k] = posted[k]
      /\ Len(posted) \in Nat
  BY Appended
<1>2. CASE m = logon
  <2>1. loginQueue' = <<logon>> /\ next = "barrier"
    BY <1>2
  <2> QED
    BY <1>1, <1>2, <2>1
<1>3. CASE m # logon
  <2>1. loginQueue' = <<>> /\ loginQueue' \in Seq({logon})
    BY <1>3
  <2> QED
    BY <1>1, <1>3, <2>1
<1> QED
  BY <1>2, <1>3

(* The module takes a packet: a CMsgMulti, a logon response or neither.    *)
LEMMA ConnReadsStep ==
  ASSUME Inv, ConnReads
  PROVE  BarrierInv' /\ LogonHoldsBack'
<1> USE DEF Inv, BarrierInv, LogonHoldsBack
<1>1. /\ conn = "read" /\ multiQueue = <<>> /\ loginQueue = <<>> /\ multi \in {"wait", "ended"}
      /\ UNCHANGED <<logon, multi, unpacked, login, processed>>
  BY DEF ConnReads
<1>2. CASE readPackets = <<>>
  BY <1>1, <1>2 DEF ConnReads, Step
<1>3. CASE readPackets # <<>>
  <2> DEFINE p == Head(readPackets)
  <2>1. p \in ToSet(Wire) /\ p \in Seq(Contents) /\ HandlePacket(p)
    BY <1>3, TakeHead, PacketType DEF ConnReads, ReaderInv
  <2>2. CASE Len(p) # 1
    <3>1. conn' = "barrier" /\ multiQueue' = <<p>> /\ UNCHANGED <<posted, loginQueue>>
      BY <1>1, <2>1, <2>2 DEF HandlePacket, Step
    <3>2. multiQueue' \in Seq(ToSet(Wire)) /\ Len(multiQueue') = 1
      BY <2>1, <3>1
    <3> HIDE DEF p
    <3> QED
      BY <1>1, <3>1, <3>2
  <2>3. CASE Len(p) = 1
    <3>1. Head(p) \in Contents
      BY <2>1, <2>3, TakeHead
    <3>2. PICK next \in {"barrier", "read"} : Post(Head(p), next) /\ conn' = next
      BY <2>1, <2>3 DEF HandlePacket, Step
    <3>3. UNCHANGED multiQueue
      BY <2>1, <2>3 DEF HandlePacket
    <3>4. /\ posted' \in Seq(Contents)
          /\ loginQueue' \in Seq({logon})
          /\ loginQueue' # <<>> => next = "barrier" /\ Len(loginQueue') = 1
          /\ \A k \in 1..Len(posted') :
               posted'[k] = logon /\ logon \notin processed =>
                 k = Len(posted') /\ loginQueue' # <<>> /\ next = "barrier"
      BY <1>1, <3>1, <3>2, Posting
    <3> HIDE DEF p
    <3> QED
      BY <1>1, <3>2, <3>3, <3>4
  <2> QED
    BY <2>2, <2>3
<1> QED
  BY <1>2, <1>3

(* MultiPacket posts a message of a CMsgMulti, or is done with it.         *)
LEMMA MultiHandlesStep ==
  ASSUME Inv, MultiHandles
  PROVE  BarrierInv' /\ LogonHoldsBack'
<1> USE DEF Inv, BarrierInv, LogonHoldsBack
<1>1. /\ multi = "handle" /\ conn = "barrier" /\ multiQueue = <<>> /\ loginQueue = <<>>
      /\ UNCHANGED <<logon, multiQueue, login, processed>>
  BY DEF MultiHandles
<1>2. CASE unpacked = <<>>
  BY <1>1, <1>2 DEF MultiHandles
<1>3. CASE unpacked # <<>>
  <2>1. Head(unpacked) \in Contents /\ unpacked' \in Seq(Contents)
    <3>1. unpacked' = Tail(unpacked)
      BY <1>3 DEF MultiHandles
    <3> QED
      BY <1>3, <3>1, TakeHead
  <2>2. PICK next \in {"barrier", "handle"} : Post(Head(unpacked), next) /\ multi' = next
    BY <1>3 DEF MultiHandles
  <2>3. /\ posted' \in Seq(Contents)
        /\ loginQueue' \in Seq({logon})
        /\ loginQueue' # <<>> => next = "barrier" /\ Len(loginQueue') = 1
        /\ \A k \in 1..Len(posted') :
             posted'[k] = logon /\ logon \notin processed =>
               k = Len(posted') /\ loginQueue' # <<>> /\ next = "barrier"
    BY <1>1, <2>1, <2>2, Posting
  <2>4. UNCHANGED conn
    BY <1>3 DEF MultiHandles
  <2> QED
    BY <1>1, <2>1, <2>2, <2>3, <2>4
<1> QED
  BY <1>2, <1>3

(* The login module is done with the logon response, and whoever posted it *)
(* goes on.                                                                *)
LEMMA LoginHandlesStep ==
  ASSUME Inv, NEW refused \in BOOLEAN, LoginHandles(refused)
  PROVE  BarrierInv' /\ LogonHoldsBack'
<1> USE DEF Inv, BarrierInv, LogonHoldsBack
<1>1. /\ loginQueue # <<>> /\ conn = "barrier" /\ multi # "handle" /\ multiQueue = <<>>
      /\ UNCHANGED <<logon, multiQueue, unpacked, login, posted>>
  BY DEF LoginHandles
<1>2. Head(loginQueue) = logon /\ loginQueue' = <<>> /\ loginQueue' \in Seq({logon})
  BY <1>1, TakeHead DEF LoginHandles
<1>3. processed' = {logon}
  BY <1>2 DEF LoginHandles
<1>4. CASE multi = "barrier"
  BY <1>1, <1>2, <1>3, <1>4 DEF LoginHandles
<1>5. CASE multi # "barrier"
  BY <1>1, <1>2, <1>3, <1>5 DEF LoginHandles
<1> QED
  BY <1>4, <1>5

(* Hence every step keeps the barrier.                                     *)
LEMMA NextBarrier == Inv /\ [Next]_vars => BarrierInv' /\ LogonHoldsBack'
BY StepCases, QuietSteps, ConnSteps, FiberSteps, ConnReadsStep, MultiHandlesStep, LoginHandlesStep

(* The invariant is inductive.                                             *)
LEMMA NextInv == Inv /\ [Next]_vars => Inv'
BY NextReader, NextWriter, NextModule, NextBarrier DEF Inv

(* It holds in every state.                                                *)
LEMMA Invariance == Spec => []Inv
BY InitInv, NextInv, PTL DEF Spec

-----------------------------------------------------------------------------
(* The variables keep their types; a writer exists when the flag says so.  *)
THEOREM TypeCorrect == Spec => []TypeOK
<1>1. Inv => TypeOK
  <2>1. WriterInv => posts \in 0..MaxSends
    <3>1. sendQueue \in Seq(1..MaxSends) => Len(sendQueue) \in Nat
      OBVIOUS
    <3> QED
      BY <3>1, ConnectionAssumption DEF WriterInv
  <2> QED
    BY <2>1 DEF Inv, ReaderInv, WriterInv, ModuleInv, BarrierInv, TypeOK
<1> QED
  BY <1>1, Invariance, PTL

(* Whatever Steam sends, a logon response is processed before anything     *)
(* after it is posted or the connection's status is looked at.             *)
THEOREM LogonsHoldBack == Spec => []LogonHoldsBack
<1>1. Inv => LogonHoldsBack
  BY DEF Inv
<1> QED
  BY <1>1, Invariance, PTL

(* However many messages are sent, none is left in the queue of a working  *)
(* connection with nobody to write it.                                     *)
THEOREM PacketsAreWritten == Spec => []NoPacketStranded
<1> USE DEF NoPacketStranded
<1>1. Init => NoPacketStranded
  BY DEF Init
<1>2. Inv /\ NoPacketStranded /\ [Next]_vars => NoPacketStranded'
  <2> SUFFICES ASSUME Inv, NoPacketStranded, [Next]_vars PROVE NoPacketStranded'
    OBVIOUS
  <2>1. CASE TryNext \/ CheckStatus \/ PushPacket \/ ConnectFails \/ ConnectSucceeds \/ Arrive
             \/ (\E eof \in BOOLEAN : ReadFails(eof)) \/ UNCHANGED vars
    BY <2>1 DEF TryNext, CheckStatus, PushPacket, ConnectFails, ConnectSucceeds, Arrive, ReadFails,
                vars, writerVars, sharedVars
  <2>2. CASE Connected
    <3>1. status = "Connecting"
      BY <2>2 DEF Connected, Inv, ReaderInv
    <3>2. writePackets = <<>>
      BY <3>1 DEF Inv, ModuleInv, WriterInv
    <3> QED
      BY <2>2, <3>2 DEF Connected
  <2>3. CASE GotEOF \/ (\E new \in {"GotEOF", "Error"} : WriteFails(new))
    BY <2>3 DEF GotEOF, WriteFails, SetStatus
  <2>4. CASE StartWriting \/ CheckWriting \/ TakePacket \/ WriteSucceeds
    BY <2>4 DEF StartWriting, CheckWriting, StopWriting, TakePacket, WriteSucceeds, sharedVars, Inv,
                WriterInv
  <2>5. CASE ConnWrites
    BY <2>5 DEF ConnWrites, Inv, WriterInv
  <2>6. CASE ConnCancelled \/ ConnWakes \/ ConnReads \/ ConnLooks \/ StoreEndpoint \/ MultiCancelled
             \/ MultiWakes \/ MultiHandles \/ LoginCancelled \/ Send \/ Quit
    BY <2>6 DEF ConnCancelled, ConnWakes, ConnReads, ConnLooks, StoreEndpoint, MultiCancelled,
                MultiWakes, MultiHandles, LoginCancelled, Send, Quit, writerVars, sharedVars
  <2>7. CASE \E refused \in BOOLEAN : LoginHandles(refused)
    BY <2>7 DEF LoginHandles, writerVars, sharedVars
  <2> QED
    BY StepCases, <2>1, <2>2, <2>3, <2>4, <2>5, <2>6, <2>7
<1> QED
  BY <1>1, <1>2, Invariance, PTL DEF Spec

-----------------------------------------------------------------------------
(* That the order of the wire is kept needs an induction over Wire: the    *)
(* library's theorem on well-founded orders gives it for sets, from which  *)
(* follows what FlattenSeq, a recursive function, makes of Wire.           *)

(* Every nonempty set of numbers has a least one.                          *)
LEMMA LeastNumber ==
  ASSUME NEW T \in SUBSET Nat, T # {}
  PROVE  \E n \in T : \A m \in T : n <= m
<1> DEFINE R == OpToRel(<, Nat)
<1>1. IsWellFoundedOn(R, Nat)
  BY NatLessThanWellFounded
<1>2. \A m, n \in Nat : m < n => <<m, n>> \in R
  BY DEF OpToRel
<1> HIDE DEF R
<1>3. PICK n \in T : \A m \in T : ~ (<<m, n>> \in R)
  BY <1>1, WFMin, Zenon
<1>4. ASSUME NEW m \in T PROVE n <= m
  <2>1. ~(m < n)
    BY <1>2, <1>3
  <2> QED
    BY <2>1
<1> QED
  BY <1>4

(* Induction over the numbers, with a set in place of a formula.           *)
LEMMA SetInduction ==
  ASSUME NEW S, 0 \in S, \A n \in Nat : n \in S => n + 1 \in S
  PROVE  Nat \subseteq S
<1>1. SUFFICES ASSUME Nat \ S # {} PROVE FALSE
  OBVIOUS
<1>2. PICK n \in Nat \ S : \A m \in Nat \ S : n <= m
  BY <1>1, LeastNumber
<1>3. n # 0 /\ n - 1 \in Nat
  BY <1>2
<1>4. n - 1 \in S
  BY <1>2, <1>3
<1> QED
  BY <1>2, <1>3, <1>4

(* f[i] is the concatenation of the first i of n sequences.                *)
Flattens(f, seqs, n) ==
  f = [i \in 1..n |-> IF i = 1 THEN seqs[i] ELSE f[i - 1] \o seqs[i]]

(* There is such a function for any sequences: FlattenSeq means one.       *)
LEMMA Flattening ==
  ASSUME NEW S, NEW seqs \in Seq(Seq(S))
  PROVE  \E f \in [1..Len(seqs) -> Seq(S)] : Flattens(f, seqs, Len(seqs))
<1> DEFINE N == Len(seqs)
           T == {n \in Nat : n <= N => \E f \in [1..n -> Seq(S)] : Flattens(f, seqs, n)}
<1>1. N \in Nat /\ \A i \in 1..N : seqs[i] \in Seq(S)
  OBVIOUS
<1>2. 0 \in T
  <2> DEFINE f == [i \in 1..0 |-> <<>>]
  <2>1. f \in [1..0 -> Seq(S)] /\ 1..0 = {}
    OBVIOUS
  <2>2. Flattens(f, seqs, 0)
    BY <2>1 DEF Flattens
  <2> HIDE DEF f
  <2> QED
    BY <2>1, <2>2
<1>3. ASSUME NEW n \in Nat, n \in T PROVE n + 1 \in T
  <2> SUFFICES ASSUME n + 1 <= N PROVE \E f \in [1..(n + 1) -> Seq(S)] : Flattens(f, seqs, n + 1)
    OBVIOUS
  <2>1. PICK f \in [1..n -> Seq(S)] : Flattens(f, seqs, n)
    BY <1>1, <1>3
  <2> DEFINE last == IF n = 0 THEN seqs[1] ELSE f[n] \o seqs[n + 1]
             g == [i \in 1..(n + 1) |-> IF i = n + 1 THEN last ELSE f[i]]
  <2>2. last \in Seq(S)
    <3>1. seqs[n + 1] \in Seq(S)
      BY <1>1
    <3>2. \A s, t \in Seq(S) : s \o t \in Seq(S)
      OBVIOUS
    <3>3. n # 0 => f[n] \in Seq(S)
      OBVIOUS
    <3> QED
      BY <3>1, <3>2, <3>3
  <2>3. /\ \A i \in 1..n : f[i] = IF i = 1 THEN seqs[i] ELSE f[i - 1] \o seqs[i]
        /\ DOMAIN f = 1..n
    BY <2>1 DEF Flattens
  <2> HIDE DEF last
  <2>4. g \in [1..(n + 1) -> Seq(S)]
    BY <2>2
  <2>5. ASSUME NEW i \in 1..(n + 1)
        PROVE  g[i] = IF i = 1 THEN seqs[i] ELSE g[i - 1] \o seqs[i]
    <3>1. CASE i = n + 1
      <4>1. CASE n = 0
        BY <3>1, <4>1 DEF last
      <4>2. CASE n # 0
        <5>1. g[i - 1] = f[n] /\ g[i] = last /\ i # 1
          BY <3>1, <4>2
        <5> QED
          BY <3>1, <4>2, <5>1 DEF last
      <4> QED
        BY <4>1, <4>2
    <3>2. CASE i \in 1..n
      <4>1. g[i] = f[i] /\ (i # 1 => g[i - 1] = f[i - 1])
        BY <3>2
      <4> QED
        BY <2>3, <3>2, <4>1
    <3> QED
      BY <3>1, <3>2
  <2>6. Flattens(g, seqs, n + 1)
    <3>1. g = [i \in 1..(n + 1) |-> g[i]]
      OBVIOUS
    <3> HIDE DEF g
    <3> QED
      BY <2>5, <3>1 DEF Flattens
  <2> HIDE DEF g
  <2> QED
    BY <2>4, <2>6
<1> HIDE DEF T
<1>4. Nat \subseteq T
  BY <1>2, <1>3, SetInduction
<1> QED
  BY <1>1, <1>4 DEF T

(* What FlattenSeq makes of Wire, and the messages of its first n packets. *)
Flatten == CHOOSE f : Flattens(f, Wire, Len(Wire))

Sent(n) == IF n = 0 THEN <<>> ELSE Flatten[n]

(* They grow by the messages of one packet at a time, and all of them are  *)
(* Messages.                                                               *)
LEMMA SentSteps ==
  /\ Sent(0) = <<>>
  /\ \A n \in 0..Len(Wire) : Sent(n) \in Seq(Contents)
  /\ \A n \in 1..Len(Wire) : Wire[n] \in Seq(Contents) /\ Sent(n) = Sent(n - 1) \o Wire[n]
  /\ Sent(Len(Wire)) = Messages
<1>0. Wire \in Seq(Seq(Contents)) /\ Len(Wire) \in Nat
  BY ConnectionAssumption
<1>1. PICK f \in [1..Len(Wire) -> Seq(Contents)] : Flattens(f, Wire, Len(Wire))
  BY <1>0, Flattening, Zenon
<1>2. Flattens(Flatten, Wire, Len(Wire))
  BY <1>1, Zenon DEF Flatten
<1>3. \A i \in 1..Len(Wire) : Flatten[i] = IF i = 1 THEN Wire[i] ELSE Flatten[i - 1] \o Wire[i]
  BY <1>2, <1>0 DEF Flattens
<1>4. \A i \in 1..Len(Wire) : Wire[i] \in Seq(Contents)
  BY <1>0
<1>5. Sent(0) = <<>>
  BY DEF Sent
<1>6. \A n \in 1..Len(Wire) : Sent(n) = Sent(n - 1) \o Wire[n]
  <2> SUFFICES ASSUME NEW n \in 1..Len(Wire) PROVE Sent(n) = Sent(n - 1) \o Wire[n]
    OBVIOUS
  <2>1. CASE n = 1
    <3>1. \A s \in Seq(Contents) : <<>> \o s = s
      OBVIOUS
    <3> QED
      BY <1>3, <1>4, <2>1, <3>1 DEF Sent
  <2>2. CASE n # 1
    <3>1. n # 0 /\ n - 1 # 0
      BY <1>0, <2>2
    <3>2. Sent(n) = Flatten[n] /\ Sent(n - 1) = Flatten[n - 1]
      BY <3>1 DEF Sent
    <3> QED
      BY <1>3, <2>2, <3>2
  <2> QED
    BY <2>1, <2>2
<1>7. \A n \in 0..Len(Wire) : Sent(n) \in Seq(Contents)
  <2> DEFINE T == {n \in Nat : n <= Len(Wire) => Sent(n) \in Seq(Contents)}
  <2>1. 0 \in T
    <3>1. <<>> \in Seq(Contents)
      OBVIOUS
    <3> QED
      BY <1>5, <3>1
  <2>2. ASSUME NEW n \in Nat, n \in T PROVE n + 1 \in T
    <3>1. \A s, t \in Seq(Contents) : s \o t \in Seq(Contents)
      OBVIOUS
    <3>2. SUFFICES ASSUME n + 1 <= Len(Wire) PROVE Sent(n + 1) \in Seq(Contents)
      BY <2>2
    <3>3. n + 1 \in 1..Len(Wire) /\ (n + 1) - 1 = n /\ n <= Len(Wire)
      BY <1>0, <3>2
    <3>4. Sent(n) \in Seq(Contents)
      BY <2>2, <3>3
    <3>5. Sent(n + 1) = Sent(n) \o Wire[n + 1]
      BY <1>6, <3>3
    <3>6. Wire[n + 1] \in Seq(Contents)
      BY <1>4, <3>3
    <3> QED
      BY <3>1, <3>4, <3>5, <3>6
  <2> HIDE DEF T
  <2>3. Nat \subseteq T
    BY <2>1, <2>2, SetInduction
  <2> QED
    BY <1>0, <2>3 DEF T
<1>8. Sent(Len(Wire)) = Messages
  <2>1. CASE Len(Wire) = 0
    <3>1. Wire = <<>>
      BY <1>0, <2>1
    <3>2. Messages = Wire
      BY <2>1 DEF Messages, FlattenSeq
    <3> QED
      BY <1>5, <2>1, <3>1, <3>2
  <2>2. CASE Len(Wire) # 0
    <3>1. Messages = Flatten[Len(Wire)]
      BY <2>2 DEF Messages, FlattenSeq, Flatten, Flattens
    <3> QED
      BY <2>2, <3>1 DEF Sent
  <2> QED
    BY <2>1, <2>2
<1> QED
  BY <1>4, <1>5, <1>6, <1>7, <1>8

(* Concatenation is associative.                                           *)
LEMMA Associates ==
  ASSUME NEW S, NEW r \in Seq(S), NEW s \in Seq(S), NEW t \in Seq(S)
  PROVE  s \o t \in Seq(S) /\ (r \o s) \o t = r \o (s \o t)
OBVIOUS

(* A sequence is a prefix of what it is extended to.                       *)
LEMMA PrefixOfConcat ==
  ASSUME NEW S, NEW s \in Seq(S), NEW t \in Seq(S)
  PROVE  IsPrefix(s, s \o t)
<1>1. /\ Len(s \o t) = Len(s) + Len(t) /\ Len(s) \in Nat /\ Len(t) \in Nat
      /\ \A k \in 1..Len(s) : (s \o t)[k] = s[k]
      /\ s \o t \in Seq(S)
  OBVIOUS
<1>2. SubSeq(s, 1, Len(s)) = SubSeq(s \o t, 1, Len(s))
  BY <1>1
<1> QED
  BY <1>1, <1>2 DEF IsPrefix

(* The messages of the first n packets are the first of all messages.      *)
LEMMA SentIsPrefix ==
  ASSUME NEW n \in 0..Len(Wire)
  PROVE  \E rest \in Seq(Contents) : Messages = Sent(n) \o rest
<1> DEFINE T == {k \in Nat : n + k <= Len(Wire) =>
                                \E rest \in Seq(Contents) : Sent(n + k) = Sent(n) \o rest}
<1>0. Len(Wire) \in Nat
  BY ConnectionAssumption
<1>1. 0 \in T
  <2>1. Sent(n) \o <<>> = Sent(n) /\ <<>> \in Seq(Contents) /\ n + 0 = n
    BY SentSteps
  <2> QED
    BY <2>1
<1>2. ASSUME NEW k \in Nat, k \in T PROVE k + 1 \in T
  <2>1. SUFFICES ASSUME n + (k + 1) <= Len(Wire)
                 PROVE  \E rest \in Seq(Contents) : Sent(n + (k + 1)) = Sent(n) \o rest
    BY <1>2
  <2>2. n + k \in 0..Len(Wire) /\ n + (k + 1) \in 1..Len(Wire) /\ (n + (k + 1)) - 1 = n + k
    BY <1>0, <2>1
  <2>3. PICK rest \in Seq(Contents) : Sent(n + k) = Sent(n) \o rest
    BY <1>2, <2>2
  <2>4. Sent(n + (k + 1)) = Sent(n + k) \o Wire[n + (k + 1)]
    BY <2>2, SentSteps
  <2>5. Wire[n + (k + 1)] \in Seq(Contents) /\ Sent(n) \in Seq(Contents)
    BY <2>2, SentSteps
  <2>6. /\ rest \o Wire[n + (k + 1)] \in Seq(Contents)
        /\ (Sent(n) \o rest) \o Wire[n + (k + 1)] = Sent(n) \o (rest \o Wire[n + (k + 1)])
    <3>1. \A r, t, u \in Seq(Contents) : t \o u \in Seq(Contents) /\ (r \o t) \o u = r \o (t \o u)
      BY Associates, SMTT(30)
    <3> QED
      BY <2>5, <3>1
  <2> QED
    BY <2>3, <2>4, <2>6
<1> HIDE DEF T
<1>3. Nat \subseteq T
  BY <1>1, <1>2, SetInduction
<1>4. Len(Wire) - n \in Nat /\ n + (Len(Wire) - n) = Len(Wire) /\ Len(Wire) <= Len(Wire)
  BY <1>0
<1>5. \E rest \in Seq(Contents) : Sent(n + (Len(Wire) - n)) = Sent(n) \o rest
  <2>1. Len(Wire) - n \in T
    BY <1>3, <1>4
  <2> QED
    BY <1>4, <2>1 DEF T
<1> QED
  BY <1>4, <1>5, SentSteps

(* The number of packets the connection's fiber has taken.                 *)
Taken == Len(Wire) - Len(arriving) - (IF reader = "push" THEN 1 ELSE 0) - Len(readPackets)

(* The packets on their way to the module are the rest of Wire, in order.  *)
PacketsInv ==
  /\ Taken \in Nat
  /\ \A i \in 1..Len(readPackets) : readPackets[i] = Wire[Taken + i]
  /\ reader = "push" => packet = Wire[Taken + Len(readPackets) + 1]
  /\ \A i \in 1..Len(arriving) : arriving[i] = Wire[Len(Wire) - Len(arriving) + i]

(* What MultiPacket still has of a CMsgMulti, taken or not.                *)
InMulti == IF multiQueue = <<>> THEN unpacked ELSE Head(multiQueue)

(* What has been posted and what MultiPacket still has are the messages of *)
(* the packets taken.                                                      *)
PostedInv ==
  /\ multi \in {"wait", "ended"} => unpacked = <<>>
  /\ posted \o InMulti = Sent(Taken)

(* At first nothing is taken or posted.                                    *)
LEMMA InitOrder == Init => PacketsInv /\ PostedInv
<1> SUFFICES ASSUME Init PROVE PacketsInv /\ PostedInv
  OBVIOUS
<1>1. Len(Wire) \in Nat
  BY ConnectionAssumption
<1>2. Len(readPackets) = 0 /\ Taken = 0
  <2>1. Len(readPackets) = 0 /\ Len(arriving) = Len(Wire) /\ reader # "push"
    BY DEF Init
  <2>2. Taken = Len(Wire) - Len(Wire) - 0 - 0
    BY <2>1 DEF Taken
  <2> QED
    BY <1>1, <2>1, <2>2
<1>3. posted \o InMulti = <<>>
  BY DEF Init, InMulti
<1>4. PacketsInv
  BY <1>1, <1>2 DEF Init, PacketsInv
<1> QED
  BY <1>2, <1>3, <1>4, SentSteps DEF Init, PostedInv

(* The steps that move packets to the connection's fiber, and those that   *)
(* leave them alone.                                                       *)
LEMMA NextPackets ==
  Inv /\ PacketsInv /\ [Next]_vars => PacketsInv' /\ (Taken' = Taken \/ ConnReads)
<1> SUFFICES ASSUME Inv, PacketsInv, [Next]_vars PROVE PacketsInv' /\ (Taken' = Taken \/ ConnReads)
  OBVIOUS
<1>1. /\ Len(Wire) \in Nat /\ Len(arriving) \in Nat /\ Len(readPackets) \in Nat
      /\ arriving \in Seq(ToSet(Wire)) /\ readPackets \in Seq(ToSet(Wire))
  BY ConnectionAssumption DEF Inv, ReaderInv
<1>2. CASE UNCHANGED <<arriving, readPackets, packet, reader>>
  BY <1>2 DEF PacketsInv, Taken
<1>3. CASE UNCHANGED <<arriving, readPackets, packet>> /\ reader # "push" /\ reader' # "push"
  BY <1>3 DEF PacketsInv, Taken
<1>4. CASE Arrive
  <2>1. /\ arriving # <<>> /\ arriving' = Tail(arriving) /\ packet' = Head(arriving)
        /\ reader = "read" /\ reader' = "push" /\ UNCHANGED readPackets
    BY <1>4 DEF Arrive, Goto, sharedVars
  <2>2. /\ Len(arriving') = Len(arriving) - 1 /\ Len(arriving) # 0
        /\ \A i \in 1..Len(arriving') : arriving'[i] = arriving[i + 1]
        /\ packet' = arriving[1]
    BY <1>1, <2>1
  <2>3. Taken' = Taken
    BY <1>1, <2>1, <2>2 DEF Taken
  <2>4. packet' = Wire[Taken + Len(readPackets) + 1]
    BY <1>1, <2>1, <2>2 DEF PacketsInv, Taken
  <2>5. ASSUME NEW i \in 1..Len(arriving') PROVE arriving'[i] = Wire[Len(Wire) - Len(arriving') + i]
    <3>1. /\ i + 1 \in 1..Len(arriving) /\ arriving'[i] = arriving[i + 1]
          /\ Len(Wire) - Len(arriving) + (i + 1) = Len(Wire) - Len(arriving') + i
      BY <1>1, <2>2
    <3> QED
      BY <3>1 DEF PacketsInv
  <2> QED
    BY <2>1, <2>3, <2>4, <2>5 DEF PacketsInv
<1>5. CASE PushPacket
  <2>1. /\ readPackets' = Append(readPackets, packet) /\ reader = "push" /\ reader' = "check"
        /\ UNCHANGED arriving
    BY <1>5 DEF PushPacket, Goto
  <2>2. /\ Len(readPackets') = Len(readPackets) + 1
        /\ \A i \in 1..Len(readPackets) : readPackets'[i] = readPackets[i]
        /\ readPackets'[Len(readPackets) + 1] = packet
    BY <1>1, <2>1
  <2>3. Taken' = Taken
    BY <1>1, <2>1, <2>2 DEF Taken
  <2>4. ASSUME NEW i \in 1..Len(readPackets') PROVE readPackets'[i] = Wire[Taken + i]
    <3>1. i \in 1..Len(readPackets) \/ i = Len(readPackets) + 1
      BY <1>1, <2>2
    <3>2. Taken + Len(readPackets) + 1 = Taken + (Len(readPackets) + 1)
      BY <1>1 DEF PacketsInv
    <3> QED
      BY <2>1, <2>2, <3>1, <3>2 DEF PacketsInv
  <2> QED
    BY <2>1, <2>3, <2>4 DEF PacketsInv
<1>6. CASE ConnReads
  <2>1. UNCHANGED <<arriving, reader, packet>>
    BY <1>6 DEF ConnReads, readerVars
  <2>2. CASE readPackets = <<>>
    <3>1. UNCHANGED readPackets
      BY <1>6, <2>2 DEF ConnReads
    <3> QED
      BY <1>6, <2>1, <3>1 DEF PacketsInv, Taken
  <2>3. CASE readPackets # <<>>
    <3>1. readPackets' = Tail(readPackets)
      BY <1>6, <2>3 DEF ConnReads
    <3>2. /\ Len(readPackets') = Len(readPackets) - 1
          /\ \A i \in 1..Len(readPackets') : readPackets'[i] = readPackets[i + 1]
      BY <1>1, <2>3, <3>1
    <3>3. Taken' = Taken + 1
      BY <1>1, <2>1, <3>2 DEF Taken
    <3>4. ASSUME NEW i \in 1..Len(readPackets') PROVE readPackets'[i] = Wire[Taken' + i]
      <4>1. i + 1 \in 1..Len(readPackets) /\ Taken + (i + 1) = Taken' + i
        BY <1>1, <3>2, <3>3 DEF PacketsInv
      <4> QED
        BY <3>2, <4>1 DEF PacketsInv
    <3>5. Taken' + Len(readPackets') + 1 = Taken + Len(readPackets) + 1
      BY <1>1, <3>2, <3>3 DEF PacketsInv
    <3>6. Taken' \in Nat
      BY <3>3 DEF PacketsInv
    <3>7. reader' = "push" => packet' = Wire[Taken' + Len(readPackets') + 1]
      BY <2>1, <3>5 DEF PacketsInv
    <3>8. \A i \in 1..Len(arriving') : arriving'[i] = Wire[Len(Wire) - Len(arriving') + i]
      BY <2>1 DEF PacketsInv
    <3> QED
      BY <1>6, <3>4, <3>6, <3>7, <3>8 DEF PacketsInv
  <2> QED
    BY <2>2, <2>3
<1>7. CASE TryNext \/ Connected \/ CheckStatus \/ GotEOF \/ ConnectFails \/ ConnectSucceeds
           \/ (\E eof \in BOOLEAN : ReadFails(eof))
  <2>1. UNCHANGED <<arriving, readPackets, packet>> /\ reader # "push" /\ reader' # "push"
    BY <1>7 DEF TryNext, Connected, CheckStatus, GotEOF, ConnectFails, ConnectSucceeds, ReadFails,
                Goto, sharedVars
  <2> QED
    BY <1>3, <2>1
<1>8. CASE \/ StartWriting \/ CheckWriting \/ TakePacket \/ WriteSucceeds
           \/ (\E new \in {"GotEOF", "Error"} : WriteFails(new))
           \/ ConnCancelled \/ ConnWakes \/ ConnWrites \/ ConnLooks \/ StoreEndpoint
           \/ MultiCancelled \/ MultiWakes \/ MultiHandles \/ LoginCancelled
           \/ (\E refused \in BOOLEAN : LoginHandles(refused)) \/ Send \/ Quit \/ UNCHANGED vars
  <2>1. UNCHANGED <<arriving, readPackets, packet, reader>>
    BY <1>8 DEF StartWriting, CheckWriting, TakePacket, WriteSucceeds, WriteFails, ConnCancelled,
                ConnWakes, ConnWrites, ConnLooks, StoreEndpoint, MultiCancelled, MultiWakes,
                MultiHandles, LoginCancelled, LoginHandles, Send, Quit, vars, readerVars, sharedVars
  <2> QED
    BY <1>2, <2>1
<1> QED
  BY StepCases, <1>4, <1>5, <1>6, <1>7, <1>8

(* What is left of a sequence of one element.                              *)
LEMMA OnlyOne ==
  ASSUME NEW S, NEW q \in Seq(S), Len(q) = 1
  PROVE  Tail(q) = <<>> /\ q # <<>>
<1>1. q # <<>>
  OBVIOUS
<1>2. Tail(q) \in Seq(S) /\ Len(Tail(q)) = 0
  BY <1>1
<1>3. \A t \in Seq(S) : Len(t) = 0 => t = <<>>
  OBVIOUS
<1>4. Tail(q) = <<>>
  BY <1>2, <1>3, Zenon
<1> QED
  BY <1>1, <1>4

(* Posting the head of a sequence moves it over.                           *)
LEMMA PostHead ==
  ASSUME NEW S, NEW s \in Seq(S), NEW t \in Seq(S), t # <<>>
  PROVE  Append(s, Head(t)) \o Tail(t) = s \o t
OBVIOUS

(* What is posted, and what MultiPacket has, is what was taken.            *)
LEMMA NextPosted == Inv /\ PacketsInv /\ PostedInv /\ [Next]_vars => PostedInv'
<1> SUFFICES ASSUME Inv, PacketsInv, PostedInv, [Next]_vars PROVE PostedInv'
  OBVIOUS
<1>1. /\ posted \in Seq(Contents) /\ unpacked \in Seq(Contents) /\ multiQueue \in Seq(ToSet(Wire))
      /\ multi \in {"wait", "handle", "barrier", "ended"}
  BY DEF Inv, BarrierInv
<1>2. CASE UNCHANGED <<posted, unpacked, multi, multiQueue>> /\ Taken' = Taken
  BY <1>2 DEF PostedInv, InMulti
<1>3. CASE ConnReads
  <2>1. /\ conn = "read" /\ multiQueue = <<>> /\ multi \in {"wait", "ended"} /\ unpacked = <<>>
        /\ UNCHANGED <<multi, unpacked>>
    BY <1>3 DEF ConnReads, Inv, BarrierInv, PostedInv
  <2>2. posted = Sent(Taken)
    <3>1. posted \o <<>> = posted
      BY <1>1
    <3> QED
      BY <2>1, <3>1 DEF PostedInv, InMulti
  <2>3. UNCHANGED <<arriving, reader, packet>>
    BY <1>3 DEF ConnReads, readerVars
  <2>4. CASE readPackets = <<>>
    BY <1>3, <2>1, <2>3, <2>4 DEF ConnReads, PostedInv, InMulti, Taken
  <2>5. CASE readPackets # <<>>
    <3> DEFINE p == Head(readPackets)
    <3>1. /\ readPackets' = Tail(readPackets) /\ HandlePacket(p)
          /\ readPackets \in Seq(ToSet(Wire)) /\ arriving \in Seq(ToSet(Wire))
      BY <1>3, <2>5 DEF ConnReads, Inv, ReaderInv
    <3>2. /\ Len(readPackets') = Len(readPackets) - 1 /\ Len(readPackets) \in Nat \ {0}
          /\ p = readPackets[1] /\ p \in ToSet(Wire)
      BY <2>5, <3>1
    <3>3. p \in Seq(Contents)
      BY <3>2, PacketType
    <3>4. Len(Wire) \in Nat /\ Len(arriving) \in Nat
      BY <3>1, ConnectionAssumption
    <3>5. Taken' = Taken + 1 /\ Taken + 1 \in 1..Len(Wire)
      BY <2>3, <3>2, <3>4 DEF Taken, PacketsInv
    <3>6. p = Wire[Taken + 1]
      BY <3>2 DEF PacketsInv
    <3>7. Sent(Taken') = posted \o p
      <4>1. (Taken + 1) - 1 = Taken
        BY DEF PacketsInv
      <4> QED
        BY <2>2, <3>5, <3>6, <4>1, SentSteps
    <3>8. CASE Len(p) # 1
      <4>1. multiQueue' = <<p>> /\ posted' = posted
        BY <2>1, <3>1, <3>8 DEF HandlePacket
      <4>2. InMulti' = p
        BY <4>1 DEF InMulti
      <4> QED
        BY <2>1, <3>7, <4>1, <4>2 DEF PostedInv
    <3>9. CASE Len(p) = 1
      <4>1. multiQueue' = multiQueue /\ posted' = Append(posted, Head(p))
        BY <3>1, <3>9 DEF HandlePacket, Post
      <4>2. InMulti' = <<>>
        BY <2>1, <4>1 DEF InMulti
      <4> HIDE DEF p
      <4>3. Tail(p) = <<>> /\ p # <<>>
        BY <3>3, <3>9, OnlyOne
      <4>4. posted' \o <<>> = posted \o p
        BY <1>1, <3>3, <4>1, <4>3, PostHead
      <4> QED
        BY <2>1, <3>7, <4>2, <4>4 DEF PostedInv
    <3> QED
      BY <3>8, <3>9
  <2> QED
    BY <2>4, <2>5
<1>4. CASE MultiCancelled
  <2>1. multi = "wait" /\ UNCHANGED <<posted, unpacked, multiQueue>>
    BY <1>4 DEF MultiCancelled
  <2>2. Taken' = Taken
    BY <1>4 DEF MultiCancelled, Taken, readerVars, sharedVars
  <2> QED
    BY <2>1, <2>2 DEF PostedInv, InMulti
<1>5. CASE MultiWakes
  <2>1. /\ multiQueue # <<>> /\ multi' = "handle" /\ unpacked' = Head(multiQueue)
        /\ multiQueue' = Tail(multiQueue) /\ UNCHANGED posted
    BY <1>5 DEF MultiWakes
  <2>2. multiQueue' = <<>>
    <3>1. Len(multiQueue) = 1
      BY <2>1 DEF Inv, BarrierInv
    <3> QED
      BY <1>1, <2>1, <3>1, OnlyOne
  <2>3. Taken' = Taken
    BY <1>5 DEF MultiWakes, Taken, readerVars, sharedVars
  <2>4. InMulti' = InMulti
    BY <2>1, <2>2 DEF InMulti
  <2> QED
    BY <2>1, <2>3, <2>4 DEF PostedInv
<1>6. CASE MultiHandles
  <2>1. /\ multi = "handle" /\ multiQueue = <<>> /\ UNCHANGED multiQueue
    BY <1>6 DEF MultiHandles, Inv, BarrierInv
  <2>2. Taken' = Taken
    BY <1>6 DEF MultiHandles, Taken, readerVars, sharedVars
  <2>3. CASE unpacked = <<>>
    BY <1>6, <2>1, <2>2, <2>3 DEF MultiHandles, PostedInv, InMulti
  <2>4. CASE unpacked # <<>>
    <3>1. /\ posted' = Append(posted, Head(unpacked)) /\ unpacked' = Tail(unpacked)
          /\ multi' \in {"barrier", "handle"}
      BY <1>6, <2>4 DEF MultiHandles, Post
    <3>2. posted' \o unpacked' = posted \o unpacked
      BY <1>1, <2>4, <3>1, PostHead
    <3> QED
      BY <2>1, <2>2, <3>1, <3>2 DEF PostedInv, InMulti
  <2> QED
    BY <2>3, <2>4
<1>7. CASE \E refused \in BOOLEAN : LoginHandles(refused)
  <2>1. /\ UNCHANGED <<posted, unpacked, multiQueue>> /\ Taken' = Taken
        /\ multi' = multi \/ (multi = "barrier" /\ multi' = "handle")
    BY <1>7 DEF LoginHandles, Taken, readerVars, sharedVars
  <2> QED
    BY <2>1 DEF PostedInv, InMulti
<1>8. CASE \/ TryNext \/ Connected \/ CheckStatus \/ PushPacket \/ GotEOF \/ ConnectFails
           \/ ConnectSucceeds \/ Arrive \/ (\E eof \in BOOLEAN : ReadFails(eof))
           \/ StartWriting \/ CheckWriting \/ TakePacket \/ WriteSucceeds
           \/ (\E new \in {"GotEOF", "Error"} : WriteFails(new))
           \/ ConnCancelled \/ ConnWakes \/ ConnWrites \/ ConnLooks \/ StoreEndpoint
           \/ LoginCancelled \/ Send \/ Quit \/ UNCHANGED vars
  <2>1. UNCHANGED <<posted, unpacked, multi, multiQueue>>
    BY <1>8 DEF TryNext, Connected, CheckStatus, PushPacket, GotEOF, ConnectFails, ConnectSucceeds,
                Arrive, ReadFails, StartWriting, CheckWriting, TakePacket, WriteSucceeds, WriteFails,
                ConnCancelled, ConnWakes, ConnWrites, ConnLooks, StoreEndpoint, LoginCancelled,
                Send, Quit, vars, clientVars, boardVars
  <2>2. Taken' = Taken \/ ConnReads
    BY NextPackets
  <2> QED
    BY <1>2, <1>3, <2>1, <2>2
<1> QED
  BY StepCases, <1>3, <1>4, <1>5, <1>6, <1>7, <1>8

(* However the packets are cut and whoever unpacks them, the messages get  *)
(* to the messageboard in the order in which Steam has sent them.          *)
THEOREM OrderIsKept == Spec => []InWireOrder
<1>1. Init => PacketsInv /\ PostedInv
  BY InitOrder
<1>2. Inv /\ PacketsInv /\ PostedInv /\ [Next]_vars => (PacketsInv /\ PostedInv)'
  BY NextPackets, NextPosted
<1>3. Inv /\ PacketsInv /\ PostedInv => InWireOrder
  <2> SUFFICES ASSUME Inv, PacketsInv, PostedInv PROVE InWireOrder
    OBVIOUS
  <2>1. Taken \in 0..Len(Wire)
    BY ConnectionAssumption DEF PacketsInv, Taken, Inv, ReaderInv
  <2>2. PICK rest \in Seq(Contents) : Messages = Sent(Taken) \o rest
    BY <2>1, SentIsPrefix
  <2>3. posted \in Seq(Contents) /\ InMulti \in Seq(Contents)
    <3>1. multiQueue \in Seq(ToSet(Wire)) /\ (multiQueue # <<>> => Head(multiQueue) \in ToSet(Wire))
      BY DEF Inv, BarrierInv
    <3> QED
      BY <3>1, PacketType DEF Inv, BarrierInv, InMulti
  <2>4. Messages = posted \o (InMulti \o rest) /\ InMulti \o rest \in Seq(Contents)
    <3>1. \A r, t, u \in Seq(Contents) : t \o u \in Seq(Contents) /\ (r \o t) \o u = r \o (t \o u)
      BY Associates, SMTT(30)
    <3>2. posted \o InMulti = Sent(Taken)
      BY DEF PostedInv
    <3>3. (posted \o InMulti) \o rest = posted \o (InMulti \o rest)
      BY <2>3, <3>1, SMTT(30)
    <3> QED
      BY <2>2, <2>3, <3>1, <3>2, <3>3, Zenon
  <2> QED
    BY <2>3, <2>4, PrefixOfConcat DEF InWireOrder
<1> QED
  BY <1>1, <1>2, <1>3, Invariance, PTL DEF Spec

-----------------------------------------------------------------------------
(* HttpQueue                                                               *)

(* The timer's expiry lies the schedule behind the last completion.        *)
ExpiryInv == left + gap = Schedule

(* A query is posted, queued or in progress at most once, and only as long *)
(* as it has been performed and not been completed.                        *)
Distinct(s) == \A j, k \in 1..Len(s) : s[j] = s[k] => j = k

Placed(fib, calls, pending, current, done) ==
  /\ Distinct(calls)
  /\ Distinct(pending)
  /\ \A j \in 1..Len(calls) : /\ fib[calls[j]] # "idle"
                              /\ calls[j] # current
                              /\ calls[j] \notin done
                              /\ \A k \in 1..Len(pending) : calls[j] # pending[k]
  /\ \A k \in 1..Len(pending) : /\ fib[pending[k]] # "idle"
                                /\ pending[k] # current
                                /\ pending[k] \notin done
  /\ current # NoQuery => fib[current] # "idle" /\ current \notin done
  /\ \A q \in done : fib[q] # "idle"

QueuePlaceInv == Placed(caller, enqueued, queue, inProgress, completed)

-----------------------------------------------------------------------------
(* The steps of Next by name.                                              *)
LEMMA HttpCases ==
  ASSUME [HttpNext]_httpVars
  PROVE  \/ \E q \in Queries : Perform(q) \/ Return(q) \/ Cancelled(q)
         \/ Enqueue \/ Tick \/ TimerFires \/ TimerHandler
         \/ Performed
         \/ \E failed \in BOOLEAN : \/ \E sniFails \in BOOLEAN : ResolveCompleted(failed, sniFails)
                                    \/ ConnectCompleted(failed)
                                    \/ HandshakeCompleted(failed)
                                    \/ WriteCompleted(failed)
         \/ \E outcome \in {"final", "found"}, target \in Urls : ReadCompleted(outcome, target)
         \/ ReadFailed
         \/ UNCHANGED httpVars
BY DEF HttpNext, QueryHandler

(* What startQuery() leaves behind: the types, and a wait of the timer if  *)
(* there is a query that has not been started.                             *)
LEMMA StartQueryTypes ==
  ASSUME HttpTypeOK,
         NEW pending \in Seq(Queries), NEW current \in Queries \cup {NoQuery},
         NEW remaining \in 0..Schedule, NEW armed \in BOOLEAN,
         armed => current = NoQuery /\ pending # <<>>,
         current # NoQuery => current = inProgress,
         StartQuery(pending, current, remaining, armed)
  PROVE  /\ left' = remaining
         /\ waiting' \in BOOLEAN
         /\ queue' \in Seq(Queries)
         /\ inProgress' \in Queries \cup {NoQuery}
         /\ stage' \in {"none", "resolve", "connect", "handshake", "write", "read", "redirect"}
         /\ stage' = "none" <=> inProgress' = NoQuery
         /\ waiting' => inProgress' = NoQuery /\ queue' # <<>>
         /\ queue' # <<>> /\ inProgress' = NoQuery => waiting'
<1> DEFINE idle == current = NoQuery /\ pending # <<>>
<1> DEFINE start == idle /\ remaining = 0
<1>1. left' = remaining /\ waiting' = ((idle /\ ~start) \/ (~idle /\ armed))
  BY DEF StartQuery
<1>2. CASE start
  <2>1. inProgress' = Head(pending) /\ queue' = Tail(pending) /\ stage' = "resolve"
    BY <1>2 DEF StartQuery
  <2>2. Head(pending) \in Queries /\ Tail(pending) \in Seq(Queries)
    BY <1>2
  <2>3. waiting' = FALSE
    BY <1>1, <1>2
  <2>4. Head(pending) # NoQuery
    BY <2>2, HttpAssumption
  <2> QED
    BY <1>1, <2>1, <2>2, <2>3, <2>4
<1>3. CASE ~start
  <2>1. inProgress' = current /\ queue' = pending /\ stage' = IF current = NoQuery THEN "none" ELSE stage
    BY <1>3 DEF StartQuery
  <2>2. waiting' = idle
    BY <1>1, <1>3
  <2>3. stage \in {"none", "resolve", "connect", "handshake", "write", "read", "redirect"}
        /\ (stage = "none" <=> inProgress = NoQuery)
    BY DEF HttpTypeOK
  <2> QED
    BY <1>1, <2>1, <2>2, <2>3
<1> QED
  BY <1>2, <1>3

(* checkRedirect() leads on, or the query is over and the next one starts. *)
LEMMA CompleteTypes ==
  ASSUME HttpTypeOK, ExpiryInv, inProgress # NoQuery, location' \in [Queries -> Urls],
         NEW failed \in BOOLEAN, Complete(failed)
  PROVE  /\ url' \in [Queries -> Urls]
         /\ error' \in [Queries -> BOOLEAN]
         /\ completed' \subseteq Queries
         /\ gap' \in 0..Schedule
         /\ left' \in 0..Schedule
         /\ left' + gap' = Schedule
         /\ waiting' \in BOOLEAN
         /\ queue' \in Seq(Queries)
         /\ inProgress' \in Queries \cup {NoQuery}
         /\ stage' \in {"none", "resolve", "connect", "handshake", "write", "read", "redirect"}
         /\ stage' = "none" <=> inProgress' = NoQuery
         /\ waiting' => inProgress' = NoQuery /\ queue' # <<>>
         /\ queue' # <<>> /\ inProgress' = NoQuery => waiting'
<1> USE HttpAssumption
<1>1. inProgress \in Queries /\ ~waiting
  BY DEF HttpTypeOK
<1>2. error' = [error EXCEPT ![inProgress] = failed]
  BY DEF Complete
<1>3. error' \in [Queries -> BOOLEAN]
  BY <1>1, <1>2 DEF HttpTypeOK
<1>4. CASE Redirects(inProgress)
  <2>1. /\ url' = [url EXCEPT ![inProgress] = location'[inProgress]]
        /\ stage' = "redirect"
        /\ UNCHANGED <<queue, inProgress, left, waiting, completed, gap>>
    BY <1>4 DEF Complete
  <2>2. url' \in [Queries -> Urls]
    BY <1>1, <2>1 DEF HttpTypeOK
  <2> QED
    BY <1>1, <1>3, <2>1, <2>2 DEF HttpTypeOK, ExpiryInv
<1>5. CASE ~Redirects(inProgress)
  <2>1. /\ completed' = completed \cup {inProgress}
        /\ StartQuery(queue, NoQuery, Schedule, FALSE)
        /\ gap' = 0
        /\ url' = url
    BY <1>5 DEF Complete
  <2>2. queue \in Seq(Queries) /\ Schedule \in 0..Schedule
    BY DEF HttpTypeOK
  <2>3. /\ left' = Schedule
        /\ waiting' \in BOOLEAN
        /\ queue' \in Seq(Queries)
        /\ inProgress' \in Queries \cup {NoQuery}
        /\ stage' \in {"none", "resolve", "connect", "handshake", "write", "read", "redirect"}
        /\ stage' = "none" <=> inProgress' = NoQuery
        /\ waiting' => inProgress' = NoQuery /\ queue' # <<>>
        /\ queue' # <<>> /\ inProgress' = NoQuery => waiting'
    BY <2>1, <2>2, StartQueryTypes
  <2>4. /\ completed' \subseteq Queries
        /\ gap' \in 0..Schedule /\ left' \in 0..Schedule /\ left' + gap' = Schedule
    BY <1>1, <2>1, <2>2, <2>3 DEF HttpTypeOK
  <2>5. url' \in [Queries -> Urls]
    BY <2>1 DEF HttpTypeOK
  <2> QED
    BY <1>3, <2>3, <2>4, <2>5
<1> QED
  BY <1>4, <1>5

-----------------------------------------------------------------------------
QueueInv == HttpTypeOK /\ ExpiryInv /\ NobodyIdles

LEMMA QueueInit == HttpInit => QueueInv
<1> SUFFICES ASSUME HttpInit PROVE QueueInv
  OBVIOUS
<1>1. PICK u \in Urls : url = [q \in Queries |-> u]
  BY DEF HttpInit
<1>2. location = url /\ url \in [Queries -> Urls]
  BY <1>1 DEF HttpInit
<1>3. enqueued \in Seq(Queries) /\ queue \in Seq(Queries)
  BY DEF HttpInit
<1>4. left = 0 /\ gap = Schedule /\ {left, gap} \subseteq 0..Schedule /\ left + gap = Schedule
  BY HttpAssumption DEF HttpInit
<1>5. HttpTypeOK
  BY <1>2, <1>3, <1>4 DEF HttpInit, HttpTypeOK
<1> QED
  BY <1>4, <1>5 DEF HttpInit, QueueInv, ExpiryInv, NobodyIdles

(* One step for each stage of a query: it goes on, or is completed.        *)
LEMMA StageStep ==
  ASSUME QueueInv,
         UNCHANGED <<caller, enqueued, fired>>,
         inProgress # NoQuery,
         response' \in [Queries -> {"empty", "final", "found"}],
         location' \in [Queries -> Urls],
         answered' \subseteq Queries,
         noSni' \subseteq Queries,
         \/ \E failed \in BOOLEAN : Complete(failed)
         \/ \E next \in {"resolve", "connect", "handshake", "write", "read"} : NextStage(next)
  PROVE  QueueInv'
<1>1. CASE \E failed \in BOOLEAN : Complete(failed)
  <2>1. PICK failed \in BOOLEAN : Complete(failed)
    BY <1>1
  <2> DEFINE Good == /\ url' \in [Queries -> Urls]
                     /\ error' \in [Queries -> BOOLEAN]
                     /\ completed' \subseteq Queries
                     /\ gap' \in 0..Schedule
                     /\ left' \in 0..Schedule
                     /\ left' + gap' = Schedule
                     /\ waiting' \in BOOLEAN
                     /\ queue' \in Seq(Queries)
                     /\ inProgress' \in Queries \cup {NoQuery}
                     /\ stage' \in {"none", "resolve", "connect", "handshake", "write", "read",
                                    "redirect"}
                     /\ stage' = "none" <=> inProgress' = NoQuery
                     /\ waiting' => inProgress' = NoQuery /\ queue' # <<>>
                     /\ queue' # <<>> /\ inProgress' = NoQuery => waiting'
  <2>2. Good
    BY <2>1, CompleteTypes DEF QueueInv
  <2> QED
    BY <2>2 DEF QueueInv, HttpTypeOK, ExpiryInv, NobodyIdles
<1>2. CASE \E next \in {"resolve", "connect", "handshake", "write", "read"} : NextStage(next)
  BY <1>2 DEF NextStage, QueueInv, HttpTypeOK, ExpiryInv, NobodyIdles
<1> QED
  BY <1>1, <1>2

LEMMA QueueStep == QueueInv /\ [HttpNext]_httpVars => QueueInv'
<1> SUFFICES ASSUME QueueInv, [HttpNext]_httpVars PROVE QueueInv'
  OBVIOUS
<1> USE HttpAssumption
<1>1. ASSUME NEW q \in Queries, Perform(q) \/ Return(q) \/ Cancelled(q) PROVE QueueInv'
  <2>1. caller' \in [Queries -> {"idle", "wait", "gone"}]
    BY <1>1 DEF Perform, Return, Cancelled, QueueInv, HttpTypeOK
  <2>2. enqueued' \in Seq(Queries)
    <3>1. enqueued' = enqueued \/ enqueued' = Append(enqueued, q)
      BY <1>1 DEF Perform, Return, Cancelled
    <3>2. enqueued \in Seq(Queries) /\ Append(enqueued, q) \in Seq(Queries)
      BY DEF QueueInv, HttpTypeOK
    <3> QED
      BY <3>1, <3>2
  <2>3. UNCHANGED <<queue, inProgress, timerVars, stage, queryVars, completed, gap>>
    BY <1>1 DEF Perform, Return, Cancelled
  <2> QED
    BY <2>1, <2>2, <2>3 DEF QueueInv, HttpTypeOK, ExpiryInv, NobodyIdles, timerVars, queryVars
<1>2. CASE Enqueue \/ TimerHandler
  <2> DEFINE pending == IF Enqueue THEN Append(queue, Head(enqueued)) ELSE queue
  <2>1. /\ pending \in Seq(Queries)
        /\ queue # <<>> => pending # <<>>
        /\ enqueued' \in Seq(Queries)
        /\ fired' \in Nat
    <3>1. enqueued \in Seq(Queries) /\ queue \in Seq(Queries) /\ fired \in Nat
      BY DEF QueueInv, HttpTypeOK
    <3>2. CASE Enqueue
      <4>1. enqueued # <<>> /\ enqueued' = Tail(enqueued) /\ fired' = fired
        BY <3>2 DEF Enqueue
      <4> QED
        BY <3>1, <3>2, <4>1
    <3>3. CASE ~Enqueue
      <4>1. enqueued' = enqueued /\ fired > 0 /\ fired' = fired - 1
        BY <1>2, <3>3 DEF TimerHandler
      <4> QED
        BY <3>1, <3>3, <4>1
    <3> QED
      BY <3>2, <3>3
  <2>2. /\ StartQuery(pending, inProgress, left, waiting)
        /\ UNCHANGED <<caller, queryVars, completed, gap>>
    BY <1>2 DEF Enqueue, TimerHandler
  <2>3. /\ inProgress \in Queries \cup {NoQuery} /\ left \in 0..Schedule /\ waiting \in BOOLEAN
        /\ waiting => inProgress = NoQuery /\ pending # <<>>
    BY <2>1 DEF QueueInv, HttpTypeOK
  <2> HIDE DEF pending
  <2>4. /\ left' = left
        /\ waiting' \in BOOLEAN
        /\ queue' \in Seq(Queries)
        /\ inProgress' \in Queries \cup {NoQuery}
        /\ stage' \in {"none", "resolve", "connect", "handshake", "write", "read", "redirect"}
        /\ stage' = "none" <=> inProgress' = NoQuery
        /\ waiting' => inProgress' = NoQuery /\ queue' # <<>>
        /\ queue' # <<>> /\ inProgress' = NoQuery => waiting'
    BY <2>1, <2>2, <2>3, StartQueryTypes DEF QueueInv
  <2> QED
    BY <2>1, <2>2, <2>4 DEF QueueInv, HttpTypeOK, ExpiryInv, NobodyIdles, queryVars
<1>3. CASE Tick
  BY <1>3 DEF Tick, QueueInv, HttpTypeOK, ExpiryInv, NobodyIdles, queryVars
<1>4. CASE TimerFires
  <2>1. waiting' = FALSE /\ fired' \in Nat /\ fired' > 0
    BY <1>4 DEF TimerFires, QueueInv, HttpTypeOK
  <2>2. UNCHANGED <<caller, enqueued, queue, inProgress, left, stage, queryVars, completed, gap>>
    BY <1>4 DEF TimerFires
  <2> QED
    BY <2>1, <2>2 DEF QueueInv, HttpTypeOK, ExpiryInv, NobodyIdles, queryVars
<1>5. CASE Performed
  <2>1. inProgress # NoQuery
    BY <1>5 DEF Performed, QueueInv, HttpTypeOK
  <2> QED
    BY <1>5, <2>1, StageStep DEF Performed, QueueInv, HttpTypeOK
<1>6. ASSUME NEW failed \in BOOLEAN, NEW sniFails \in BOOLEAN, ResolveCompleted(failed, sniFails)
      PROVE  QueueInv'
  <2>1. inProgress # NoQuery /\ inProgress \in Queries
    BY <1>6 DEF ResolveCompleted, QueueInv, HttpTypeOK
  <2>2. answered' \subseteq Queries /\ noSni' \subseteq Queries
    BY <1>6, <2>1 DEF ResolveCompleted, QueueInv, HttpTypeOK
  <2> QED
    BY <1>6, <2>1, <2>2, StageStep DEF ResolveCompleted, QueueInv, HttpTypeOK
<1>7. ASSUME NEW failed \in BOOLEAN, ConnectCompleted(failed) \/ HandshakeCompleted(failed)
      PROVE  QueueInv'
  <2>1. inProgress # NoQuery
    BY <1>7 DEF ConnectCompleted, HandshakeCompleted, QueueInv, HttpTypeOK
  <2> QED
    BY <1>7, <2>1, StageStep DEF ConnectCompleted, HandshakeCompleted, QueueInv, HttpTypeOK
<1>8. ASSUME NEW failed \in BOOLEAN, WriteCompleted(failed) PROVE QueueInv'
  <2>1. inProgress # NoQuery /\ inProgress \in Queries
    BY <1>8 DEF WriteCompleted, QueueInv, HttpTypeOK
  <2>2. /\ response' \in [Queries -> {"empty", "final", "found"}]
        /\ location' \in [Queries -> Urls]
    BY <1>8, <2>1 DEF WriteCompleted, QueueInv, HttpTypeOK
  <2> QED
    BY <1>8, <2>1, <2>2, StageStep DEF WriteCompleted, QueueInv, HttpTypeOK
<1>9. ASSUME NEW outcome \in {"final", "found"}, NEW target \in Urls, ReadCompleted(outcome, target)
      PROVE  QueueInv'
  <2>1. inProgress # NoQuery /\ inProgress \in Queries
    BY <1>9 DEF ReadCompleted, QueueInv, HttpTypeOK
  <2>2. /\ response' \in [Queries -> {"empty", "final", "found"}]
        /\ location' \in [Queries -> Urls]
        /\ answered' \subseteq Queries
    BY <1>9, <2>1 DEF ReadCompleted, QueueInv, HttpTypeOK
  <2> QED
    BY <1>9, <2>1, <2>2, StageStep DEF ReadCompleted, QueueInv, HttpTypeOK
<1>10. CASE ReadFailed
  <2>1. inProgress # NoQuery
    BY <1>10 DEF ReadFailed, QueueInv, HttpTypeOK
  <2> QED
    BY <1>10, <2>1, StageStep DEF ReadFailed, QueueInv, HttpTypeOK
<1>11. CASE UNCHANGED httpVars
  BY <1>11 DEF httpVars, timerVars, queryVars, QueueInv, HttpTypeOK, ExpiryInv, NobodyIdles
<1> QED
  BY <1>1, <1>2, <1>3, <1>4, <1>5, <1>6, <1>7, <1>8, <1>9, <1>10, <1>11, HttpCases

LEMMA QueueAlways == HttpSpec => []QueueInv
BY QueueInit, QueueStep, PTL DEF HttpSpec

(* The types of RateLimitQueue, its timer and its queries.                 *)
THEOREM QueueIsTyped == HttpSpec => []HttpTypeOK
<1>1. QueueInv => HttpTypeOK
  BY DEF QueueInv
<1> QED
  BY <1>1, QueueAlways, PTL

(* The queue never stalls: with a query waiting and none in progress, a    *)
(* timer is pending or its handler queued (RateLimit.cpp:38-107).          *)
THEOREM QueueNeverIdles == HttpSpec => []NobodyIdles
<1>1. QueueInv => NobodyIdles
  BY DEF QueueInv
<1> QED
  BY <1>1, QueueAlways, PTL


-----------------------------------------------------------------------------
(* startQuery() leaves what is in progress, or finds the timer expired.    *)
LEMMA StartsWhenExpired ==
  ASSUME NEW pending, NEW current, NEW remaining, NEW armed,
         StartQuery(pending, current, remaining, armed)
  PROVE  inProgress' = current \/ remaining = 0
BY DEF StartQuery

LEMMA CompleteStartsNone ==
  ASSUME QueueInv, NEW failed, Complete(failed)
  PROVE  inProgress' = inProgress \/ inProgress' = NoQuery
<1>1. CASE Redirects(inProgress)
  BY <1>1 DEF Complete
<1>2. CASE ~Redirects(inProgress)
  <2>1. StartQuery(queue, NoQuery, Schedule, FALSE)
    BY <1>2 DEF Complete
  <2>2. Schedule # 0
    BY HttpAssumption
  <2> QED
    BY <2>1, <2>2, StartsWhenExpired
<1> QED
  BY <1>1, <1>2

LEMMA SpacedStep ==
  ASSUME QueueInv, [HttpNext]_httpVars, inProgress' # NoQuery, inProgress' # inProgress
  PROVE  gap = Schedule
<1>1. CASE Enqueue \/ TimerHandler
  <2>1. \E pending : StartQuery(pending, inProgress, left, waiting)
    BY <1>1 DEF Enqueue, TimerHandler
  <2>2. left = 0
    BY <2>1, StartsWhenExpired
  <2> QED
    BY <2>2 DEF QueueInv, ExpiryInv, HttpTypeOK
<1>2. CASE UNCHANGED inProgress
  BY <1>2
<1>3. CASE \E failed \in BOOLEAN : Complete(failed)
  BY <1>3, CompleteStartsNone
<1>4. \/ Enqueue \/ TimerHandler
      \/ UNCHANGED inProgress
      \/ \E failed \in BOOLEAN : Complete(failed)
  BY HttpCases DEF Perform, Return, Cancelled, Tick, TimerFires, Performed, ResolveCompleted,
     ConnectCompleted, HandshakeCompleted, WriteCompleted, ReadCompleted, ReadFailed, NextStage, httpVars
<1> QED
  BY <1>1, <1>2, <1>3, <1>4

(* Whichever of enqueue(), the timer and a completion starts a query: the  *)
(* schedule lies between the last completion and the start.                *)
THEOREM QueriesAreSpaced == HttpSpec => Spaced
<1>1. QueueInv /\ [HttpNext]_httpVars =>
        [inProgress' # NoQuery /\ inProgress' # inProgress => gap = Schedule]_httpVars
  BY SpacedStep
<1> QED
  BY <1>1, QueueAlways, PTL DEF HttpSpec, Spaced

-----------------------------------------------------------------------------
(* Sequences without repetition.                                           *)
LEMMA FirstTaken ==
  ASSUME NEW S, NEW s \in Seq(S), s # <<>>
  PROVE  /\ Head(s) = s[1] /\ 1 \in 1..Len(s)
         /\ Len(Tail(s)) = Len(s) - 1
         /\ \A k \in 1..Len(Tail(s)) : Tail(s)[k] = s[k + 1] /\ k + 1 \in 1..Len(s)
OBVIOUS

LEMMA AddLast ==
  ASSUME NEW S, NEW s \in Seq(S), NEW e \in S
  PROVE  /\ Len(Append(s, e)) = Len(s) + 1
         /\ Append(s, e)[Len(s) + 1] = e
         /\ \A k \in 1..Len(s) : Append(s, e)[k] = s[k]
         /\ \A k \in 1..Len(Append(s, e)) : k \in 1..Len(s) \/ k = Len(s) + 1
OBVIOUS

(* A query that startQuery() takes off the queue is still in one place.    *)
LEMMA StartPlaces ==
  ASSUME NEW fib, NEW calls \in Seq(Queries), NEW done,
         NEW pending \in Seq(Queries), NEW current, NEW remaining, NEW armed,
         Placed(fib, calls, pending, current, done),
         StartQuery(pending, current, remaining, armed)
  PROVE  Placed(fib, calls, queue', inProgress', done)
<1>1. CASE inProgress' = current /\ queue' = pending
  BY <1>1
<1>2. CASE /\ current = NoQuery /\ pending # <<>>
           /\ inProgress' = Head(pending) /\ queue' = Tail(pending)
  <2> USE <1>2
  <2>1. /\ Head(pending) = pending[1] /\ 1 \in 1..Len(pending)
        /\ \A k \in 1..Len(Tail(pending)) :
              Tail(pending)[k] = pending[k + 1] /\ k + 1 \in 1..Len(pending) /\ k + 1 # 1
    BY FirstTaken
  <2>2. Distinct(Tail(pending))
    <3> DEFINE rest == Tail(pending)
    <3> HIDE DEF rest
    <3> SUFFICES ASSUME NEW j \in 1..Len(rest), NEW k \in 1..Len(rest), rest[j] = rest[k]
                 PROVE  j = k
      BY DEF Distinct, rest
    <3>1. /\ rest[j] = pending[j + 1] /\ j + 1 \in 1..Len(pending)
          /\ rest[k] = pending[k + 1] /\ k + 1 \in 1..Len(pending)
      BY <2>1 DEF rest
    <3>2. j + 1 = k + 1
      BY <3>1 DEF Placed, Distinct
    <3> QED
      BY <3>2
  <2>3. \A k \in 1..Len(Tail(pending)) : /\ fib[Tail(pending)[k]] # "idle"
                                         /\ Tail(pending)[k] # pending[1]
                                         /\ Tail(pending)[k] \notin done
    BY <2>1 DEF Placed, Distinct
  <2>4. \A j \in 1..Len(calls) : /\ fib[calls[j]] # "idle"
                                 /\ calls[j] # pending[1]
                                 /\ calls[j] \notin done
                                 /\ \A k \in 1..Len(Tail(pending)) : calls[j] # Tail(pending)[k]
    BY <2>1 DEF Placed
  <2>5. fib[pending[1]] # "idle" /\ pending[1] \notin done
    BY <2>1 DEF Placed
  <2> QED
    BY <2>1, <2>2, <2>3, <2>4, <2>5 DEF Placed
<1> QED
  BY <1>1, <1>2 DEF StartQuery

AnswerInv == QueueInv /\ QueuePlaceInv /\ SuccessMeansAnswer

(* A stage of the query in progress concerns that query only; one that     *)
(* completes it without an error was answered, or has no SNI.              *)
LEMMA StageAnswers ==
  ASSUME AnswerInv, inProgress # NoQuery, UNCHANGED <<caller, enqueued>>,
         answered \ {inProgress} \subseteq answered',
         noSni \ {inProgress} \subseteq noSni',
         \/ \E failed \in BOOLEAN : /\ Complete(failed)
                                    /\ ~failed => inProgress \in answered' \cup noSni'
         \/ \E next : NextStage(next)
  PROVE  QueuePlaceInv' /\ SuccessMeansAnswer'
<1>1. inProgress \notin completed /\ inProgress \in Queries
  BY DEF AnswerInv, QueuePlaceInv, Placed, QueueInv, HttpTypeOK
<1>2. CASE \E next : NextStage(next)
  <2>1. UNCHANGED <<queue, inProgress, completed, error>>
    BY <1>2 DEF NextStage
  <2> QED
    BY <1>1, <2>1 DEF AnswerInv, QueuePlaceInv, Placed, SuccessMeansAnswer
<1>3. ASSUME NEW failed \in BOOLEAN, Complete(failed),
             ~failed => inProgress \in answered' \cup noSni'
      PROVE  QueuePlaceInv' /\ SuccessMeansAnswer'
  <2>1. error' = [error EXCEPT ![inProgress] = failed] /\ error \in [Queries -> BOOLEAN]
    BY <1>3 DEF Complete, AnswerInv, QueueInv, HttpTypeOK
  <2>2. completed' \subseteq completed \cup {inProgress} /\ completed \subseteq Queries
    BY <1>3 DEF Complete, AnswerInv, QueueInv, HttpTypeOK
  <2>3. SuccessMeansAnswer'
    <3> SUFFICES ASSUME NEW q \in completed', ~error'[q]
                 PROVE  q \in answered' \cup noSni'
      BY DEF SuccessMeansAnswer
    <3>1. CASE q = inProgress
      BY <1>1, <1>3, <2>1, <3>1
    <3>2. CASE q # inProgress
      BY <1>1, <2>1, <2>2, <3>2 DEF AnswerInv, SuccessMeansAnswer
    <3> QED
      BY <3>1, <3>2
  <2>4. CASE Redirects(inProgress)
    <3>1. UNCHANGED <<queue, inProgress, completed>>
      BY <1>3, <2>4 DEF Complete
    <3> QED
      BY <2>3, <3>1 DEF AnswerInv, QueuePlaceInv, Placed
  <2>5. CASE ~Redirects(inProgress)
    <3>1. completed' = completed \cup {inProgress} /\ StartQuery(queue, NoQuery, Schedule, FALSE)
      BY <1>3, <2>5 DEF Complete
    <3>2. enqueued \in Seq(Queries) /\ queue \in Seq(Queries) /\ NoQuery \notin Queries
      BY HttpAssumption DEF AnswerInv, QueueInv, HttpTypeOK
    <3>3. /\ \A j \in 1..Len(enqueued) : enqueued[j] \in Queries
          /\ \A k \in 1..Len(queue) : queue[k] \in Queries
      BY <3>2
    <3>4. Placed(caller, enqueued, queue, NoQuery, completed')
      BY <3>1, <3>2, <3>3 DEF AnswerInv, QueuePlaceInv, Placed
    <3>5. Placed(caller, enqueued, queue', inProgress', completed')
      BY <3>1, <3>2, <3>4, StartPlaces
    <3> QED
      BY <2>3, <3>5 DEF QueuePlaceInv
  <2> QED
    BY <2>4, <2>5
<1> QED
  BY <1>2, <1>3

LEMMA AnswerInit == HttpInit => AnswerInv
<1> SUFFICES ASSUME HttpInit PROVE QueuePlaceInv /\ SuccessMeansAnswer
  BY QueueInit DEF AnswerInv
<1>1. enqueued = <<>> /\ queue = <<>> /\ inProgress = NoQuery /\ completed = {}
  BY DEF HttpInit
<1> QED
  BY <1>1 DEF QueuePlaceInv, Placed, Distinct, SuccessMeansAnswer

LEMMA AnswerStep == AnswerInv /\ [HttpNext]_httpVars => AnswerInv'
<1> SUFFICES ASSUME AnswerInv, [HttpNext]_httpVars PROVE QueuePlaceInv' /\ SuccessMeansAnswer'
  BY QueueStep DEF AnswerInv
<1> USE DEF AnswerInv
<1>1. /\ enqueued \in Seq(Queries) /\ queue \in Seq(Queries)
      /\ inProgress \in Queries \cup {NoQuery} /\ caller \in [Queries -> {"idle", "wait", "gone"}]
      /\ NoQuery \notin Queries
      /\ completed \subseteq Queries
      /\ \A j \in 1..Len(enqueued) : enqueued[j] \in Queries
      /\ \A k \in 1..Len(queue) : queue[k] \in Queries
  BY HttpAssumption DEF QueueInv, HttpTypeOK
<1>2. ASSUME NEW q \in Queries, Perform(q) PROVE QueuePlaceInv' /\ SuccessMeansAnswer'
  <2>1. /\ caller[q] = "idle" /\ caller' = [caller EXCEPT ![q] = "wait"] /\ enqueued' = Append(enqueued, q)
        /\ UNCHANGED <<queue, inProgress, completed, error, answered, noSni>>
    BY <1>2 DEF Perform, queryVars
  <2>2. /\ \A p \in Queries : caller'[p] # "idle" <=> (caller[p] # "idle" \/ p = q)
        /\ \A j \in 1..Len(enqueued) : enqueued[j] # q
        /\ \A k \in 1..Len(queue) : queue[k] # q
        /\ q # inProgress /\ q \notin completed
    BY <1>1, <2>1 DEF QueuePlaceInv, Placed
  <2>3. /\ Len(enqueued') = Len(enqueued) + 1
        /\ enqueued'[Len(enqueued) + 1] = q
        /\ \A k \in 1..Len(enqueued) : enqueued'[k] = enqueued[k]
        /\ \A k \in 1..Len(enqueued') : k \in 1..Len(enqueued) \/ k = Len(enqueued) + 1
    BY <1>1, <2>1, AddLast
  <2>4. Distinct(enqueued')
    BY <2>2, <2>3 DEF QueuePlaceInv, Placed, Distinct
  <2>5. \A j \in 1..Len(enqueued') : /\ caller'[enqueued'[j]] # "idle"
                                     /\ enqueued'[j] # inProgress
                                     /\ enqueued'[j] \notin completed
                                     /\ \A k \in 1..Len(queue) : enqueued'[j] # queue[k]
    BY <1>1, <2>2, <2>3 DEF QueuePlaceInv, Placed
  <2>6. /\ \A k \in 1..Len(queue) : /\ caller'[queue[k]] # "idle"
                                    /\ queue[k] # inProgress
                                    /\ queue[k] \notin completed
        /\ inProgress # NoQuery => caller'[inProgress] # "idle" /\ inProgress \notin completed
        /\ \A p \in completed : caller'[p] # "idle"
    BY <1>1, <2>2 DEF QueuePlaceInv, Placed
  <2>7. QueuePlaceInv'
    BY <2>1, <2>4, <2>5, <2>6 DEF QueuePlaceInv, Placed
  <2> QED
    BY <2>1, <2>7 DEF SuccessMeansAnswer
<1>3. ASSUME NEW q \in Queries, Return(q) \/ Cancelled(q) PROVE QueuePlaceInv' /\ SuccessMeansAnswer'
  <2>1. /\ caller' = [caller EXCEPT ![q] = "gone"]
        /\ UNCHANGED <<enqueued, queue, inProgress, completed, error, answered, noSni>>
    BY <1>3 DEF Return, Cancelled, queryVars
  <2>2. \A p \in Queries : caller[p] # "idle" => caller'[p] # "idle"
    BY <1>1, <2>1
  <2> QED
    BY <1>1, <2>1, <2>2 DEF QueuePlaceInv, Placed, SuccessMeansAnswer
<1>4. CASE Enqueue
  <2>1. /\ enqueued # <<>> /\ enqueued' = Tail(enqueued)
        /\ StartQuery(Append(queue, Head(enqueued)), inProgress, left, waiting)
        /\ UNCHANGED <<caller, completed, error, answered, noSni>>
    BY <1>4 DEF Enqueue, queryVars
  <2> DEFINE head == Head(enqueued)
  <2> DEFINE rest == Tail(enqueued)
  <2> DEFINE pending == Append(queue, head)
  <2>2. /\ head = enqueued[1] /\ 1 \in 1..Len(enqueued)
        /\ \A k \in 1..Len(rest) : rest[k] = enqueued[k + 1] /\ k + 1 \in 1..Len(enqueued) /\ k + 1 # 1
    BY <1>1, <2>1, FirstTaken
  <2>3. head \in Queries /\ rest \in Seq(Queries) /\ pending \in Seq(Queries)
    BY <1>1, <2>1
  <2>4. /\ Len(pending) = Len(queue) + 1
        /\ pending[Len(queue) + 1] = head
        /\ \A k \in 1..Len(queue) : pending[k] = queue[k]
        /\ \A k \in 1..Len(pending) : k \in 1..Len(queue) \/ k = Len(queue) + 1
    BY <1>1, <2>3, AddLast
  <2> HIDE DEF head, rest, pending
  <2>5. Distinct(rest)
    BY <2>2 DEF QueuePlaceInv, Placed, Distinct
  <2>6. \A k \in 1..Len(queue) : queue[k] # head
    BY <2>2 DEF QueuePlaceInv, Placed
  <2>7. Distinct(pending)
    BY <2>4, <2>6 DEF QueuePlaceInv, Placed, Distinct
  <2>8. \A k \in 1..Len(pending) : /\ caller[pending[k]] # "idle"
                                   /\ pending[k] # inProgress
                                   /\ pending[k] \notin completed
    BY <2>2, <2>4 DEF QueuePlaceInv, Placed
  <2>9. \A j \in 1..Len(rest) : rest[j] # head
    BY <2>2 DEF QueuePlaceInv, Placed, Distinct
  <2>10. \A j \in 1..Len(rest) : /\ caller[rest[j]] # "idle"
                                 /\ rest[j] # inProgress
                                 /\ rest[j] \notin completed
                                 /\ \A k \in 1..Len(pending) : rest[j] # pending[k]
    <3> SUFFICES ASSUME NEW j \in 1..Len(rest)
                 PROVE  /\ caller[rest[j]] # "idle"
                        /\ rest[j] # inProgress
                        /\ rest[j] \notin completed
                        /\ \A k \in 1..Len(pending) : rest[j] # pending[k]
      OBVIOUS
    <3>1. rest[j] = enqueued[j + 1] /\ j + 1 \in 1..Len(enqueued)
      BY <2>2
    <3>2. /\ caller[rest[j]] # "idle"
          /\ rest[j] # inProgress
          /\ rest[j] \notin completed
          /\ \A k \in 1..Len(queue) : rest[j] # queue[k]
      BY <3>1 DEF QueuePlaceInv, Placed
    <3>3. \A k \in 1..Len(pending) : rest[j] # pending[k]
      BY <2>4, <2>9, <3>2
    <3> QED
      BY <3>2, <3>3
  <2>11. Placed(caller, rest, pending, inProgress, completed)
    BY <2>5, <2>7, <2>8, <2>10 DEF QueuePlaceInv, Placed
  <2>12. Placed(caller, rest, queue', inProgress', completed)
    BY <2>1, <2>3, <2>11, StartPlaces DEF head, rest, pending
  <2> QED
    BY <2>1, <2>12 DEF QueuePlaceInv, SuccessMeansAnswer, rest
<1>5. CASE TimerHandler
  <2>1. /\ StartQuery(queue, inProgress, left, waiting)
        /\ UNCHANGED <<caller, enqueued, completed, error, answered, noSni>>
    BY <1>5 DEF TimerHandler, queryVars
  <2>2. Placed(caller, enqueued, queue', inProgress', completed)
    BY <1>1, <2>1, StartPlaces DEF QueuePlaceInv
  <2> QED
    BY <2>1, <2>2 DEF QueuePlaceInv, SuccessMeansAnswer
<1>6. CASE Tick \/ TimerFires \/ UNCHANGED httpVars
  <2>1. UNCHANGED <<caller, enqueued, queue, inProgress, completed, error, answered, noSni>>
    BY <1>6 DEF Tick, TimerFires, httpVars, queryVars
  <2> QED
    BY <2>1 DEF QueuePlaceInv, Placed, SuccessMeansAnswer
<1>7. CASE Performed
  <2>1. inProgress # NoQuery
    BY <1>7 DEF Performed, QueueInv, HttpTypeOK
  <2> QED
    BY <1>7, <2>1, StageAnswers DEF Performed
<1>8. ASSUME NEW failed \in BOOLEAN, NEW sniFails \in BOOLEAN, ResolveCompleted(failed, sniFails)
      PROVE  QueuePlaceInv' /\ SuccessMeansAnswer'
  <2>1. inProgress # NoQuery
    BY <1>8 DEF ResolveCompleted, QueueInv, HttpTypeOK
  <2>2. /\ UNCHANGED <<caller, enqueued>>
        /\ answered \ {inProgress} \subseteq answered'
        /\ noSni \ {inProgress} \subseteq noSni'
    BY <1>8 DEF ResolveCompleted
  <2>3. CASE failed \/ sniFails
    <3>1. Complete(failed) /\ (~failed => inProgress \in noSni')
      BY <1>8, <2>3 DEF ResolveCompleted
    <3> QED
      BY <2>1, <2>2, <3>1, StageAnswers
  <2>4. CASE ~(failed \/ sniFails)
    BY <1>8, <2>1, <2>2, <2>4, StageAnswers DEF ResolveCompleted
  <2> QED
    BY <2>3, <2>4
<1>9. ASSUME NEW failed \in BOOLEAN,
             ConnectCompleted(failed) \/ HandshakeCompleted(failed) \/ WriteCompleted(failed)
      PROVE  QueuePlaceInv' /\ SuccessMeansAnswer'
  <2>1. inProgress # NoQuery
    BY <1>9 DEF ConnectCompleted, HandshakeCompleted, WriteCompleted, QueueInv, HttpTypeOK
  <2>2. UNCHANGED <<caller, enqueued, answered, noSni>>
    BY <1>9 DEF ConnectCompleted, HandshakeCompleted, WriteCompleted
  <2>3. (failed /\ Complete(failed)) \/ \E next : NextStage(next)
    BY <1>9 DEF ConnectCompleted, HandshakeCompleted, WriteCompleted
  <2> QED
    BY <2>1, <2>2, <2>3, StageAnswers
<1>10. ASSUME NEW outcome \in {"final", "found"}, NEW target \in Urls, ReadCompleted(outcome, target)
       PROVE  QueuePlaceInv' /\ SuccessMeansAnswer'
  <2>1. inProgress # NoQuery
    BY <1>10 DEF ReadCompleted, QueueInv, HttpTypeOK
  <2>2. UNCHANGED <<caller, enqueued, noSni>> /\ answered' = answered \cup {inProgress}
    BY <1>10 DEF ReadCompleted
  <2>3. Complete(FALSE) /\ inProgress \in answered'
    BY <1>10, <2>2 DEF ReadCompleted
  <2> QED
    BY <2>1, <2>2, <2>3, StageAnswers
<1>11. CASE ReadFailed
  <2>1. inProgress # NoQuery
    BY <1>11 DEF ReadFailed, QueueInv, HttpTypeOK
  <2>2. UNCHANGED <<caller, enqueued, answered, noSni>> /\ Complete(TRUE)
    BY <1>11 DEF ReadFailed
  <2> QED
    BY <2>1, <2>2, StageAnswers
<1> QED
  BY <1>2, <1>3, <1>4, <1>5, <1>6, <1>7, <1>8, <1>9, <1>10, <1>11, HttpCases

(* A query that completed without an error was answered by the server it   *)
(* was sent to last, unless the SSL stream refused the host's name.        *)
THEOREM SuccessIsAnswered == HttpSpec => []SuccessMeansAnswer
<1>1. AnswerInv => SuccessMeansAnswer
  BY DEF AnswerInv
<1> QED
  BY <1>1, AnswerInit, AnswerStep, PTL DEF HttpSpec

-----------------------------------------------------------------------------
(* Login                                                                   *)

Active == {"wait", "begin", "guard", "poll", "sleep"}

(* A login module that is past a request has what the request took, and    *)
(* nothing refused is kept anywhere it could be taken from.                *)
SecretsInv ==
  \A a \in Accounts :
    /\ creds[a] \cap refusedSecrets[a] = {}
    /\ fiber[a] \in {"begin", "guard", "poll", "sleep"} => "password" \in creds[a]
    /\ fiber[a] = "guard" => "code" \in creds[a] /\ method[a] \in {"DeviceCode", "EmailCode"}
    /\ AwaitsLogon(a) => token[a]
    /\ "token" \in refusedSecrets[a] => ~file[a]
    /\ fiber[a] \in Active /\ token[a] => "token" \notin refusedSecrets[a]

-----------------------------------------------------------------------------
(* The steps of Next by name.                                              *)
LEMMA LoginCases ==
  ASSUME [LoginNext]_authVars
  PROVE  \/ \E a \in Accounts :
              \/ Launch(a) \/ ClientEnds(a) \/ ClientRestarts(a)
              \/ LogonWithToken(a) \/ LackPassword(a) \/ StartAuthSession(a)
              \/ \E allowed \in (SUBSET Methods) \ {{}} : SessionBegun(a, allowed)
              \/ GuardAccepted(a) \/ GuardRefused(a)
              \/ PollSucceeds(a) \/ PollAgain(a) \/ SleepOver(a)
              \/ RequestUnavailable(a) \/ InvalidPassword(a)
              \/ LoggedIn(a) \/ LoginFailed(a) \/ LogonUnavailable(a)
              \/ Answer(a)
         \/ Terminate
         \/ Communicate \/ MainWakes \/ SessionsLaunched \/ InputsHandled \/ ShowPrompt
         \/ \E grows \in BOOLEAN : LaunchSession(grows)
         \/ \E k \in 1..Len(sessions) : HandleInput(k)
         \/ UNCHANGED authVars
BY DEF LoginNext, Client, ModuleStep, SessionThread, NoConfirmation, PollFails, RequestFails, LogonAsserts

(* getConfirmationType() returns a type that it knows.                     *)
LEMMA PreferredType ==
  ASSUME NEW allowed \in (SUBSET Methods) \ {{}}
  PROVE  Preferred(allowed) \in Methods
<1> DEFINE First(k) == /\ Confirmations[k] \in allowed
                       /\ \A j \in 1..(k - 1) : Confirmations[j] \notin allowed
<1>1. Methods = {"None", "DeviceConfirmation", "DeviceCode", "EmailCode"}
  BY DEF Methods, Confirmations, Range
<1>2. Len(Confirmations) = 4
  BY DEF Confirmations
<1>3. \E k \in 1..4 : First(k)
  <2>1. CASE "None" \in allowed
    BY <2>1 DEF Confirmations
  <2>2. CASE "None" \notin allowed /\ "DeviceConfirmation" \in allowed
    <3>1. First(2)
      BY <2>2 DEF Confirmations
    <3> QED
      BY <3>1
  <2>3. CASE "None" \notin allowed /\ "DeviceConfirmation" \notin allowed /\ "DeviceCode" \in allowed
    <3>1. First(3)
      BY <2>3 DEF Confirmations
    <3> QED
      BY <3>1
  <2>4. CASE "None" \notin allowed /\ "DeviceConfirmation" \notin allowed /\ "DeviceCode" \notin allowed
    <3>1. First(4)
      BY <1>1, <2>4 DEF Confirmations
    <3> QED
      BY <3>1
  <2> QED
    BY <2>1, <2>2, <2>3, <2>4
<1>4. \E k \in 1..Len(Confirmations) : First(k)
  BY <1>2, <1>3
<1>5. First(CHOOSE k \in 1..Len(Confirmations) : First(k))
  BY <1>4
<1> QED
  BY <1>5, <1>1 DEF Preferred

LEMMA UpdateType ==
  ASSUME NEW S, NEW f \in [Accounts -> SUBSET S], NEW a \in Accounts, NEW e
  PROVE  /\ e \in S => [f EXCEPT ![a] = @ \cup {e}] \in [Accounts -> SUBSET S]
         /\ [f EXCEPT ![a] = @ \ {e}] \in [Accounts -> SUBSET S]
         /\ [f EXCEPT ![a] = {}] \in [Accounts -> SUBSET S]
OBVIOUS

LEMMA ElementType ==
  ASSUME NEW S, NEW s \in Seq(S), NEW k \in 1..Len(s)
  PROVE  s[k] \in S
OBVIOUS

(* erase() keeps the types.                                                *)
LEMMA EraseType ==
  ASSUME NEW S, NEW s \in Seq(S), NEW k \in 1..Len(s)
  PROVE  EraseAt(s, k) \in Seq(S)
BY DEF EraseAt, Front, Last

LEMMA WithdrawType ==
  ASSUME LoginTypeOK, NEW as
  PROVE  Withdraw(prompt, as) \in [Accounts -> {"none", "queued", "open", "answered", "withdrawn"}]
BY DEF LoginTypeOK, Withdraw

LEMMA InitType == LoginInit => LoginTypeOK
<1> SUFFICES ASSUME LoginInit PROVE LoginTypeOK
  OBVIOUS
<1>1. threadQueue \in Seq(Accounts) /\ fiberQueue \in Seq(Accounts) /\ uiQueue \in Seq(Accounts)
      /\ sessions \in Seq([account : Accounts, type : Secrets])
  BY DEF LoginInit
<1> QED
  BY <1>1 DEF LoginInit, LoginTypeOK

LEMMA NextType == LoginTypeOK /\ [LoginNext]_authVars => LoginTypeOK'
<1> SUFFICES ASSUME LoginTypeOK, [LoginNext]_authVars PROVE LoginTypeOK'
  OBVIOUS
<1> USE DEF LoginTypeOK
<1>0. {"password", "code"} \subseteq Secrets
  BY DEF Secrets
<1>1. ASSUME NEW a \in Accounts, Launch(a) \/ ClientRestarts(a) PROVE LoginTypeOK'
  BY <1>1, ZenonT(30) DEF Launch, ClientRestarts, StartClient, threadVars, uiVars
<1>2. ASSUME NEW a \in Accounts, ClientEnds(a) PROVE LoginTypeOK'
  BY <1>2 DEF ClientEnds, threadVars, uiVars
<1>3. ASSUME NEW a \in Accounts, LogonWithToken(a) \/ StartAuthSession(a) PROVE LoginTypeOK'
  BY <1>3 DEF LogonWithToken, StartAuthSession, WakeConnected, DoLogon, threadVars, uiVars
<1>4. ASSUME NEW a \in Accounts, LackPassword(a) PROVE LoginTypeOK'
  BY <1>4 DEF LackPassword, WakeConnected, RunSession, QuitClient, uiVars
<1>5. ASSUME NEW a \in Accounts, NEW type \in Methods, NEW s, RequestCode(a, type, s)
      PROVE  /\ client' \in [Accounts -> {"none", "running", "quitting", "restarting"}]
             /\ fiber' \in [Accounts -> {"none", "wait", "begin", "guard", "poll", "sleep", "ended"}]
             /\ threadQueue' \in Seq(Accounts)
             /\ main' \in {"off", "wait", "launch", "handle"}
             /\ UNCHANGED <<fiberQueue, sessions, signal>>
  <2>1. CASE RunSession(a)
    BY <2>1 DEF RunSession, QuitClient
  <2>2. CASE fiber' \in {[fiber EXCEPT ![a] = "poll"], [fiber EXCEPT ![a] = "guard"]} /\ UNCHANGED <<client, threadVars>>
    BY <2>2 DEF threadVars
  <2> QED
    BY <1>0, <1>5, <2>1, <2>2 DEF RequestCode
<1>6. ASSUME NEW a \in Accounts, NEW allowed \in (SUBSET Methods) \ {{}}, SessionBegun(a, allowed)
      PROVE  LoginTypeOK'
  <2>1. Preferred(allowed) \in Methods
    BY PreferredType
  <2> QED
    BY <1>0, <1>5, <1>6, <2>1 DEF SessionBegun, uiVars
<1>7. ASSUME NEW a \in Accounts, GuardRefused(a) PROVE LoginTypeOK'
  <2>1. CASE RunSession(a)
    BY <1>0, <1>7, <2>1 DEF GuardRefused, RunSession, QuitClient, uiVars
  <2>2. CASE /\ fiber' \in {[fiber EXCEPT ![a] = "poll"], [fiber EXCEPT ![a] = "guard"]}
             /\ UNCHANGED <<client, threadVars>>
    <3>1. fiber' \in [Accounts -> {"none", "wait", "begin", "guard", "poll", "sleep", "ended"}]
      BY <2>2
    <3>2. /\ creds' = [creds EXCEPT ![a] = @ \ {"code"}]
          /\ refusedSecrets' = [refusedSecrets EXCEPT ![a] = @ \cup {"code"}]
          /\ UNCHANGED <<loginStatus, method, token, file, uiVars, terminated, ignored>>
      BY <1>7 DEF GuardRefused
    <3>3. /\ creds' \in [Accounts -> SUBSET Secrets]
          /\ refusedSecrets' \in [Accounts -> SUBSET (Secrets \cup {"token"})]
      BY <1>0, <3>2
    <3>4. QED
      BY <2>2, <3>1, <3>2, <3>3 DEF threadVars, uiVars
  <2>3. RequestCode(a, method[a], creds'[a])
    BY <1>0, <1>7 DEF GuardRefused
  <2> QED
    BY <2>1, <2>2, <2>3 DEF RequestCode
<1>8. ASSUME NEW a \in Accounts, GuardAccepted(a) \/ SleepOver(a) PROVE LoginTypeOK'
  BY <1>0, <1>8 DEF GuardAccepted, SleepOver, threadVars, uiVars
<1>9. ASSUME NEW a \in Accounts, PollSucceeds(a) \/ PollAgain(a) PROVE LoginTypeOK'
  <2>2. CASE PollSucceeds(a)
    <3>1. creds' \in [Accounts -> SUBSET Secrets]
      BY <2>2, UpdateType DEF PollSucceeds, DoLogon
    <3>2. refusedSecrets' \in [Accounts -> SUBSET (Secrets \cup {"token"})]
      BY <2>2, UpdateType DEF PollSucceeds
    <3> QED
      BY <2>2, <3>1, <3>2 DEF PollSucceeds, DoLogon, threadVars, uiVars
  <2>3. CASE PollAgain(a)
    BY <2>3 DEF PollAgain, threadVars, uiVars
  <2> QED
    BY <1>9, <2>2, <2>3
<1>10. ASSUME NEW a \in Accounts, RequestUnavailable(a) \/ InvalidPassword(a) \/ LogonUnavailable(a)
       PROVE  LoginTypeOK'
  <2>2. CASE RequestUnavailable(a) \/ LogonUnavailable(a)
    BY <2>2, ZenonT(30) DEF RequestUnavailable, LogonUnavailable, QuitClient, threadVars, uiVars
  <2>3. CASE InvalidPassword(a)
    <3>1. "password" \in Secrets \cup {"token"}
      BY <1>0
    <3>2. creds' \in [Accounts -> SUBSET Secrets]
      BY <2>3, UpdateType DEF InvalidPassword
    <3>3. refusedSecrets' \in [Accounts -> SUBSET (Secrets \cup {"token"})]
      BY <2>3, <3>1, UpdateType DEF InvalidPassword
    <3> QED
      BY <2>3, <3>2, <3>3 DEF InvalidPassword, QuitClient, threadVars, uiVars
  <2> QED
    BY <1>10, <2>2, <2>3
<1>11. ASSUME NEW a \in Accounts, LoggedIn(a) \/ LoginFailed(a) PROVE LoginTypeOK'
  <2>1. refusedSecrets' \in [Accounts -> SUBSET (Secrets \cup {"token"})]
    <3>1. "token" \in Secrets \cup {"token"}
      OBVIOUS
    <3> QED
      BY <1>11, <3>1, UpdateType DEF LoggedIn, LoginFailed
  <2>2. CASE LoggedIn(a)
    BY <2>2 DEF LoggedIn, threadVars, uiVars
  <2>3. CASE LoginFailed(a)
    BY <2>1, <2>3 DEF LoginFailed, QuitClient, threadVars, uiVars
  <2> QED
    BY <1>11, <2>2, <2>3
<1>12. ASSUME NEW a \in Accounts, Answer(a) PROVE LoginTypeOK'
  BY <1>12 DEF Answer, loginVars, threadVars
<1>13. CASE Terminate
  BY <1>13 DEF Terminate, loginVars, threadVars, uiVars
<1>14. CASE Communicate
  BY <1>14 DEF Communicate, loginVars, uiVars
<1>15. CASE MainWakes \/ SessionsLaunched \/ InputsHandled
  BY <1>15 DEF MainWakes, SessionsLaunched, InputsHandled, loginVars, uiVars
<1>16. CASE ShowPrompt
  BY <1>16 DEF ShowPrompt, loginVars, threadVars
<1>17. ASSUME NEW grows \in BOOLEAN, LaunchSession(grows) PROVE LoginTypeOK'
  <2> DEFINE type == IF "password" \notin creds[Head(fiberQueue)] THEN "password" ELSE "code"
  <2>1. Head(fiberQueue) \in Accounts /\ Tail(fiberQueue) \in Seq(Accounts)
    BY <1>17 DEF LaunchSession
  <2>2. [account |-> Head(fiberQueue), type |-> type] \in [account : Accounts, type : Secrets]
    BY <2>1 DEF Secrets
  <2>3. sessions' \in Seq([account : Accounts, type : Secrets]) /\ uiQueue' \in Seq(Accounts)
    BY <1>17, <2>1, <2>2 DEF LaunchSession
  <2>4. prompt' \in [Accounts -> {"none", "queued", "open", "answered", "withdrawn"}]
    <3>1. (IF grows THEN Withdraw(prompt, AccountsOf(sessions)) ELSE prompt)
            \in [Accounts -> {"none", "queued", "open", "answered", "withdrawn"}]
      BY WithdrawType
    <3> QED
      BY <1>17, <2>1, <3>1 DEF LaunchSession
  <2> QED
    BY <1>17, <2>1, <2>3, <2>4 DEF LaunchSession, loginVars
<1>18. ASSUME NEW k \in 1..Len(sessions), HandleInput(k) PROVE LoginTypeOK'
  <2>1. sessions[k].account \in Accounts /\ sessions[k].type \in Secrets
    <3>1. sessions[k] \in [account : Accounts, type : Secrets]
      BY ElementType
    <3> QED
      BY <3>1
  <2>2. sessions' \in Seq([account : Accounts, type : Secrets])
    BY <1>18, EraseType DEF HandleInput
  <2>3. prompt' \in [Accounts -> {"none", "queued", "open", "answered", "withdrawn"}]
    BY <1>18, <2>1, WithdrawType DEF HandleInput
  <2>4. creds' \in [Accounts -> SUBSET Secrets] /\ refusedSecrets' \in [Accounts -> SUBSET (Secrets \cup {"token"})]
    BY <1>18, <2>1 DEF HandleInput
  <2>5. /\ client' \in [Accounts -> {"none", "running", "quitting", "restarting"}]
        /\ loginStatus' \in [Accounts -> {"LoggedOut", "LoggingIn", "LoggedIn"}]
        /\ fiber' \in [Accounts -> {"none", "wait", "begin", "guard", "poll", "sleep", "ended"}]
        /\ method' \in [Accounts -> Methods \cup {"Unknown"}]
        /\ token' \in [Accounts -> BOOLEAN]
        /\ file' \in [Accounts -> BOOLEAN]
        /\ ignored' \in BOOLEAN
    <3>1. CASE StartClient(sessions[k].account) /\ UNCHANGED ignored
      BY <2>1, <3>1 DEF StartClient
    <3>2. CASE ignored' = TRUE /\ UNCHANGED <<client, loginVars>>
      BY <3>2 DEF loginVars
    <3> QED
      BY <1>18, <3>1, <3>2 DEF HandleInput
  <2> QED
    BY <1>18, <2>2, <2>3, <2>4, <2>5 DEF HandleInput
<1>19. CASE UNCHANGED authVars
  BY <1>19 DEF authVars, loginVars, threadVars, uiVars
<1> QED
  BY <1>1, <1>2, <1>3, <1>4, <1>6, <1>7, <1>8, <1>9, <1>10, <1>11, <1>12, <1>13, <1>14, <1>15,
     <1>16, <1>17, <1>18, <1>19, LoginCases

(* The types hold in every state.                                          *)
THEOREM LoginIsTyped == LoginSpec => []LoginTypeOK
BY InitType, NextType, PTL DEF LoginSpec

-----------------------------------------------------------------------------
LEMMA InitSecrets == LoginInit => SecretsInv
BY DEF LoginInit, SecretsInv, AwaitsLogon, Active

(* What a new client reads from the file has not been refused.             *)
LEMMA NewClientSecrets ==
  ASSUME LoginTypeOK, SecretsInv, NEW b \in Accounts, StartClient(b), UNCHANGED <<creds, refusedSecrets>>
  PROVE  SecretsInv'
<1> SUFFICES ASSUME NEW c \in Accounts PROVE SecretsInv!(c)'
  BY DEF SecretsInv
<1> QED
  BY DEF LoginTypeOK, SecretsInv, StartClient, AwaitsLogon, Active

LEMMA NextSecrets == LoginTypeOK /\ SecretsInv /\ [LoginNext]_authVars => SecretsInv'
<1> SUFFICES ASSUME LoginTypeOK, SecretsInv, [LoginNext]_authVars PROVE SecretsInv'
  OBVIOUS
<1> USE DEF SecretsInv, AwaitsLogon, Active, LoginTypeOK
<1>1. ASSUME NEW a \in Accounts, Launch(a) \/ ClientRestarts(a) PROVE SecretsInv'
  BY <1>1, NewClientSecrets DEF Launch, ClientRestarts
<1>2. ASSUME NEW a \in Accounts, ClientEnds(a) PROVE SecretsInv'
  BY <1>2 DEF ClientEnds
<1>3. ASSUME NEW a \in Accounts, LogonWithToken(a) PROVE SecretsInv'
  BY <1>3 DEF LogonWithToken, WakeConnected, DoLogon
<1>4. ASSUME NEW a \in Accounts, StartAuthSession(a) PROVE SecretsInv'
  BY <1>4 DEF StartAuthSession, WakeConnected
<1>5. ASSUME NEW a \in Accounts, LackPassword(a) PROVE SecretsInv'
  BY <1>5 DEF LackPassword, WakeConnected, RunSession, QuitClient
<1>6. ASSUME NEW a \in Accounts, NEW allowed \in (SUBSET Methods) \ {{}}, SessionBegun(a, allowed)
      PROVE  SecretsInv'
  <2>1. Preferred(allowed) \notin {"None", "DeviceConfirmation"} => Preferred(allowed) \in {"DeviceCode", "EmailCode"}
    BY PreferredType, SMTT(30) DEF Methods, Confirmations, Range
  <2>2. CASE RunSession(a)
    BY <1>6, <2>2 DEF SessionBegun, RunSession, QuitClient
  <2>3. CASE fiber' = [fiber EXCEPT ![a] = "poll"]
    BY <1>6, <2>3 DEF SessionBegun
  <2>4. CASE /\ fiber' = [fiber EXCEPT ![a] = "guard"]
             /\ "code" \in creds[a]
             /\ Preferred(allowed) \notin {"None", "DeviceConfirmation"}
    BY <1>6, <2>1, <2>4 DEF SessionBegun
  <2> QED
    BY <1>6, <2>2, <2>3, <2>4 DEF SessionBegun, RequestCode
<1>7. ASSUME NEW a \in Accounts, GuardRefused(a) PROVE SecretsInv'
  <2>1. "code" \notin creds'[a]
    BY <1>7 DEF GuardRefused
  <2>2. RunSession(a)
    BY <1>7, <2>1 DEF GuardRefused, RequestCode
  <2> QED
    BY <1>7, <2>2 DEF GuardRefused, RunSession, QuitClient
<1>8. ASSUME NEW a \in Accounts, GuardAccepted(a) \/ SleepOver(a) PROVE SecretsInv'
  BY <1>8 DEF GuardAccepted, SleepOver
<1>9. ASSUME NEW a \in Accounts, PollSucceeds(a) PROVE SecretsInv'
  BY <1>9 DEF PollSucceeds, DoLogon
<1>10. ASSUME NEW a \in Accounts, PollAgain(a) PROVE SecretsInv'
  BY <1>10 DEF PollAgain
<1>11. ASSUME NEW a \in Accounts, RequestUnavailable(a) \/ LogonUnavailable(a) PROVE SecretsInv'
  BY <1>11 DEF RequestUnavailable, LogonUnavailable, QuitClient
<1>12. ASSUME NEW a \in Accounts, InvalidPassword(a) PROVE SecretsInv'
  BY <1>12 DEF InvalidPassword, QuitClient
<1>13. ASSUME NEW a \in Accounts, LoggedIn(a) PROVE SecretsInv'
  BY <1>13 DEF LoggedIn
<1>14. ASSUME NEW a \in Accounts, LoginFailed(a) PROVE SecretsInv'
  <2>1. "token" \notin creds[a]
    BY SMTT(30) DEF Secrets
  <2> QED
    BY <1>14, <2>1 DEF LoginFailed, QuitClient
<1>15. CASE UNCHANGED <<loginVars, creds, refusedSecrets>>
  BY <1>15 DEF loginVars
<1>16. ASSUME NEW k \in 1..Len(sessions), HandleInput(k) PROVE SecretsInv'
  <2> DEFINE a == sessions[k].account
  <2>1. a \in Accounts
    <3>1. sessions[k] \in [account : Accounts, type : Secrets]
      BY ElementType
    <3> QED
      BY <3>1
  <2>2. \A c \in Accounts : /\ creds[c] \subseteq creds'[c]
                            /\ refusedSecrets'[c] \subseteq refusedSecrets[c]
                            /\ creds'[c] \cap refusedSecrets'[c] = {}
                            /\ "token" \in refusedSecrets'[c] <=> "token" \in refusedSecrets[c]
    <3>1. sessions[k].type \in Secrets /\ "token" \notin Secrets
      <4>1. sessions[k] \in [account : Accounts, type : Secrets]
        BY ElementType
      <4> QED
        BY <4>1 DEF Secrets
    <3> QED
      BY <1>16, <2>1, <3>1 DEF HandleInput
  <2>3. CASE UNCHANGED loginVars
    BY <2>2, <2>3 DEF loginVars
  <2>4. CASE StartClient(a)
    <3> SUFFICES ASSUME NEW c \in Accounts PROVE SecretsInv!(c)'
      OBVIOUS
    <3> QED
      BY <2>1, <2>2, <2>4 DEF StartClient
  <2> QED
    BY <1>16, <2>3, <2>4 DEF HandleInput
<1>17. CASE \/ Terminate \/ Communicate \/ MainWakes \/ SessionsLaunched \/ InputsHandled \/ ShowPrompt
            \/ (\E grows \in BOOLEAN : LaunchSession(grows))
            \/ (\E a \in Accounts : Answer(a))
            \/ UNCHANGED authVars
  <2>1. UNCHANGED <<loginVars, creds, refusedSecrets>>
    BY <1>17, Zenon DEF Terminate, Communicate, MainWakes, SessionsLaunched, InputsHandled, ShowPrompt,
                        LaunchSession, Answer, authVars
  <2> QED
    BY <1>15, <2>1
<1> QED
  BY <1>1, <1>2, <1>3, <1>4, <1>5, <1>6, <1>7, <1>8, <1>9, <1>10, <1>11, <1>12, <1>13, <1>14,
     <1>16, <1>17, LoginCases

(* Nothing the server has refused is sent to it again, whatever the user   *)
(* enters and however often the clients are started again.                 *)
THEOREM RefusedStaysRefused == LoginSpec => []RefusedIsNotResent
<1>1. SecretsInv => RefusedIsNotResent
  BY DEF SecretsInv, RefusedIsNotResent, AwaitsLogon, Active
<1> QED
  BY <1>1, InitType, InitSecrets, NextType, NextSecrets, PTL DEF LoginSpec

-----------------------------------------------------------------------------
(* A session is in one place, and its client does not run meanwhile.       *)
PlaceInv ==
  /\ IsInjective(threadQueue) /\ IsInjective(fiberQueue) /\ IsInjective(uiQueue)
  /\ \A i, j \in 1..Len(sessions) : sessions[i].account = sessions[j].account => i = j
  /\ Range(threadQueue) \cap Range(fiberQueue) = {}
  /\ Range(threadQueue) \cap AccountsOf(sessions) = {}
  /\ Range(fiberQueue) \cap AccountsOf(sessions) = {}
  /\ main = "off" => Asked = {}

AskedInv ==
  \A a \in Accounts :
    /\ fiber[a] \in Active \/ client[a] = "restarting" => a \notin Asked
    /\ a \in Range(threadQueue) \cup Range(fiberQueue) => creds[a] # Secrets
    /\ prompt[a] # "none" <=> a \in AccountsOf(sessions)
    /\ prompt[a] = "queued" <=> a \in Range(uiQueue)

(* Sequences without repetition stay so.                                   *)
LEMMA AppendNew ==
  ASSUME NEW S, NEW s \in Seq(S), NEW e \in S
  PROVE  /\ Range(Append(s, e)) = Range(s) \cup {e}
         /\ IsInjective(s) /\ e \notin Range(s) => IsInjective(Append(s, e))
<1>1. Append(s, e) \in Seq(S) /\ Len(Append(s, e)) = Len(s) + 1 /\ Append(s, e)[Len(s) + 1] = e
      /\ \A k \in 1..Len(s) : Append(s, e)[k] = s[k]
  OBVIOUS
<1>2. DOMAIN s = 1..Len(s) /\ DOMAIN Append(s, e) = 1..(Len(s) + 1) /\ Len(s) \in Nat
  OBVIOUS
<1>3. 1..(Len(s) + 1) = (1..Len(s)) \cup {Len(s) + 1}
  BY <1>2
<1>4. Range(Append(s, e)) = Range(s) \cup {e}
  BY <1>1, <1>2, <1>3 DEF Range
<1>5. ASSUME IsInjective(s), e \notin Range(s) PROVE IsInjective(Append(s, e))
  BY <1>1, <1>2, <1>3, <1>5 DEF IsInjective, Range
<1> QED
  BY <1>4, <1>5

LEMMA ConcatDisjoint ==
  ASSUME NEW S, NEW s \in Seq(S), NEW t \in Seq(S)
  PROVE  /\ Range(s \o t) = Range(s) \cup Range(t)
         /\ IsInjective(s) /\ IsInjective(t) /\ Range(s) \cap Range(t) = {} => IsInjective(s \o t)
<1>1. /\ s \o t \in Seq(S)
      /\ Len(s \o t) = Len(s) + Len(t)
      /\ \A k \in 1..Len(s) : (s \o t)[k] = s[k]
      /\ \A k \in (Len(s) + 1)..(Len(s) + Len(t)) : (s \o t)[k] = t[k - Len(s)]
  OBVIOUS
<1>2. DOMAIN s = 1..Len(s) /\ DOMAIN t = 1..Len(t) /\ DOMAIN (s \o t) = 1..(Len(s) + Len(t))
      /\ Len(s) \in Nat /\ Len(t) \in Nat
  OBVIOUS
<1>3. \A k \in 1..(Len(s) + Len(t)) :
        k \notin 1..Len(s) => (k \in (Len(s) + 1)..(Len(s) + Len(t)) /\ k - Len(s) \in 1..Len(t))
  BY <1>2
<1>4. \A k \in 1..Len(t) : /\ k + Len(s) \in (Len(s) + 1)..(Len(s) + Len(t))
                            /\ k + Len(s) \in 1..(Len(s) + Len(t))
                            /\ (k + Len(s)) - Len(s) = k
  BY <1>2
<1>5. 1..Len(s) \subseteq 1..(Len(s) + Len(t))
  BY <1>2
<1>6. Range(s \o t) \subseteq Range(s) \cup Range(t)
  BY <1>1, <1>2, <1>3 DEF Range
<1>7. Range(s) \subseteq Range(s \o t)
  BY <1>1, <1>2, <1>5 DEF Range
<1>8. Range(t) \subseteq Range(s \o t)
  <2> SUFFICES ASSUME NEW k \in 1..Len(t) PROVE t[k] \in Range(s \o t)
    BY <1>2 DEF Range
  <2>1. (s \o t)[k + Len(s)] = t[k]
    BY <1>1, <1>4
  <2> QED
    BY <1>2, <1>4, <2>1 DEF Range
<1>9. ASSUME IsInjective(s), IsInjective(t), Range(s) \cap Range(t) = {} PROVE IsInjective(s \o t)
  <2> SUFFICES ASSUME NEW i \in 1..(Len(s) + Len(t)), NEW j \in 1..(Len(s) + Len(t)), (s \o t)[i] = (s \o t)[j]
               PROVE  i = j
    BY <1>2 DEF IsInjective
  <2>1. CASE i \in 1..Len(s) /\ j \in 1..Len(s)
    BY <1>1, <1>2, <1>9, <2>1 DEF IsInjective
  <2>2. CASE i \notin 1..Len(s) /\ j \notin 1..Len(s)
    <3>1. t[i - Len(s)] = t[j - Len(s)] /\ i - Len(s) \in 1..Len(t) /\ j - Len(s) \in 1..Len(t)
      BY <1>1, <1>3, <2>2
    <3>2. i - Len(s) = j - Len(s)
      BY <1>2, <1>9, <3>1 DEF IsInjective
    <3> QED
      BY <1>2, <3>2
  <2>3. CASE i \in 1..Len(s) /\ j \notin 1..Len(s)
    <3>1. s[i] = t[j - Len(s)] /\ j - Len(s) \in 1..Len(t)
      BY <1>1, <1>3, <2>3
    <3> QED
      BY <1>2, <1>9, <2>3, <3>1 DEF Range
  <2>4. CASE i \notin 1..Len(s) /\ j \in 1..Len(s)
    <3>1. s[j] = t[i - Len(s)] /\ i - Len(s) \in 1..Len(t)
      BY <1>1, <1>3, <2>4
    <3> QED
      BY <1>2, <1>9, <2>4, <3>1 DEF Range
  <2> QED
    BY <2>1, <2>2, <2>3, <2>4
<1> QED
  BY <1>6, <1>7, <1>8, <1>9

LEMMA HeadTaken ==
  ASSUME NEW S, NEW s \in Seq(S), s # <<>>
  PROVE  /\ Head(s) \in S /\ Tail(s) \in Seq(S)
         /\ Range(s) = {Head(s)} \cup Range(Tail(s))
         /\ IsInjective(s) => IsInjective(Tail(s)) /\ Head(s) \notin Range(Tail(s))
<1>1. /\ Head(s) = s[1] /\ Head(s) \in S /\ Tail(s) \in Seq(S)
      /\ Len(s) \in Nat \ {0} /\ Len(Tail(s)) = Len(s) - 1
      /\ \A k \in 1..(Len(s) - 1) : Tail(s)[k] = s[k + 1]
  OBVIOUS
<1>2. DOMAIN s = 1..Len(s) /\ DOMAIN Tail(s) = 1..(Len(s) - 1)
  BY <1>1
<1>3. \A k \in 1..(Len(s) - 1) : k + 1 \in 1..Len(s) /\ k + 1 # 1
  BY <1>1
<1>4. \A k \in 1..Len(s) : k = 1 \/ (k - 1 \in 1..(Len(s) - 1) /\ (k - 1) + 1 = k)
  BY <1>1
<1>5. 1 \in 1..Len(s)
  BY <1>1
<1>6. Range(s) = {Head(s)} \cup Range(Tail(s))
  <2>1. Range(s) \subseteq {Head(s)} \cup Range(Tail(s))
    <3> SUFFICES ASSUME NEW k \in 1..Len(s) PROVE s[k] \in {Head(s)} \cup Range(Tail(s))
      BY <1>2 DEF Range
    <3>1. CASE k = 1
      BY <1>1, <3>1
    <3>2. CASE k # 1
      <4>1. Tail(s)[k - 1] = s[k] /\ k - 1 \in DOMAIN Tail(s)
        BY <1>1, <1>2, <1>4, <3>2
      <4> QED
        BY <4>1 DEF Range
    <3> QED
      BY <3>1, <3>2
  <2>2. {Head(s)} \cup Range(Tail(s)) \subseteq Range(s)
    BY <1>1, <1>2, <1>3, <1>5 DEF Range
  <2> QED
    BY <2>1, <2>2
<1>7. ASSUME IsInjective(s) PROVE IsInjective(Tail(s)) /\ Head(s) \notin Range(Tail(s))
  <2>1. ASSUME NEW i \in 1..(Len(s) - 1), NEW j \in 1..(Len(s) - 1), Tail(s)[i] = Tail(s)[j] PROVE i = j
    <3>1. s[i + 1] = s[j + 1] /\ i + 1 \in DOMAIN s /\ j + 1 \in DOMAIN s
      BY <1>1, <1>2, <1>3, <2>1
    <3>2. i + 1 = j + 1
      BY <1>7, <3>1 DEF IsInjective
    <3> QED
      BY <1>1, <3>2
  <2>2. ASSUME NEW i \in 1..(Len(s) - 1), Tail(s)[i] = Head(s) PROVE FALSE
    <3>1. s[i + 1] = s[1] /\ i + 1 \in DOMAIN s /\ 1 \in DOMAIN s
      BY <1>1, <1>2, <1>3, <1>5, <2>2
    <3>2. i + 1 = 1
      BY <1>7, <3>1 DEF IsInjective
    <3> QED
      BY <1>3, <3>2
  <2> QED
    BY <1>2, <2>1, <2>2 DEF IsInjective, Range
<1> QED
  BY <1>1, <1>6, <1>7

LEMMA EraseElements ==
  ASSUME NEW S, NEW s \in Seq(S), NEW k \in 1..Len(s)
  PROVE  /\ Len(EraseAt(s, k)) = Len(s) - 1
         /\ \A i \in 1..(Len(s) - 1) : EraseAt(s, k)[i] = IF i = k THEN s[Len(s)] ELSE s[i]
<1>1. ASSUME NEW t \in Seq(S), Len(t) = Len(s)
      PROVE  /\ Len(SubSeq(t, 1, Len(t) - 1)) = Len(s) - 1
             /\ \A i \in 1..(Len(s) - 1) : SubSeq(t, 1, Len(t) - 1)[i] = t[i]
  BY <1>1
<1>2. CASE k = Len(s)
  <2>1. EraseAt(s, k) = SubSeq(s, 1, Len(s) - 1)
    BY <1>2 DEF EraseAt, Front
  <2> QED
    BY <1>1, <1>2, <2>1
<1>3. CASE k # Len(s)
  <2> DEFINE t == [s EXCEPT ![k] = s[Len(s)]]
  <2>1. t \in Seq(S) /\ Len(t) = Len(s) /\ \A i \in 1..Len(s) : t[i] = IF i = k THEN s[Len(s)] ELSE s[i]
    OBVIOUS
  <2>2. EraseAt(s, k) = SubSeq(t, 1, Len(t) - 1)
    BY <1>3 DEF EraseAt, Front, Last
  <2> HIDE DEF t
  <2> QED
    BY <1>1, <2>1, <2>2
<1> QED
  BY <1>2, <1>3

(* erase() removes the one account.                                        *)
LEMMA EraseOne ==
  ASSUME NEW s \in Seq([account : Accounts, type : Secrets]), NEW k \in 1..Len(s),
         \A i, j \in 1..Len(s) : s[i].account = s[j].account => i = j
  PROVE  LET r == EraseAt(s, k)
         IN  /\ AccountsOf(r) = AccountsOf(s) \ {s[k].account}
             /\ \A i, j \in 1..Len(r) : r[i].account = r[j].account => i = j
<1> DEFINE r == EraseAt(s, k)
           n == Len(s)
<1>1. n \in Nat \ {0} /\ k \in 1..n
  OBVIOUS
<1>2. Len(r) = n - 1 /\ \A i \in 1..(n - 1) : r[i] = IF i = k THEN s[n] ELSE s[i]
  BY EraseElements
<1>3. \A i \in 1..(n - 1) : i \in 1..n /\ i # n
  BY <1>1
<1>4. \A i \in 1..n : i = n \/ i \in 1..(n - 1)
  BY <1>1
<1>5. n \in 1..n
  BY <1>1
<1> HIDE DEF r, n
<1>6. AccountsOf(r) = {r[i].account : i \in 1..(n - 1)} /\ AccountsOf(s) = {s[i].account : i \in 1..n}
  BY <1>2 DEF AccountsOf, n
<1>7. \A i, j \in 1..n : s[i].account = s[j].account => i = j
  BY DEF n
<1>8. AccountsOf(r) \subseteq AccountsOf(s) \ {s[k].account}
  <2> SUFFICES ASSUME NEW i \in 1..(n - 1) PROVE r[i].account \in AccountsOf(s) \ {s[k].account}
    BY <1>6
  <2>1. CASE i = k
    BY <1>1, <1>2, <1>3, <1>5, <1>6, <1>7, <2>1
  <2>2. CASE i # k
    BY <1>1, <1>2, <1>3, <1>5, <1>6, <1>7, <2>2
  <2> QED
    BY <2>1, <2>2
<1>9. AccountsOf(s) \ {s[k].account} \subseteq AccountsOf(r)
  <2> SUFFICES ASSUME NEW i \in 1..n, i # k PROVE s[i].account \in AccountsOf(r)
    BY <1>6
  <2>1. CASE i # n
    <3>1. i \in 1..(n - 1) /\ r[i] = s[i]
      BY <1>2, <1>4, <2>1
    <3> QED
      BY <1>6, <3>1
  <2>2. CASE i = n
    <3>1. k \in 1..(n - 1) /\ r[k] = s[n]
      BY <1>1, <1>2, <1>4, <2>2
    <3> QED
      BY <1>6, <2>2, <3>1
  <2> QED
    BY <2>1, <2>2
<1>10. \A i, j \in 1..(n - 1) : r[i].account = r[j].account => i = j
  BY <1>2, <1>3, <1>5, <1>7
<1>11. /\ AccountsOf(r) = AccountsOf(s) \ {s[k].account}
       /\ \A i, j \in 1..Len(r) : r[i].account = r[j].account => i = j
  BY <1>2, <1>8, <1>9, <1>10
<1> QED
  BY <1>11 DEF r

LEMMA AppendAccount ==
  ASSUME NEW s \in Seq([account : Accounts, type : Secrets]), NEW a \in Accounts, NEW t \in Secrets
  PROVE  LET r == Append(s, [account |-> a, type |-> t])
         IN  /\ AccountsOf(r) = AccountsOf(s) \cup {a}
             /\ (/\ \A i, j \in 1..Len(s) : s[i].account = s[j].account => i = j
                 /\ a \notin AccountsOf(s)) =>
                  \A i, j \in 1..Len(r) : r[i].account = r[j].account => i = j
<1> DEFINE r == Append(s, [account |-> a, type |-> t])
           n == Len(s)
<1>1. /\ n \in Nat
      /\ Len(r) = n + 1
      /\ r[n + 1].account = a
      /\ \A i \in 1..n : r[i] = s[i]
  OBVIOUS
<1> HIDE DEF r
<1>2. 1..(n + 1) = (1..n) \cup {n + 1} /\ n + 1 \notin 1..n
  BY <1>1
<1> HIDE DEF n
<1>3. AccountsOf(r) = {r[i].account : i \in 1..(n + 1)} /\ AccountsOf(s) = {s[i].account : i \in 1..n}
  BY <1>1 DEF AccountsOf, n
<1>4. AccountsOf(r) = AccountsOf(s) \cup {a}
  BY <1>1, <1>2, <1>3
<1>5. ASSUME \A i, j \in 1..n : s[i].account = s[j].account => i = j, a \notin AccountsOf(s)
      PROVE  \A i, j \in 1..(n + 1) : r[i].account = r[j].account => i = j
  BY <1>1, <1>2, <1>3, <1>5
<1>6. /\ AccountsOf(r) = AccountsOf(s) \cup {a}
      /\ (/\ \A i, j \in 1..Len(s) : s[i].account = s[j].account => i = j
          /\ a \notin AccountsOf(s)) =>
           \A i, j \in 1..Len(r) : r[i].account = r[j].account => i = j
  BY <1>1, <1>4, <1>5 DEF n
<1> QED
  BY <1>6 DEF r

-----------------------------------------------------------------------------
LEMMA EmptyRange ==
  ASSUME NEW S, NEW s \in Seq(S)
  PROVE  Range(s) = {} <=> s = <<>>
BY DEF Range

LEMMA InitPlace == LoginInit => PlaceInv /\ AskedInv
<1> SUFFICES ASSUME LoginInit PROVE PlaceInv /\ AskedInv
  OBVIOUS
<1>1. /\ Range(threadQueue) = {} /\ Range(fiberQueue) = {} /\ Range(uiQueue) = {}
      /\ AccountsOf(sessions) = {}
  BY DEF LoginInit, Range, AccountsOf
<1>2. IsInjective(threadQueue) /\ IsInjective(fiberQueue) /\ IsInjective(uiQueue)
  BY DEF LoginInit, IsInjective
<1> QED
  BY <1>1, <1>2 DEF LoginInit, PlaceInv, AskedInv, Asked, Active

(* A client hands its session over.                                        *)
LEMMA RunSessionPlace ==
  ASSUME LoginTypeOK, PlaceInv, AskedInv, NEW b \in Accounts, fiber[b] \in Active, RunSession(b),
         creds'[b] # Secrets,
         \A c \in Accounts : c # b => creds'[c] = creds[c],
         UNCHANGED uiVars
  PROVE  PlaceInv' /\ AskedInv'
<1>1. /\ threadQueue' = Append(threadQueue, b)
      /\ Range(threadQueue') = Range(threadQueue) \cup {b}
      /\ IsInjective(threadQueue) /\ b \notin Range(threadQueue) => IsInjective(threadQueue')
  BY AppendNew DEF RunSession, LoginTypeOK
<1>2. b \notin Range(threadQueue) /\ b \notin Range(fiberQueue) /\ b \notin AccountsOf(sessions)
  BY DEF AskedInv, Asked
<1>3. AccountsOf(sessions') = AccountsOf(sessions) /\ UNCHANGED <<fiberQueue, sessions, uiQueue, prompt>> /\ main' # "off"
  BY DEF RunSession, uiVars, AccountsOf, PlaceInv
<1>4. PlaceInv'
  BY <1>1, <1>2, <1>3 DEF PlaceInv
<1>5. \A c \in Accounts : /\ c # b => fiber'[c] = fiber[c] /\ client'[c] = client[c]
                          /\ c = b => fiber'[c] = "ended" /\ client'[c] = "quitting"
  BY DEF RunSession, QuitClient, LoginTypeOK
<1>6. Asked' = Asked \cup {b}
  BY <1>1, <1>3 DEF Asked
<1>7. AskedInv'
  BY <1>1, <1>3, <1>5, <1>6 DEF AskedInv, Active
<1> QED
  BY <1>4, <1>7

(* Steps of a client that do not concern the session thread.               *)
LEMMA ClientPlace ==
  ASSUME PlaceInv, AskedInv, UNCHANGED <<threadVars, uiVars>>,
         \A a \in Accounts : fiber'[a] \in Active \/ client'[a] = "restarting" => a \notin Asked,
         \A a \in Accounts : creds'[a] # creds[a] => a \notin Asked
  PROVE  PlaceInv' /\ AskedInv'
<1>1. UNCHANGED <<threadQueue, fiberQueue, sessions, main, uiQueue, prompt>> /\ Asked' = Asked
      /\ AccountsOf(sessions') = AccountsOf(sessions)
  BY DEF threadVars, uiVars, Asked, AccountsOf
<1>2. PlaceInv'
  BY <1>1 DEF PlaceInv
<1>3. AskedInv'
  BY <1>1 DEF AskedInv, Asked
<1> QED
  BY <1>2, <1>3

LEMMA NextPlace == LoginTypeOK /\ SecretsInv /\ PlaceInv /\ AskedInv /\ [LoginNext]_authVars => PlaceInv' /\ AskedInv'
<1> SUFFICES ASSUME LoginTypeOK, SecretsInv, PlaceInv, AskedInv, [LoginNext]_authVars PROVE PlaceInv' /\ AskedInv'
  OBVIOUS
<1> USE DEF LoginTypeOK
<1>1. ASSUME NEW a \in Accounts, Launch(a) PROVE PlaceInv' /\ AskedInv'
  BY <1>1, ClientPlace DEF Launch, StartClient, AskedInv, Active
<1>2. ASSUME NEW a \in Accounts, ClientRestarts(a) PROVE PlaceInv' /\ AskedInv'
  BY <1>2, ClientPlace DEF ClientRestarts, StartClient, AskedInv, Active
<1>3. ASSUME NEW a \in Accounts, ClientEnds(a) PROVE PlaceInv' /\ AskedInv'
  BY <1>3, ClientPlace DEF ClientEnds, AskedInv, Active
<1>4. ASSUME NEW a \in Accounts,
             \/ LogonWithToken(a) \/ StartAuthSession(a) \/ GuardAccepted(a) \/ SleepOver(a)
             \/ PollSucceeds(a) \/ PollAgain(a) \/ LoggedIn(a) \/ LoginFailed(a)
             \/ LogonUnavailable(a) \/ RequestUnavailable(a) \/ InvalidPassword(a)
      PROVE  PlaceInv' /\ AskedInv'
  <2>1. fiber[a] \in Active
    BY <1>4 DEF LogonWithToken, StartAuthSession, GuardAccepted, SleepOver, PollSucceeds, PollAgain,
                LoggedIn, LoginFailed, LogonUnavailable, RequestUnavailable, InvalidPassword,
                WakeConnected, AwaitsLogon, InRequest, Active
  <2>2. a \notin Asked
    BY <2>1 DEF AskedInv
  <2>3. UNCHANGED <<threadVars, uiVars>>
    BY <1>4 DEF LogonWithToken, StartAuthSession, GuardAccepted, SleepOver, PollSucceeds, PollAgain,
                LoggedIn, LoginFailed, LogonUnavailable, RequestUnavailable, InvalidPassword, WakeConnected
  <2>4. \A c \in Accounts \ {a} : fiber'[c] = fiber[c] /\ client'[c] = client[c] /\ creds'[c] = creds[c]
    <3>1. CASE LogonWithToken(a) \/ StartAuthSession(a) \/ GuardAccepted(a) \/ SleepOver(a)
      BY <3>1 DEF LogonWithToken, StartAuthSession, WakeConnected, DoLogon, GuardAccepted, SleepOver
    <3>2. CASE PollSucceeds(a) \/ PollAgain(a) \/ LoggedIn(a) \/ LoginFailed(a)
      BY <3>2 DEF PollSucceeds, PollAgain, LoggedIn, LoginFailed, DoLogon, QuitClient
    <3>3. CASE LogonUnavailable(a) \/ RequestUnavailable(a) \/ InvalidPassword(a)
      BY <3>3 DEF LogonUnavailable, RequestUnavailable, InvalidPassword, QuitClient
    <3> QED
      BY <1>4, <3>1, <3>2, <3>3
  <2> QED
    BY <2>2, <2>3, <2>4, ClientPlace, ZenonT(30) DEF AskedInv
<1>5. ASSUME NEW a \in Accounts, LackPassword(a) PROVE PlaceInv' /\ AskedInv'
  <2>1. creds'[a] # Secrets
    BY <1>5 DEF LackPassword, Secrets
  <2> QED
    BY <1>5, <2>1, RunSessionPlace DEF LackPassword, WakeConnected, Active
<1>6. ASSUME NEW a \in Accounts, NEW allowed \in (SUBSET Methods) \ {{}}, SessionBegun(a, allowed)
      PROVE  PlaceInv' /\ AskedInv'
  <2>1. fiber[a] \in Active
    BY <1>6 DEF SessionBegun, Active
  <2>2. CASE RunSession(a) /\ "code" \notin creds[a]
    <3>1. creds'[a] # Secrets
      BY <1>6, <2>2 DEF SessionBegun, Secrets
    <3> QED
      BY <1>6, <2>1, <2>2, <3>1, RunSessionPlace DEF SessionBegun
  <2>3. CASE \/ fiber' = [fiber EXCEPT ![a] = "poll"] /\ UNCHANGED <<client, threadVars>>
             \/ fiber' = [fiber EXCEPT ![a] = "guard"] /\ UNCHANGED <<client, threadVars>>
    BY <1>6, <2>1, <2>3, ClientPlace DEF SessionBegun, AskedInv
  <2> QED
    BY <1>6, <2>2, <2>3 DEF SessionBegun, RequestCode
<1>7. ASSUME NEW a \in Accounts, GuardRefused(a) PROVE PlaceInv' /\ AskedInv'
  <2>1. "code" \notin creds'[a] /\ \A c \in Accounts : c # a => creds'[c] = creds[c]
    BY <1>7 DEF GuardRefused
  <2>2. method[a] \in {"DeviceCode", "EmailCode"}
    BY <1>7 DEF GuardRefused, SecretsInv
  <2>3. RunSession(a)
    BY <1>7, <2>1, <2>2 DEF GuardRefused, RequestCode
  <2>4. creds'[a] # Secrets
    BY <2>1 DEF Secrets
  <2> QED
    BY <1>7, <2>1, <2>3, <2>4, RunSessionPlace DEF GuardRefused, Active
<1>8. ASSUME NEW a \in Accounts, Answer(a) PROVE PlaceInv' /\ AskedInv'
  <2>1. UNCHANGED <<threadQueue, fiberQueue, sessions, main, uiQueue, fiber, client, creds>>
        /\ Asked' = Asked /\ AccountsOf(sessions') = AccountsOf(sessions)
    BY <1>8 DEF Answer, threadVars, loginVars, Asked, AccountsOf
  <2>2. \A c \in Accounts : /\ prompt'[c] # "none" <=> prompt[c] # "none"
                            /\ prompt'[c] = "queued" <=> prompt[c] = "queued"
    BY <1>8 DEF Answer
  <2> QED
    BY <2>1, <2>2 DEF PlaceInv, AskedInv
<1>9. CASE Terminate \/ UNCHANGED authVars
  BY <1>9, ClientPlace DEF Terminate, authVars, loginVars, AskedInv
<1>10. CASE Communicate
  <2>1. /\ threadQueue' = <<>> /\ fiberQueue' = fiberQueue \o threadQueue /\ main # "off"
        /\ UNCHANGED <<sessions, main, uiQueue, prompt, fiber, client, creds>>
    BY <1>10 DEF Communicate, loginVars, uiVars
  <2>2. Range(threadQueue') = {} /\ IsInjective(threadQueue')
    BY <2>1 DEF Range, IsInjective
  <2>3. Range(fiberQueue') = Range(fiberQueue) \cup Range(threadQueue) /\ IsInjective(fiberQueue')
    BY <2>1, ConcatDisjoint DEF PlaceInv
  <2>4. Asked' = Asked /\ AccountsOf(sessions') = AccountsOf(sessions)
    BY <2>1, <2>2, <2>3 DEF Asked, AccountsOf
  <2> QED
    BY <2>1, <2>2, <2>3, <2>4 DEF PlaceInv, AskedInv
<1>11. CASE MainWakes \/ SessionsLaunched \/ InputsHandled
  <2>1. /\ UNCHANGED <<threadQueue, fiberQueue, sessions, uiQueue, prompt, fiber, client, creds>>
        /\ main' = "off" => Asked = {}
    BY <1>11 DEF MainWakes, SessionsLaunched, InputsHandled, loginVars, uiVars
  <2>2. Asked' = Asked /\ AccountsOf(sessions') = AccountsOf(sessions)
    BY <2>1 DEF Asked, AccountsOf
  <2> QED
    BY <2>1, <2>2 DEF PlaceInv, AskedInv
<1>12. CASE ShowPrompt
  <2> DEFINE a == Head(uiQueue)
  <2>1. /\ a \in Accounts /\ uiQueue' = Tail(uiQueue)
        /\ Range(uiQueue) = {a} \cup Range(uiQueue') /\ IsInjective(uiQueue') /\ a \notin Range(uiQueue')
    BY <1>12, HeadTaken DEF ShowPrompt, PlaceInv
  <2>2. UNCHANGED <<threadQueue, fiberQueue, sessions, main, fiber, client, creds>>
        /\ Asked' = Asked /\ AccountsOf(sessions') = AccountsOf(sessions)
    BY <1>12 DEF ShowPrompt, threadVars, loginVars, Asked, AccountsOf
  <2>3. prompt[a] = "queued" /\ prompt' = [prompt EXCEPT ![a] = "open"]
    BY <1>12, <2>1 DEF ShowPrompt, AskedInv
  <2> HIDE DEF a
  <2> QED
    BY <2>1, <2>2, <2>3 DEF PlaceInv, AskedInv
<1>13. ASSUME NEW grows \in BOOLEAN, LaunchSession(grows) PROVE PlaceInv' /\ AskedInv'
  <2> DEFINE a == Head(fiberQueue)
             type == IF "password" \notin creds[a] THEN "password" ELSE "code"
             kept == IF grows THEN Withdraw(prompt, AccountsOf(sessions)) ELSE prompt
  <2>1. /\ a \in Accounts /\ fiberQueue' = Tail(fiberQueue)
        /\ Range(fiberQueue) = {a} \cup Range(fiberQueue') /\ IsInjective(fiberQueue') /\ a \notin Range(fiberQueue')
    BY <1>13, HeadTaken DEF LaunchSession, PlaceInv
  <2>2. a \notin AccountsOf(sessions) /\ a \notin Range(threadQueue) /\ a \notin Range(uiQueue)
    BY <2>1 DEF PlaceInv, AskedInv
  <2>3. /\ AccountsOf(sessions') = AccountsOf(sessions) \cup {a}
        /\ \A i, j \in 1..Len(sessions') : sessions'[i].account = sessions'[j].account => i = j
    <3>1. type \in Secrets
      BY DEF Secrets
    <3>2. sessions' = Append(sessions, [account |-> a, type |-> type])
      BY <1>13 DEF LaunchSession
    <3> HIDE DEF a, type
    <3> QED
      BY <2>1, <2>2, <3>1, <3>2, AppendAccount DEF PlaceInv
  <2>4. /\ uiQueue' = Append(uiQueue, a)
        /\ Range(uiQueue') = Range(uiQueue) \cup {a} /\ IsInjective(uiQueue')
    BY <1>13, <2>1, <2>2, AppendNew DEF LaunchSession, PlaceInv
  <2>5. /\ kept \in [Accounts -> {"none", "queued", "open", "answered", "withdrawn"}]
        /\ \A c \in Accounts : /\ kept[c] # "none" <=> prompt[c] # "none"
                               /\ kept[c] = "queued" <=> prompt[c] = "queued"
    BY WithdrawType DEF Withdraw
  <2>6. prompt' = [kept EXCEPT ![a] = "queued"]
    BY <1>13 DEF LaunchSession
  <2>7. UNCHANGED <<threadQueue, main, fiber, client, creds>> /\ main # "off"
    BY <1>13 DEF LaunchSession, loginVars
  <2> HIDE DEF a, kept, type
  <2>8. Asked' = Asked
    BY <2>1, <2>3, <2>7 DEF Asked
  <2>9. PlaceInv'
    BY <2>1, <2>2, <2>3, <2>4, <2>7 DEF PlaceInv
  <2>10. AskedInv'
    BY <2>1, <2>3, <2>4, <2>5, <2>6, <2>7, <2>8 DEF AskedInv
  <2> QED
    BY <2>9, <2>10
<1>14. ASSUME NEW k \in 1..Len(sessions), HandleInput(k) PROVE PlaceInv' /\ AskedInv'
  <2> DEFINE a == sessions[k].account
             kept == Withdraw(prompt, {Last(sessions).account})
  <2>1. a \in Accounts
    <3>1. sessions[k] \in [account : Accounts, type : Secrets]
      BY ElementType
    <3> QED
      BY <3>1
  <2>2. /\ AccountsOf(sessions') = AccountsOf(sessions) \ {a}
        /\ \A i, j \in 1..Len(sessions') : sessions'[i].account = sessions'[j].account => i = j
    <3>1. sessions' = EraseAt(sessions, k)
      BY <1>14 DEF HandleInput
    <3> QED
      BY <3>1, EraseOne DEF PlaceInv
  <2>3. a \in AccountsOf(sessions)
    BY DEF AccountsOf
  <2>4. a \notin Range(threadQueue) /\ a \notin Range(fiberQueue)
    BY <2>3 DEF PlaceInv
  <2>5. /\ kept \in [Accounts -> {"none", "queued", "open", "answered", "withdrawn"}]
        /\ \A c \in Accounts : /\ kept[c] # "none" <=> prompt[c] # "none"
                               /\ kept[c] = "queued" <=> prompt[c] = "queued"
    BY WithdrawType DEF Withdraw
  <2>6. prompt' = [kept EXCEPT ![a] = "none"] /\ prompt[a] = "answered"
    BY <1>14 DEF HandleInput
  <2>7. UNCHANGED <<threadQueue, fiberQueue, main, uiQueue>> /\ main # "off"
    BY <1>14 DEF HandleInput
  <2>8. \A c \in Accounts \ {a} : fiber'[c] = fiber[c] /\ client'[c] = client[c] /\ creds'[c] = creds[c]
    BY <1>14 DEF HandleInput, StartClient, loginVars
  <2> HIDE DEF a, kept
  <2>9. Asked' = Asked \ {a}
    BY <2>2, <2>4, <2>7 DEF Asked
  <2>10. PlaceInv'
    BY <2>2, <2>7 DEF PlaceInv
  <2>11. AskedInv'
    BY <2>1, <2>2, <2>3, <2>4, <2>5, <2>6, <2>7, <2>8, <2>9 DEF AskedInv
  <2> QED
    BY <2>10, <2>11
<1> QED
  BY <1>1, <1>2, <1>3, <1>4, <1>5, <1>6, <1>7, <1>8, <1>9, <1>10, <1>11, <1>12, <1>13, <1>14, LoginCases

(* The assertions of the login module and of the session thread hold.      *)
THEOREM AssertionsAlwaysHold == LoginSpec => []AssertionsHold
<1>1. LoginTypeOK /\ SecretsInv /\ AskedInv => AssertionsHold
  <2> SUFFICES ASSUME LoginTypeOK, SecretsInv, AskedInv PROVE AssertionsHold
    OBVIOUS
  <2>1. Range(threadQueue) \cup Range(fiberQueue) \subseteq Accounts
    BY DEF LoginTypeOK, Range
  <2> QED
    BY <2>1 DEF SecretsInv, AskedInv, AssertionsHold
<1> QED
  BY <1>1, InitType, InitSecrets, InitPlace, NextType, NextSecrets, NextPlace, PTL DEF LoginSpec

(* No session is forgotten by the thread or by the UI, or held twice.      *)
THEOREM SessionsAreKept == LoginSpec => []NoSessionForgotten
<1>1. LoginTypeOK /\ PlaceInv /\ AskedInv => NoSessionForgotten
  <2> SUFFICES ASSUME LoginTypeOK, PlaceInv, AskedInv PROVE NoSessionForgotten
    OBVIOUS
  <2> DEFINE queued == threadQueue \o fiberQueue
             served == [k \in 1..Len(sessions) |-> sessions[k].account]
  <2>1. threadQueue \in Seq(Accounts) /\ fiberQueue \in Seq(Accounts)
    BY DEF LoginTypeOK
  <2>2. queued \in Seq(Accounts) /\ Range(queued) = Range(threadQueue) \cup Range(fiberQueue) /\ IsInjective(queued)
    BY <2>1, ConcatDisjoint DEF PlaceInv
  <2>3. served \in Seq(Accounts)
    <3>1. sessions \in Seq([account : Accounts, type : Secrets])
      BY DEF LoginTypeOK
    <3>2. ASSUME NEW k \in 1..Len(sessions) PROVE sessions[k].account \in Accounts
      <4>1. sessions[k] \in [account : Accounts, type : Secrets]
        BY <3>1, ElementType
      <4> QED
        BY <4>1
    <3>3. Len(sessions) \in Nat
      BY <3>1
    <3> QED
      BY <3>2, <3>3
  <2>4. Range(served) = AccountsOf(sessions)
    BY DEF Range, AccountsOf
  <2>5. IsInjective(served)
    BY DEF IsInjective, PlaceInv
  <2>6. Range(queued) \cap Range(served) = {}
    BY <2>2, <2>4 DEF PlaceInv
  <2> HIDE DEF queued, served
  <2>7. Range(queued \o served) = Asked /\ IsInjective(queued \o served) /\ queued \o served \in Seq(Accounts)
    BY <2>2, <2>3, <2>4, <2>5, <2>6, ConcatDisjoint DEF Asked
  <2>8. main = "off" => queued \o served = <<>>
    BY <2>7, EmptyRange DEF PlaceInv
  <2>9. \A a \in Accounts : prompt[a] # "none" <=> a \in AccountsOf(sessions)
    BY DEF AskedInv
  <2> QED
    BY <2>7, <2>8, <2>9 DEF NoSessionForgotten, queued, served
<1> QED
  BY <1>1, InitType, InitSecrets, InitPlace, NextType, NextSecrets, NextPlace, PTL DEF LoginSpec

=============================================================================
