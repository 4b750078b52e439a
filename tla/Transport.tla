----------------------------- MODULE Transport ------------------------------
(***************************************************************************)
(* Below a Connection: the fiber of makeConnection() connects a TCP object *)
(* to one endpoint after the other and has the Encrypted object on top of  *)
(* it shake hands; packets then go through both. The objects are made once *)
(* and used for every attempt.                                             *)
(*                                                                         *)
(* Bytes are abstracted: a packet is its kind, a key the number of the     *)
(* attempt that made it. The server (external) answers what it receives on *)
(* the current socket, may send what is not expected, and closes any time. *)
(***************************************************************************)
EXTENDS Naturals, Sequences, FiniteSets

CONSTANTS
    MaxAttempts, \* bound on the attempts
    MaxData      \* bound on the packets after the handshake, each way

TransportAssumption == MaxAttempts \in Nat \ {0} /\ MaxData \in Nat

VARIABLES
    netPc,           \* "connect", "handshake", "ready", "eof" or "crashed"
    attempt,         \* number of the attempt
    encryptionState, \* "None", "Challenged" or "Encrypting"
    engine,          \* the key and the cipher of encryptionEngine, {} when null
    onWire,          \* packets on their way to us on the current socket
    half,            \* readPacket() has the header of the next packet
    server,          \* the server: what it knows of this socket
    decrypted,       \* packets readPacket() has returned, the number 0 for garbage
    written          \* packets written after the handshake, as the server reads them

netVars == <<netPc, attempt, encryptionState, engine, onWire, half, server, decrypted, written>>

NewSocket == [asked |-> FALSE, challenge |-> FALSE, key |-> 0, sent |-> 0]

NetInit ==
    /\ netPc = "connect" /\ attempt = 1 /\ encryptionState = "None" /\ engine = {}
    /\ onWire = <<>> /\ half = FALSE /\ server = NewSocket
    /\ decrypted = <<>> /\ written = <<>>

----------------------------------------------------------------------------
\* TCP::connect(). A failure other than eof leaves makeConnection() as an exception
\* and ends the program.
TcpConnects(ok) ==
    /\ netPc = "connect"
    /\ netPc' = IF ok THEN "handshake" ELSE "crashed"
    /\ onWire' = <<>> /\ half' = FALSE /\ server' = NewSocket
    /\ UNCHANGED <<attempt, encryptionState, engine, decrypted, written>>

\* The server asks for encryption once, with or without a challenge.
ServerRequests(challenge) ==
    /\ netPc = "handshake" /\ ~server.asked
    /\ server' = [server EXCEPT !.asked = TRUE, !.challenge = challenge]
    /\ onWire' = Append(onWire, IF challenge THEN "RequestChallenge" ELSE "Request")
    /\ UNCHANGED <<netPc, attempt, encryptionState, engine, half, decrypted, written>>

\* A message nobody expects during the handshake.
ServerStrays ==
    /\ netPc = "handshake" /\ onWire = <<>>
    /\ onWire' = <<"Other">>
    /\ UNCHANGED <<netPc, attempt, encryptionState, engine, half, server, decrypted, written>>

\* The server sends a data packet, encrypted with the key of this socket.
ServerSends ==
    /\ netPc = "ready" /\ server.sent < MaxData
    /\ server' = [server EXCEPT !.sent = @ + 1]
    /\ onWire' = Append(onWire, "Data")
    /\ UNCHANGED <<netPc, attempt, encryptionState, engine, half, decrypted, written>>

\* TCP::readPacket() reads the header of the next packet; a wrong magic value throws.
HeaderArrives(valid) ==
    /\ netPc \in {"handshake", "ready"} /\ onWire # <<>> /\ ~half
    /\ IF valid THEN half' = TRUE /\ UNCHANGED netPc ELSE netPc' = "crashed" /\ UNCHANGED half
    /\ UNCHANGED <<attempt, encryptionState, engine, onWire, server, decrypted, written>>

\* The body is there: establishEncryption() handles the packet, if the state is one it
\* is expected in, and ignores it otherwise.
\* handleEncryptRequest(): a new key and an engine, and the response to the server,
\* which checks it (external) and sends the result.
HandleEncryptRequest ==
    /\ netPc = "handshake" /\ half /\ encryptionState = "None"
    /\ Head(onWire) \in {"Request", "RequestChallenge"}
    /\ engine' = {[key |-> attempt,
                   cipher |-> IF Head(onWire) = "Request" THEN "AES" ELSE "AESHMAC"]}
    /\ encryptionState' = "Challenged"
    /\ server' = [server EXCEPT !.key = attempt]
    /\ \E result \in {"ResultOk", "ResultFail"} : onWire' = Append(Tail(onWire), result)
    /\ half' = FALSE
    /\ UNCHANGED <<netPc, attempt, decrypted, written>>

HandleEncryptResult ==
    /\ netPc = "handshake" /\ half /\ encryptionState = "Challenged"
    /\ Head(onWire) \in {"ResultOk", "ResultFail"}
    /\ IF Head(onWire) = "ResultOk" THEN encryptionState' = "Encrypting" /\ netPc' = "ready"
       ELSE netPc' = "crashed" /\ UNCHANGED encryptionState
    /\ onWire' = Tail(onWire) /\ half' = FALSE
    /\ UNCHANGED <<attempt, engine, server, decrypted, written>>

Ignored ==
    /\ netPc = "handshake" /\ half
    /\ ~(encryptionState = "None" /\ Head(onWire) \in {"Request", "RequestChallenge"})
    /\ ~(encryptionState = "Challenged" /\ Head(onWire) \in {"ResultOk", "ResultFail"})
    /\ onWire' = Tail(onWire) /\ half' = FALSE
    /\ UNCHANGED <<netPc, attempt, encryptionState, engine, server, decrypted, written>>

\* Encrypted::readPacket(): what the server has encrypted, decrypted with our engine.
ReadPacket ==
    /\ netPc = "ready" /\ half
    /\ \E e \in engine :
          decrypted' = Append(decrypted, IF Head(onWire) = "Data" /\ e.key = server.key
                                         THEN Len(decrypted) + 1 ELSE 0)
    /\ onWire' = Tail(onWire) /\ half' = FALSE
    /\ UNCHANGED <<netPc, attempt, encryptionState, engine, server, written>>

\* Encrypted::writePacket(), which is called on the Asio thread only.
WritePacket ==
    /\ netPc = "ready" /\ Len(written) < MaxData
    /\ \E e \in engine :
          written' = Append(written, IF e.key = server.key THEN Len(written) + 1 ELSE 0)
    /\ UNCHANGED <<netPc, attempt, encryptionState, engine, onWire, half, server, decrypted>>

\* The server closes the socket. During the handshake makeConnection() disconnects and
\* another endpoint is tried with the same objects; afterwards the reader ends.
ServerCloses ==
    /\ netPc \in {"handshake", "ready"}
    /\ IF netPc = "handshake" /\ attempt < MaxAttempts
       THEN netPc' = "connect" /\ attempt' = attempt + 1 ELSE netPc' = "eof" /\ UNCHANGED attempt
    /\ onWire' = <<>> /\ half' = FALSE
    /\ UNCHANGED <<encryptionState, engine, server, decrypted, written>>

NetNext ==
    \/ \E ok \in BOOLEAN : TcpConnects(ok) \/ HeaderArrives(ok)
    \/ \E challenge \in BOOLEAN : ServerRequests(challenge)
    \/ ServerStrays \/ ServerSends
    \/ HandleEncryptRequest \/ HandleEncryptResult \/ Ignored
    \/ ReadPacket \/ WritePacket \/ ServerCloses

NetSpec == NetInit /\ [][NetNext]_netVars

----------------------------------------------------------------------------
\* Type invariant.
NetTypeOK ==
    /\ netPc \in {"connect", "handshake", "ready", "eof", "crashed"}
    /\ attempt \in 1..MaxAttempts /\ encryptionState \in {"None", "Challenged", "Encrypting"}
    /\ Cardinality(engine) <= 1 /\ half \in BOOLEAN
    /\ \A i \in 1..Len(decrypted) : decrypted[i] \in 0..(2 * MaxData + 2)

\* Both ends use the key and the cipher of the handshake of this very socket: neither
\* reads garbage, nothing of the handshake is taken for data, and the engine's cipher is
\* the one the server's request asked for (Encrypted.cpp:176-184, 287-302).
KeysAgree ==
    netPc = "ready" =>
        /\ \E e \in engine : e.key = server.key
              /\ e.cipher = IF server.challenge THEN "AESHMAC" ELSE "AES"
        /\ \A i \in 1..Len(written) : written[i] = i
        /\ \A i \in 1..Len(decrypted) : decrypted[i] = i

\* The engine belongs to the state: it is there from the challenge on
\* (Encrypted.cpp:176, which asserts that there was none before, and 289, 300).
EngineFollowsState == (engine = {}) <=> (encryptionState = "None")

\* A handshake that has begun can end: it never waits for a result the server was not
\* asked for. It does not hold: the state of an attempt that was cut off in the middle
\* survives (Encrypted.cpp:60-63 resets nothing), and the next one ignores the server's
\* request.
HandshakeCanEnd ==
    netPc = "handshake" /\ encryptionState = "Challenged" => server.key = attempt

=============================================================================
