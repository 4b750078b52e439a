------------------------------ MODULE Ciphers -------------------------------
(***************************************************************************)
(* The encryption of a packet after the handshake (AESCryptoBase with its  *)
(* classes AESCrypto and AESCryptoHMAC): the other end encrypts a packet,  *)
(* something may happen to it on the way, and we decrypt it.               *)
(*                                                                         *)
(* Bytes are abstracted: a text is its number of bytes, an encrypted block *)
(* the key and the vector it was made with, and a digest what it was made  *)
(* from. OpenSSL (external) pads, and finds out about wrong padding or     *)
(* does not.                                                               *)
(***************************************************************************)
EXTENDS Naturals

CONSTANTS
    Sizes,    \* numbers of bytes of a text
    CipherKeys,     \* keys; one of them is ours
    OurKey

CipherAssumption == Sizes \subseteq Nat /\ OurKey \in CipherKeys

VARIABLES
    cipherStage, \* "plain", "encrypted", "sent", "decrypted"
    plaintext,   \* the text: its size, and whether it is what the other end meant
    cipherOf,    \* the class each end uses
    encrypted,   \* the packet
    damage,      \* what happened to it on the way
    plainResult  \* what decrypt() returned, nothing if it threw

cipherVars == <<cipherStage, plaintext, cipherOf, encrypted, damage, plainResult>>

Cryptos == {"AES", "AESHMAC"}
IvSize == 16
PlainText(size) == [size |-> size, good |-> TRUE]
Garbage(size) == [size |-> size, good |-> FALSE]

\* Xcrypt::run(): the bytes written without padding, and with it.
EcbSize(n) == n
CbcSize(n) == 16 * (n \div 16 + 1)

\* The buffer encryptWithIV() allocates.
OutputSize(n) == 16 * ((n + IvSize + 16) \div 16)

\* HMACSHA1::digest() of the random bytes and the text.
Digest(key, random, text) == <<"digest", key, random, text>>

\* AESCryptoHMAC::makeIV(): a digest, and the random bytes it was made with; AESCrypto
\* has random bytes only.
MakeIV(crypto, key, text, random) ==
    [prefix |-> IF crypto = "AESHMAC" THEN Digest(key, random, text) ELSE <<"random">>,
     random |-> random]

EncryptWithIV(key, text, iv) ==
    [key |-> key, iv |-> iv, text |-> text, size |-> EcbSize(IvSize) + CbcSize(text.size)]

\* decryptWithIV() throws for less than a vector (its buffer has bytes.size()-iv.size()
\* bytes) or for no number of blocks; otherwise it has the vector and a text.
Decryptable(packet) == packet.size > IvSize /\ packet.size % 16 = 0

DecryptWithIV(key, packet) ==
    LET mine == packet.key = key
    IN [text |-> IF mine /\ damage = "none" THEN packet.text ELSE Garbage(packet.size - IvSize - 1),
        iv |-> IF mine THEN packet.iv ELSE [prefix |-> <<"garbage">>, random |-> "garbage"]]

\* isValidIV().
IsValidIV(key, text, iv) == iv.prefix = Digest(key, iv.random, text)

CipherInit ==
    /\ cipherStage = "plain" /\ plaintext \in {PlainText(n) : n \in Sizes}
    /\ cipherOf \in [sender : Cryptos, receiver : Cryptos]
    /\ encrypted = << >> /\ damage = "none" /\ plainResult = {}

----------------------------------------------------------------------------
\* encrypt() at the other end, which may have another key.
Encrypt(key, random) ==
    /\ cipherStage = "plain" /\ cipherStage' = "encrypted"
    /\ encrypted' = EncryptWithIV(key, plaintext, MakeIV(cipherOf.sender, key, plaintext, random))
    /\ UNCHANGED <<plaintext, cipherOf, damage, plainResult>>

\* The packet arrives as it was sent, cut off, or with other bytes in its text or vector.
Arrive ==
    /\ cipherStage = "encrypted" /\ cipherStage' = "sent"
    /\ \/ UNCHANGED <<encrypted, damage>>
       \/ \E n \in 0..(encrypted.size - 1) : encrypted' = [encrypted EXCEPT !.size = n] /\ damage' = "cut"
       \/ damage' = "changed" /\ UNCHANGED encrypted
       \/ damage' = "changed" /\ encrypted' = [encrypted EXCEPT !.iv.prefix = <<"garbage">>]
    /\ UNCHANGED <<plaintext, cipherOf, plainResult>>

\* decrypt(): AESCryptoHMAC checks the vector, AESCrypto takes what comes. OpenSSL throws
\* for most garbage, because of its padding.
Decrypt ==
    /\ cipherStage = "sent" /\ cipherStage' = "decrypted"
    /\ LET r == DecryptWithIV(OurKey, encrypted)
           good == Decryptable(encrypted)
                   /\ (cipherOf.receiver = "AESHMAC" => IsValidIV(OurKey, r.text, r.iv))
       IN plainResult' \in (IF good THEN {{r.text}} ELSE {{}})
                           \cup (IF good /\ r.text.good THEN {} ELSE {{}})
    /\ UNCHANGED <<plaintext, cipherOf, encrypted, damage>>

CipherNext ==
    \/ \E key \in CipherKeys, random \in {"r1", "r2"} : Encrypt(key, random)
    \/ Arrive \/ Decrypt

CipherSpec == CipherInit /\ [][CipherNext]_cipherVars

----------------------------------------------------------------------------
\* Type invariant.
CipherTypeOK ==
    /\ cipherStage \in {"plain", "encrypted", "sent", "decrypted"}
    /\ plaintext.size \in Sizes /\ damage \in {"none", "cut", "changed"}

\* A packet that arrives whole, from an end with our key and class, is the text that was
\* sent; AESCryptoHMAC returns that or throws, whatever happened to the packet and
\* whichever class the other end has (AESBase.cpp:53-98, AESHMAC.cpp:99-157).
TextsReadBack ==
    cipherStage = "decrypted" =>
        /\ damage = "none" /\ encrypted.key = OurKey /\ cipherOf.sender = cipherOf.receiver
               => plainResult = {plaintext}
        /\ cipherOf.receiver = "AESHMAC" => plainResult \subseteq {plaintext}

\* The buffers are as large as the assertions behind Xcrypt::run() say, at the sizes of
\* full blocks too (XCrypt.hpp:99-100, AESBase.cpp:56-70, 83-95).
BuffersSuffice ==
    /\ \A n \in Sizes : EcbSize(IvSize) + CbcSize(n) <= OutputSize(n)
    /\ \A t \in plainResult : t.size <= encrypted.size - IvSize

=============================================================================
