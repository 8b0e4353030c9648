------------------------------- MODULE Layers -------------------------------
(***************************************************************************)
(* What the layers of the sender make of a packet and the layers of the    *)
(* reader make of it again: the bytes of its fields, the blocks of the     *)
(* cipher, the frame on the wire.  One packet goes one way, one function   *)
(* of the code at a time.                                                  *)
(*                                                                         *)
(* A byte is known by the field it comes from and its place there; the     *)
(* values of fields are left out.  A text that was encrypted is the        *)
(* sequence of its blocks.  That both sides hold the same key is           *)
(* KeysMatch of Handshake.                                                 *)
(***************************************************************************)
EXTENDS Integers, Sequences, SequencesExt

CONSTANTS
    NameLengths,    \* lengths of names, in characters
    Wide            \* how many characters of a name take two bytes in UTF-8

ASSUME LengthsAssumption == NameLengths \subseteq Nat /\ Wide \subseteq Nat

Length == 1024          \* of the arrays of the Java client
Word == 65536           \* lengths are sent in two bytes
ServerBlock == 128      \* the server's key has 1024 bits
ClientBlock == 64       \* the client's key has 512 bits
AesBlock == 16
Overhead == 11          \* of the padding of PKCS #1

VARIABLES
    packet,     \* the packet that is sent
    step,       \* what has been done with it
    data,       \* the bytes, or the blocks, that it is now
    cut,        \* what a read of the client left on the socket: "nothing", "payload", "length"
    received    \* the packet that the reader made of it

layersVars == <<packet, step, data, cut, received>>

-----------------------------------------------------------------------------
(* Types and fields *)

Code == [OPEN |-> 0, CLOSE |-> 1, ACK_OK |-> 2, ACK_ERR |-> 3, ALIVE |-> 4,
         OPEN_ENCR |-> 8, PUBLIC_KEY |-> 9, SYMMETRIC_KEY |-> 10, TEST_KEY |-> 11,
         OPEN_PROT |-> 16, SET_NAME |-> 17, ADD_FOLLOWER |-> 18, NEW_FOLLOWED |-> 19,
         REMOVE_FOLLOWER |-> 20, REMOVE_FOLLOWED |-> 21, MY_LOCATION |-> 22, LOCATION |-> 23]

PacketTypes == DOMAIN Code

\* Mutant: two entries of the map exchanged.
JavaCodeSwapped(type) ==
    IF type = "ACK_OK" THEN 3 ELSE IF type = "ACK_ERR" THEN 2 ELSE Code[type]

\* The map of the client, written out a second time in its own order.
JavaCode(type) ==
    [OPEN |-> 0, CLOSE |-> 1, OPEN_ENCR |-> 8, PUBLIC_KEY |-> 9, SYMMETRIC_KEY |-> 10,
     TEST_KEY |-> 11, OPEN_PROT |-> 16, SET_NAME |-> 17, ADD_FOLLOWER |-> 18,
     NEW_FOLLOWED |-> 19, REMOVE_FOLLOWER |-> 20, REMOVE_FOLLOWED |-> 21,
     MY_LOCATION |-> 22, LOCATION |-> 23, ACK_OK |-> 2, ACK_ERR |-> 3, ALIVE |-> 4][type]

TypeByte(code) == <<"type", code>>
Zero == TypeByte(0)

Field(name, n) == [i \in 1..n |-> <<name, i>>]

KeyTypes == {"PUBLIC_KEY", "SYMMETRIC_KEY", "TEST_KEY"}
NameTypes == {"SET_NAME", "ADD_FOLLOWER", "REMOVE_FOLLOWER", "REMOVE_FOLLOWED"}

\* A name of n characters, w of which take two bytes.
Named(before, n, w) == [fields |-> Append(before, Field("name", n + w)), chars |-> n]
NamesAfter(before) == {Named(before, n, w) : n \in NameLengths, w \in Wide}

\* The fields of fixed size; a name comes behind them.
FixedFields(type) ==
    CASE type = "PUBLIC_KEY" -> <<Field("key", 94)>>
      [] type = "SYMMETRIC_KEY" -> <<Field("key", 16)>>
      [] type = "TEST_KEY" -> <<Field("key", 16)>>
      [] type = "NEW_FOLLOWED" -> <<Field("id", 2)>>
      [] type = "MY_LOCATION" -> <<Field("latitude", 4), Field("longitude", 4), Field("deltaTime", 8)>>
      [] type = "LOCATION" ->
            <<Field("id", 2), Field("latitude", 4), Field("longitude", 4), Field("time", 8)>>
      [] OTHER -> <<>>

Contents(type) ==
    IF type \in NameTypes \cup {"NEW_FOLLOWED"}
    THEN {c \in NamesAfter(FixedFields(type)) : Len(Last(c.fields)) =< 2 * c.chars}
    ELSE {[fields |-> FixedFields(type), chars |-> 0]}

\* What the server sends, and under which key.
ServerKey(type) ==
    CASE type = "OPEN_ENCR" -> "None"
      [] type = "SYMMETRIC_KEY" -> "OuterRSA"
      [] type \in {"TEST_KEY", "OPEN_PROT", "ACK_OK", "ACK_ERR", "NEW_FOLLOWED", "LOCATION"} -> "AES"
      [] OTHER -> "unsent"

\* What the client sends, and under which key.
ClientKey(type) ==
    CASE type \in {"PUBLIC_KEY", "SYMMETRIC_KEY"} -> "ServerRSA"
      [] type \in {"TEST_KEY", "CLOSE", "ACK_OK", "MY_LOCATION"} \cup NameTypes -> "AES"
      [] OTHER -> "unsent"

KeyOf(from, type) == IF from = "server" THEN ServerKey(type) ELSE ClientKey(type)

PacketsOf(from, type) ==
    {[from |-> from, type |-> type, key |-> KeyOf(from, type), fields |-> c.fields, chars |-> c.chars] :
        c \in IF KeyOf(from, type) = "unsent" THEN {} ELSE Contents(type)}

Packets == UNION {PacketsOf(from, type) : from \in {"server", "client"}, type \in PacketTypes}

Nothing == [type |-> "nothing", fields |-> <<>>]

LayersInit ==
    /\ packet \in Packets
    /\ step = "given"
    /\ data = <<>>
    /\ cut = "nothing"
    /\ received = Nothing

-----------------------------------------------------------------------------
(* Packing: a step to "packed", or an exception *)

Go(to, what) == step' = to /\ data' = what
Fail == Go("failed", <<>>)

\* The 32 bytes of a std::string object: a pointer, a length, and 16 bytes that hold
\* the characters of a short string and the capacity of a long one.
StringObject(name) ==
    Field("pointer", 8) \o Field("length", 8)
        \o IF Len(name) < 16 THEN name \o Field("unused", 16 - Len(name))
                             ELSE Field("capacity", 8) \o Field("unused", 8)

ServerBytes(p) ==
    IF p.type = "NEW_FOLLOWED" THEN p.fields[1] \o StringObject(p.fields[2])
                               ELSE FlattenSeq(p.fields)

Gap(n) == [i \in 1..n |-> Zero]

\* getBuffer() of the client: floats are written to places that are 8 bytes apart.
JavaBytes(p) ==
    IF p.type = "MY_LOCATION"
    THEN p.fields[1] \o Gap(4) \o p.fields[2] \o Gap(4) \o p.fields[3]
    ELSE FlattenSeq(p.fields)

\* The array for a name has a byte for each character.
JavaFits(p) == p.type \in NameTypes => Len(p.fields[1]) =< p.chars

Pack ==
    /\ step = "given"
    /\ IF packet.from = "server"
       THEN Go("packed", <<TypeByte(Code[packet.type])>> \o ServerBytes(packet))
       ELSE IF JavaFits(packet)
            THEN Go("packed", <<TypeByte(JavaCode(packet.type))>> \o JavaBytes(packet))
            ELSE Fail
    /\ UNCHANGED <<packet, cut, received>>

-----------------------------------------------------------------------------
(* Encryption: a text becomes blocks *)

Block(key, text, size) == [key |-> key, text |-> text, size |-> size]

\* The parts of a text, n bytes long and starting every m bytes.
Parts(text, n, m) ==
    [i \in 1..((Len(text) + n - 1) \div n) |->
        SubSeq(text, (i - 1) * m + 1, IF i * n < Len(text) THEN (i - 1) * m + n
                                      ELSE Len(text) - (i - 1) * n + (i - 1) * m)]

MaxPlainTextLength == ClientBlock - Overhead
RSABlock(part) == Block("OuterRSA", part, ClientBlock)

EncryptRSA(text) ==
    LET parts == Parts(text, MaxPlainTextLength, MaxPlainTextLength)
    IN [i \in DOMAIN parts |-> RSABlock(parts[i])]

\* The last block is the only one with padding, and it always has some.
EncryptAES(text) ==
    [i \in 1..(Len(text) \div AesBlock + 1) |->
        Block("AES", SubSeq(text, (i - 1) * AesBlock + 1,
                            IF i * AesBlock < Len(text) THEN i * AesBlock ELSE Len(text)), AesBlock)]

Encrypt(key, text) ==
    CASE key = "None" -> <<Block("None", text, Len(text))>>
      [] key = "OuterRSA" -> EncryptRSA(text)
      [] key = "AES" -> EncryptAES(text)

\* Mutant: the offsets that the commented lines of receive() have.
JavaEncryptRSAOld(text) ==
    LET parts == Parts(text, 53, 22)
    IN [i \in DOMAIN parts |-> Block("ServerRSA", parts[i], 128)]

\* Mutant: slots of the size of the client's key.
JavaEncryptRSAHalf(text) ==
    LET parts == Parts(text, 53, 53)
    IN [i \in DOMAIN parts |-> Block("ServerRSA", parts[i], 64)]

\* The client puts each block into a slot of its array and sends the slots.
JavaEncryptRSA(text) ==
    LET parts == Parts(text, 53, 53)
    IN [i \in DOMAIN parts |-> Block("ServerRSA", parts[i], 128)]

JavaEncrypt(key, text) == IF key = "AES" THEN EncryptAES(text) ELSE JavaEncryptRSA(text)

\* The blocks of a text have one size.
SizeOf(blocks) == Len(blocks) * blocks[1].size

EncryptData ==
    /\ step = "packed"
    /\ LET blocks == IF packet.from = "server" THEN Encrypt(packet.key, data)
                                               ELSE JavaEncrypt(packet.key, data)
       IN IF packet.from = "client" /\ SizeOf(blocks) > Length
          THEN Fail
          ELSE Go("encrypted", blocks)
    /\ UNCHANGED <<packet, cut, received>>

-----------------------------------------------------------------------------
(* The wire *)

Send ==
    /\ step = "encrypted"
    /\ Go("sent", [length |-> SizeOf(data) % Word, blocks |-> data])
    /\ UNCHANGED <<packet, cut, received>>

\* The first n bytes of blocks of one size.
FirstBytes(blocks, n) ==
    LET size == blocks[1].size
        whole == n \div size
    IN SubSeq(blocks, 1, whole)
         \o IF n % size = 0 THEN <<>> ELSE <<[blocks[whole + 1] EXCEPT !.size = n % size]>>

\* The server asks until it has as many bytes as the length says.
ReceiveWhole ==
    /\ step = "sent"
    /\ Go("read", FirstBytes(data.blocks, data.length))
    /\ UNCHANGED <<packet, cut, received>>

\* The client asks once: it goes on with what was there.
ReceivePart(n) ==
    /\ step = "sent" /\ packet.from = "server"
    /\ n \in 1..(data.length - 1)
    /\ Go("read", FirstBytes(data.blocks, n))
    /\ cut' = "payload"
    /\ UNCHANGED <<packet, received>>

\* One byte of the length was there: the other, a zero, is read in front of the payload.
ReceiveShifted ==
    /\ step = "sent" /\ packet.from = "server"
    /\ Go("read", IF packet.key = "None" THEN <<Block("None", <<Zero>>, 1)>>
                                         ELSE <<Block("garbled", <<>>, data.length)>>)
    /\ cut' = "length"
    /\ UNCHANGED <<packet, received>>

-----------------------------------------------------------------------------
(* Decryption: the set of texts that may come out; none is an exception *)

IsWhole(b, key, size) == b.key = key /\ b.size = size
AllWhole(blocks, key, size) == \A i \in DOMAIN blocks : IsWhole(blocks[i], key, size)
Texts(blocks) == FlattenSeq([i \in DOMAIN blocks |-> blocks[i].text])

RSAOpens(b) == IsWhole(b, "ServerRSA", ServerBlock)
DecryptRSA(blocks) == IF \A i \in DOMAIN blocks : RSAOpens(blocks[i]) THEN {Texts(blocks)} ELSE {}

\* Without the block that has the padding, the end of the text may look like one.
DecryptAES(blocks) ==
    IF blocks = <<>> \/ ~AllWhole(blocks, "AES", AesBlock) THEN {}
    ELSE IF Len(Last(blocks).text) < AesBlock THEN {Texts(blocks)}
    ELSE LET text == Texts(blocks) IN {SubSeq(text, 1, Len(text) - n) : n \in 1..(AesBlock - 1)}

Decrypt(key, blocks) == IF key = "AES" THEN DecryptAES(blocks) ELSE DecryptRSA(blocks)

\* The client gives all it read to one doFinal of its own key. What it cannot decrypt it
\* takes for zeros, a packet OPEN, which parsing refuses.
JavaDecrypt(key, blocks) ==
    CASE key = "None" -> {Texts(blocks)}
      [] key = "OuterRSA" ->
            IF Len(blocks) = 1 /\ AllWhole(blocks, "OuterRSA", ClientBlock) THEN {Texts(blocks)} ELSE {}
      [] key = "AES" -> DecryptAES(blocks)

DecryptData ==
    /\ step = "read"
    /\ LET texts == IF packet.from = "client" THEN Decrypt(packet.key, data)
                                              ELSE JavaDecrypt(packet.key, data)
       IN IF texts # {} THEN \E text \in texts : Go("decrypted", text)
                        ELSE Fail
    /\ UNCHANGED <<packet, cut, received>>

\* Noise may look like a padded text of any type.
DecryptNoise ==
    /\ step = "read" /\ data[1].key = "garbled"
    /\ \E type \in PacketTypes : Go("decrypted", <<TypeByte(Code[type])>>)
    /\ UNCHANGED <<packet, cut, received>>

-----------------------------------------------------------------------------
(* Parsing: the packet that the reader makes of the bytes *)

TypeOf(code) == CHOOSE type \in PacketTypes : Code[type] = code
JavaTypeOf(code) == CHOOSE type \in PacketTypes : JavaCode(type) = code

Made(type, fields) == [type |-> type, fields |-> fields]

\* Bytes from place i on, as the handlers pop them one after the other.
Bytes(text, i, n) == SubSeq(text, i + 1, i + n)

\* A location must be 16 bytes, of which the first 12 are read.
ServerReads(type, text) ==
    IF type # "MY_LOCATION"
    THEN {Made(type, IF Len(text) = 1 /\ type \notin NameTypes THEN <<>> ELSE <<Tail(text)>>)}
    ELSE IF Len(text) # 1 + 16 THEN {}
    ELSE {Made(type, <<Bytes(text, 1, 4), Bytes(text, 5, 4), Bytes(text, 9, 4)>>)}

\* Behind the text the array of the client still holds the ciphertext.
JavaBytesAt(text, i, n) ==
    [k \in 1..n |-> IF i + k =< Len(text) THEN text[i + k] ELSE <<"ciphertext", i + k>>]

JavaReadsKey(type, text) ==
    CASE type \in {"SYMMETRIC_KEY", "TEST_KEY"} -> {Made(type, <<Tail(text)>>)}
      [] type = "OPEN_ENCR" -> {Made(type, <<>>)}

\* A NEW_FOLLOWED without its id would give the name a negative length.
JavaReads(type, text) ==
    CASE type \in {"OPEN_PROT", "ACK_OK", "ACK_ERR", "CLOSE", "ALIVE"} -> {Made(type, <<>>)}
      [] type \in {"OPEN_ENCR", "SYMMETRIC_KEY", "TEST_KEY"} -> JavaReadsKey(type, text)
      [] type = "NEW_FOLLOWED" ->
            IF Len(text) < 3 THEN {}
            ELSE {Made(type, <<JavaBytesAt(text, 1, 2), SubSeq(text, 4, Len(text))>>)}
      [] type = "LOCATION" ->
            {Made(type, <<JavaBytesAt(text, 1, 2), JavaBytesAt(text, 3, 4),
                          JavaBytesAt(text, 11, 4), JavaBytesAt(text, 19, 8)>>)}
      [] OTHER -> {}

\* Without encryption the client knows the packets that have no fields.
JavaReadsPlain(type) ==
    IF type \in {"OPEN", "CLOSE", "ACK_ERR", "ACK_OK", "ALIVE", "OPEN_ENCR"} THEN {Made(type, <<>>)}
                                                                            ELSE {}

Reads(text) ==
    LET code == text[1][2]
    IN CASE packet.from = "client" -> ServerReads(TypeOf(code), text)
         [] packet.key = "None" -> JavaReadsPlain(JavaTypeOf(code))
         [] OTHER -> JavaReads(JavaTypeOf(code), text)

Parse ==
    /\ step = "decrypted"
    /\ IF Reads(data) = {}
       THEN Fail /\ UNCHANGED received
       ELSE received' \in Reads(data) /\ Go("done", <<>>)
    /\ UNCHANGED <<packet, cut>>

LayersNext ==
    \/ Pack \/ EncryptData \/ Send
    \/ ReceiveWhole \/ ReceiveShifted
    \/ \E n \in 1..Length : ReceivePart(n)
    \/ DecryptData \/ DecryptNoise \/ Parse

LayersSpec == LayersInit /\ [][LayersNext]_layersVars

-----------------------------------------------------------------------------
(* Properties *)

Disagreed == {"NEW_FOLLOWED", "MY_LOCATION", "LOCATION"}

\* A packet of a type whose fields both sides lay out alike, read whole, is the
\* packet that was sent, whatever its number of blocks.
RoundTrip ==
    step = "done" /\ cut = "nothing" /\ packet.type \notin Disagreed =>
        received = Made(packet.type, packet.fields)

\* The type of a packet survives even when the client reads a part of it, unless it
\* lost its place in the stream.
TypeKept == step = "done" /\ cut # "length" => received.type = packet.type

WideName == packet.type \in NameTypes /\ Len(packet.fields[1]) > packet.chars
LongName == packet.type \in NameTypes /\ packet.chars >= Length - 1

\* No layer refuses a packet but for these causes: a read that was cut short, a name
\* with a character of two bytes, a name that fills the client's array, and the location
\* of a client, whose length the server does not accept.
FailsForCause ==
    step = "failed" => cut # "nothing" \/ WideName \/ LongName \/ packet.type = "MY_LOCATION"

-----------------------------------------------------------------------------
(* What the code promises and does not keep: TLC refutes each. *)

\* A location that the server sends arrives at the client (LOCATION).
PlacesArrive ==
    step = "done" /\ cut = "nothing" /\ packet.type = "LOCATION" => received.fields = packet.fields

\* The name of a new followed client arrives (NEW_FOLLOWED).
NamesArrive ==
    step = "done" /\ cut = "nothing" /\ packet.type = "NEW_FOLLOWED" => received.fields = packet.fields

\* The server accepts the location of a client (MY_LOCATION).
PositionsAccepted == step = "failed" => packet.type # "MY_LOCATION"

\* Every name can be sent.
AnyNameSent == step = "failed" => ~WideName
=============================================================================
