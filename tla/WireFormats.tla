----------------------------- MODULE WireFormats -----------------------------
(* The byte layouts two ends of a connection agree on: NetworkEnvelope         *)
(* (network/lib.rs), its SGM1 frame (message_transport.rs), the ratchet header *)
(* with its associated data (messenger/message.rs), the packets of ChatSession *)
(* (chat.rs), QR data (qr.rs) and the pluggable transports with their selector *)
(* (transports.rs).  Something is encoded, cut short or extended on the way,   *)
(* and decoded.  Bytes are numbers, and a layout keeps the code's widths; a    *)
(* value is a body and an extra part: padding, associated data or a header.    *)
(* An envelope's type is Message, one of the bytes that always decode.         *)
EXTENDS Naturals, Sequences, SequencesExt

CONSTANTS
  WireBodies,      \* bodies and extra parts, sequences of bytes
  MaxFrame,        \* MAX_FRAME_BYTES
  MaxTransports    \* bound: transports added to the selector

ASSUME WireAssumption ==
  /\ WireBodies # {}
  /\ \A b \in WireBodies : b \in Seq(0..255) /\ Len(b) < 1000000000   \* lengths fit 32 bits
  /\ MaxFrame \in Nat /\ MaxTransports \in Nat

VARIABLES
  transports,      \* available: the types added to the selector, in order
  wireFormat,      \* the layout of what is on the wire
  wireSent,        \* the value that was encoded
  wireBytes,       \* the bytes on the wire
  wireDamage,      \* what happened to them: "none", "cut" or "extended"
  wireRead,        \* what decoding gave: no value or one
  wireStage        \* "idle", "sent", "refused" or "read"

wireVars == <<transports, wireFormat, wireSent, wireBytes, wireDamage, wireRead, wireStage>>

TransportTypes == {"direct", "websocket", "http", "obfs"}
WireFormatNames == TransportTypes \cup {"network", "frame", "header", "chat", "qr"}

\* u32::to_le_bytes() and to_be_bytes() of a length, and back.
LittleEndian(n) ==
  <<n % 256, (n \div 256) % 256, (n \div 65536) % 256, (n \div 16777216) % 256>>
BigEndian(n) == Reverse(LittleEndian(n))
Word(bytes, at) == bytes[at] + 256 * bytes[at + 1] + 65536 * bytes[at + 2]
                   + 16777216 * bytes[at + 3]
NetworkWord(bytes, at) == Word(Reverse(SubSeq(bytes, at, at + 3)), 1)

FrameMagic == <<83, 71, 77, 49>>
QrMagic == <<83, 71, 82, 65, 77>>
Timestamp == [i \in 1..8 |-> 9]

\* The fields of a ratchet header before its associated data.
FixedHeader == [i \in 1..48 |-> 5]

WireValue(body, extra) == [body |-> body, extra |-> extra]

\* What can be sent in each layout.  A chat packet holds a header, and the data
\* of a QR code a whole public identity, here the longest body.
LongestBody == CHOOSE b \in WireBodies : \A c \in WireBodies : Len(c) <= Len(b)
WireValues(format) ==
  CASE format = "header" -> {WireValue(FixedHeader, e) : e \in WireBodies}
    [] format = "qr" -> {WireValue(LongestBody, <<>>)}
    [] format \in TransportTypes -> {WireValue(b, <<>>) : b \in WireBodies}
    [] format = "chat" -> {WireValue(b, LongestBody) : b \in WireBodies}
    [] OTHER -> {WireValue(b, e) : b \in WireBodies, e \in WireBodies}

WireTypeOK ==
  /\ transports \in UNION {[1..n -> TransportTypes] : n \in 0..MaxTransports}
  /\ wireFormat \in WireFormatNames
  /\ wireStage # "idle" => wireSent \in WireValues(wireFormat)
  /\ wireStage \in {"idle", "sent", "refused", "read"}
  /\ wireDamage \in {"none", "cut", "extended"}

-----------------------------------------------------------------------------
(* Encoders: the bytes, or nothing when the encoder refuses.                   *)

NetworkBytes(v) ==
  <<3>> \o LittleEndian(Len(v.body)) \o LittleEndian(Len(v.extra)) \o v.body \o v.extra \o Timestamp

EncodeFrame(v) ==
  IF Len(NetworkBytes(v)) > MaxFrame THEN {}
  ELSE {FrameMagic \o LittleEndian(Len(NetworkBytes(v))) \o NetworkBytes(v)}

HeaderBytes(v) == v.body \o LittleEndian(Len(v.extra)) \o v.extra

\* Base64 text: four characters for each group of up to three bytes.
Group(body, g) == SubSeq(body, 3 * g - 2, IF 3 * g < Len(body) THEN 3 * g ELSE Len(body))
Base64(body) ==
  [i \in 1..(4 * ((Len(body) + 2) \div 3)) |->
     [group |-> Group(body, (i + 3) \div 4), at |-> (i - 1) % 4]]

Encode(format, v) ==
  CASE format = "network" -> {NetworkBytes(v)}
    [] format = "frame" -> EncodeFrame(v)
    [] format = "header" -> {HeaderBytes(v)}
    [] format = "chat" -> {LittleEndian(Len(v.extra)) \o v.extra \o v.body}
    [] format = "qr" -> {QrMagic \o v.body}
    [] format = "websocket" -> {BigEndian(Len(v.body)) \o v.body}
    [] format = "http" -> {Base64(v.body)}
    [] format = "direct" -> {v.body}
    [] format = "obfs" -> {}

-----------------------------------------------------------------------------
(* Decoders: the value, or nothing on an error.                                *)

\* NetworkEnvelope::deserialize(): the length must be exact.
DecodeNetwork(bytes) ==
  IF bytes = <<>> \/ Len(bytes) < 17 THEN {}
  ELSE LET body == Word(bytes, 2)
           extra == Word(bytes, 6)
       IN IF Len(bytes) # 17 + body + extra \/ Head(bytes) \notin 1..5 THEN {}
          ELSE {WireValue(SubSeq(bytes, 10, 9 + body), SubSeq(bytes, 10 + body, 9 + body + extra))}

\* decode_frame(): bytes after the frame are not looked at.
DecodeFrame(bytes) ==
  IF Len(bytes) < 8 THEN {}
  ELSE IF SubSeq(bytes, 1, 4) # FrameMagic \/ Len(bytes) < 8 + Word(bytes, 5) THEN {}
  ELSE DecodeNetwork(SubSeq(bytes, 9, 8 + Word(bytes, 5)))

\* Mutant of DecodeHeader: the associated data is as much as there is.
DecodeHeaderShort(bytes) ==
  IF Len(bytes) < 48 THEN {}
  ELSE IF Len(bytes) = 48 THEN {WireValue(SubSeq(bytes, 1, 48), <<>>)}
  ELSE IF Len(bytes) < 52 THEN {}
  ELSE {WireValue(SubSeq(bytes, 1, 48), SubSeq(bytes, 53, Len(bytes)))}

\* MessageHeader::deserialize(): 48 bytes alone are a header without data.
DecodeHeader(bytes) ==
  IF Len(bytes) < 48 THEN {}
  ELSE IF Len(bytes) = 48 THEN {WireValue(SubSeq(bytes, 1, 48), <<>>)}
  ELSE IF Len(bytes) < 52 THEN {}
  ELSE IF Len(bytes) < 52 + Word(bytes, 49) THEN {}
  ELSE {WireValue(SubSeq(bytes, 1, 48), SubSeq(bytes, 53, 52 + Word(bytes, 49)))}

\* ChatSession::decrypt(), up to the ratchet: the ciphertext is all the rest.
DecodeChat(bytes) ==
  IF Len(bytes) < 4 THEN {}
  ELSE IF Len(bytes) < 4 + Word(bytes, 1) THEN {}
  ELSE {WireValue(SubSeq(bytes, 5 + Word(bytes, 1), Len(bytes)), SubSeq(bytes, 5, 4 + Word(bytes, 1)))}

\* QrCode::extract_identity(): bincode needs the whole identity and ignores what
\* follows it.
DecodeQr(bytes) ==
  IF Len(bytes) < 5 THEN {}
  ELSE IF SubSeq(bytes, 1, 5) # QrMagic \/ ~IsPrefix(LongestBody, SubSeq(bytes, 6, Len(bytes)))
    THEN {} ELSE {WireValue(LongestBody, <<>>)}

DecodeWs(bytes) ==
  IF Len(bytes) < 4 THEN {}
  ELSE IF Len(bytes) < 4 + NetworkWord(bytes, 1) THEN {}
  ELSE {WireValue(SubSeq(bytes, 5, 4 + NetworkWord(bytes, 1)), <<>>)}

\* decode_http(): only whole groups are text in base64.
DecodeHttp(text) ==
  IF Len(text) % 4 # 0 THEN {}
  ELSE {WireValue(FlattenSeq([g \in 1..(Len(text) \div 4) |-> text[4 * g].group]), <<>>)}

Decode(format, bytes) ==
  CASE format = "network" -> DecodeNetwork(bytes)
    [] format = "frame" -> DecodeFrame(bytes)
    [] format = "header" -> DecodeHeader(bytes)
    [] format = "chat" -> DecodeChat(bytes)
    [] format = "qr" -> DecodeQr(bytes)
    [] format = "websocket" -> DecodeWs(bytes)
    [] format = "http" -> DecodeHttp(bytes)
    [] format = "direct" -> {WireValue(bytes, <<>>)}
    [] format = "obfs" -> {}

-----------------------------------------------------------------------------
WireInit ==
  /\ transports = <<>>
  /\ wireFormat = "network" /\ wireSent = WireValue(<<>>, <<>>) /\ wireBytes = <<>>
  /\ wireDamage = "none" /\ wireRead = {} /\ wireStage = "idle"

\* TransportSelector::add_transport()
AddTransport ==
  /\ Len(transports) < MaxTransports /\ wireStage = "idle"
  /\ \E t \in TransportTypes : transports' = Append(transports, t)
  /\ UNCHANGED <<wireFormat, wireSent, wireBytes, wireDamage, wireRead, wireStage>>

\* The places of the transports that are available: the obfuscating one never is.
Available == {i \in 1..Len(transports) : transports[i] # "obfs"}

\* select(): the preferred transport if it was added and is available, or else
\* the first that is.
Selected(preferred) ==
  IF \E i \in Available : transports[i] = preferred THEN {preferred}
  ELSE {transports[i] : i \in {j \in Available : \A k \in Available : j <= k}}

Send(format) ==
  /\ wireStage # "sent"
  /\ wireFormat' = format /\ wireDamage' = "none" /\ wireRead' = {}
  /\ \E v \in WireValues(format) :
       /\ wireSent' = v
       /\ IF Encode(format, v) = {}
            THEN wireStage' = "refused" /\ wireBytes' = <<>>
            ELSE wireStage' = "sent" /\ wireBytes' \in Encode(format, v)
  /\ UNCHANGED transports

SendFormat == \E format \in WireFormatNames \ TransportTypes : Send(format)
SendSelected == \E preferred \in TransportTypes \cup {"none"} :
                  \E t \in Selected(preferred) : Send(t)

\* The connection ends early, or one more byte (or character) follows.
Damage ==
  /\ wireStage = "sent" /\ wireDamage = "none"
  /\ \/ /\ \E n \in 0..(Len(wireBytes) - 1) : wireBytes' = SubSeq(wireBytes, 1, n)
        /\ wireDamage' = "cut"
     \/ /\ wireBytes' = Append(wireBytes, IF wireFormat = "http" THEN [group |-> <<>>, at |-> 0] ELSE 1)
        /\ wireDamage' = "extended"
  /\ UNCHANGED <<transports, wireFormat, wireSent, wireRead, wireStage>>

Receive ==
  /\ wireStage = "sent"
  /\ wireRead' = Decode(wireFormat, wireBytes)
  /\ wireStage' = "read"
  /\ UNCHANGED <<transports, wireFormat, wireSent, wireBytes, wireDamage>>

WireNext == AddTransport \/ SendFormat \/ SendSelected \/ Damage \/ Receive

WireSpec == WireInit /\ [][WireNext]_wireVars

-----------------------------------------------------------------------------
\* What arrives whole is read as it was sent, and only a frame too long is ever
\* refused.  A network envelope that was cut or extended is an error, and so is a
\* frame that was cut.  No cut or extension turns a value into another one of a
\* layout that carries its own length, with one exception: a ratchet header cut
\* after 48 bytes is read as one without associated data (message.rs:391).  The
\* layouts that take all the rest may change the body but never the header.  Of a
\* frame with bytes behind it nothing is said: decode_frame() is documented to
\* want an exact frame (message_transport.rs:51), and ignores them.
WireReadsBack ==
  /\ wireStage = "refused" => wireFormat = "frame"
  /\ wireStage = "read" =>
       /\ wireDamage = "none" => wireRead = {wireSent}
       /\ \/ wireDamage = "cut" /\ wireFormat \in {"network", "frame"}
          \/ wireDamage = "extended" /\ wireFormat = "network"
            => wireRead = {}
       /\ wireFormat # "frame" \/ wireDamage # "extended" => \A v \in wireRead :
            /\ v.extra = wireSent.extra \/ (wireFormat = "header" /\ Len(wireBytes) = 48 /\ v.extra = <<>>)
            /\ v.body = wireSent.body \/ wireFormat \in {"direct", "http", "chat"}
=============================================================================
