---------------------------- MODULE WireProtocol ----------------------------
(***************************************************************************)
(* internal/protocol: the framing of a message, and what the TCP and UDP   *)
(* servers make of the bytes they read.  A frame is a sequence of cells,   *)
(* one for each field of the header and one for each byte of the payload.  *)
(* A stream is cut anywhere by TCP; a datagram is lost, reordered or cut   *)
(* to the read buffer by UDP; either may damage a cell.                    *)
(***************************************************************************)
EXTENDS Integers, Sequences, SequencesExt, FiniteSets

CONSTANTS
    Bytes,          \* what a payload byte may be
    MaxPayload,     \* bound: bytes of a payload
    MaxFrames,      \* bound: frames a peer sends
    StreamBuf,      \* cells a read of the stream takes at most
    DatagramBuf,    \* cells of a datagram a read keeps at most
    MaxDamage       \* bound: cells the network damages

VARIABLES
    transport,      \* "tcp" or "udp"
    codec,          \* the codec of the peer, and that of the receiver
    net,            \* what is under way: one stream (TCP), or datagrams (UDP)
    sent,           \* history: the frames sent
    damaged,        \* history: cells damaged so far
    read            \* what the last read returned, {} or one sequence in a set

wireVars == <<transport, codec, net, sent, damaged, read>>

MagicNumber == 1000
ProtocolVersion == 1
ProtocolHeaderSize == 8
CodecTypes == {0, 1}                \* CodecTypeJSON, CodecTypeBinary
MessageTypeRequest == 1
Noise == -1                         \* what a damaged cell holds

Payloads == UNION {[1 .. n -> Bytes] : n \in 1 .. MaxPayload}

\* crc32.ChecksumIEEE is injective on payloads of one length up to four bytes.
Checksum(payload) ==
    FoldLeft(LAMBDA acc, b : 8 * acc + (IF b = Noise THEN 7 ELSE b), 0, payload)

\* What a payload may be when it arrives.
Received == UNION {[1 .. n -> Bytes \cup {Noise}] : n \in 1 .. MaxPayload}

ASSUME WireAssumption ==
    /\ Bytes \subseteq 0 .. 255
    /\ MaxPayload \in Nat /\ MaxFrames \in Nat /\ MaxDamage \in Nat
    /\ StreamBuf \in Nat \ {0} /\ DatagramBuf \in Nat \ {0}

\* The bound on payloads keeps to where the checksum tells them apart.
ASSUME ChecksumAssumption ==
    \A p \in Received : /\ Checksum(p) \in Nat
                        /\ \A q \in Received : Len(p) = Len(q) /\ Checksum(p) = Checksum(q) => p = q

Header(data) ==
    [Magic |-> data[1], Version |-> data[2], Type |-> data[3], MessageID |-> data[4],
     Codec |-> data[5], Reserved |-> data[6], DataLength |-> data[7], Checksum |-> data[8]]

PayloadOf(data) == SubSeq(data, ProtocolHeaderSize + 1, Len(data))

Encode(c, type, id, payload) ==
    <<MagicNumber, ProtocolVersion, type, id, c, 0, Len(payload), Checksum(payload)>> \o payload

\* Mutant: a frame may be followed by more.
DecodeLengthAtLeast(c, data) ==
    /\ Len(data) >= ProtocolHeaderSize
    /\ LET h == Header(data)
           payload == SubSeq(data, ProtocolHeaderSize + 1, ProtocolHeaderSize + h.DataLength) IN
        /\ h.Magic = MagicNumber
        /\ h.Version = ProtocolVersion /\ h.Codec = c
        /\ h.DataLength >= 0 /\ Len(data) - ProtocolHeaderSize >= h.DataLength
        /\ h.Checksum = Checksum(payload)

\* Decode returns no error (the codec itself decodes what the peer's encoded).
Decode(c, data) ==
    /\ Len(data) >= ProtocolHeaderSize
    /\ LET h == Header(data) IN
        /\ h.Magic = MagicNumber
        /\ h.Version = ProtocolVersion /\ h.Codec = c
        /\ Len(data) - ProtocolHeaderSize = h.DataLength
        /\ h.Checksum = Checksum(PayloadOf(data))

\* ParseHeader returns no error.
ParseHeader(data) ==
    /\ Len(data) >= ProtocolHeaderSize
    /\ Header(data).Magic = MagicNumber

\* What the servers hand to the handler of a read: the rest of it, if the header parses.
Delivered(data) == IF ParseHeader(data) THEN {PayloadOf(data)} ELSE {}

WireTypeOK ==
    /\ transport \in {"tcp", "udp"}
    /\ codec \in [peer : CodecTypes, receiver : CodecTypes]
    /\ damaged \in 0 .. MaxDamage
    /\ Len(sent) <= MaxFrames
    /\ Cardinality(read) <= 1
    /\ transport = "tcp" => Len(net) <= 1
    /\ \A i \in DOMAIN net : net[i] \in Seq(Int)

WireInit ==
    /\ transport \in {"tcp", "udp"}
    /\ codec \in [peer : CodecTypes, receiver : CodecTypes]
    /\ net = <<>> /\ sent = <<>> /\ damaged = 0 /\ read = {}

Send(type, payload) ==
    LET frame == Encode(codec.peer, type, Len(sent) + 1, payload) IN
    /\ Len(sent) < MaxFrames
    /\ sent' = Append(sent, frame)
    /\ net' = IF transport = "udp" \/ net = <<>> THEN Append(net, frame)
              ELSE <<net[1] \o frame>>
    /\ UNCHANGED <<transport, codec, damaged, read>>

Damage(i, k) ==
    /\ damaged < MaxDamage /\ net[i][k] # Noise
    /\ net' = [net EXCEPT ![i][k] = Noise]
    /\ damaged' = damaged + 1
    /\ UNCHANGED <<transport, codec, sent, read>>

\* conn.Read: some of the stream's next bytes, as many as the buffer holds.
ReadStream(n) ==
    /\ transport = "tcp"
    /\ read' = {SubSeq(net[1], 1, n)}
    /\ net' = IF n = Len(net[1]) THEN <<>> ELSE <<SubSeq(net[1], n + 1, Len(net[1]))>>
    /\ UNCHANGED <<transport, codec, sent, damaged>>

\* conn.ReadFromUDP: some datagram, what the buffer does not hold cut off.
ReadDatagram(i) ==
    /\ transport = "udp"
    /\ read' = {SubSeq(net[i], 1, Min({DatagramBuf, Len(net[i])}))}
    /\ net' = RemoveAt(net, i)
    /\ UNCHANGED <<transport, codec, sent, damaged>>

Lose(i) ==
    /\ transport = "udp"
    /\ net' = RemoveAt(net, i)
    /\ UNCHANGED <<transport, codec, sent, damaged, read>>

WireNext ==
    \/ \E payload \in Payloads : Send(MessageTypeRequest, payload)
    \/ \E i \in DOMAIN net : Lose(i) \/ ReadDatagram(i)
    \/ \E i \in DOMAIN net : \E k \in DOMAIN net[i] : Damage(i, k)
    \/ net # <<>> /\ \E n \in 1 .. Len(net[1]) : n <= StreamBuf /\ ReadStream(n)

WireSpec == WireInit /\ [][WireNext]_wireVars

----------------------------------------------------------------------------
(* Properties.                                                             *)

\* Decode tells whole frames from all else: it accepts a read only if it is
\* exactly one frame of the same codec whose payload arrived as it was sent,
\* wherever the stream was cut and whatever cell was damaged, and it accepts
\* every frame that arrived whole (custom_protocol.go 132-198).  The servers,
\* which parse the header only, lose nothing that it accepts (tcp.go 259-279).
DecodeExact ==
    \A data \in read :
        /\ Decode(codec.receiver, data) =>
            \E i \in DOMAIN sent : /\ Len(sent[i]) = Len(data)
                                   /\ PayloadOf(sent[i]) = PayloadOf(data)
                                   /\ codec.peer = codec.receiver
        /\ data \in Range(sent) /\ codec.peer = codec.receiver =>
            Decode(codec.receiver, data)
        /\ Decode(codec.receiver, data) => Delivered(data) = {PayloadOf(data)}

\* No cell of a frame but its first is the magic number: true of what is sent here, while
\* the code allows a payload with a frame in it, which a cut of the stream may lay bare.
MagicMarks ==
    /\ MaxFrames < MagicNumber /\ MaxPayload < MagicNumber /\ MagicNumber \notin Bytes
    /\ \A p \in Payloads : Checksum(p) # MagicNumber

\* docs/tcp-udp-guide.md: the checksum detects transmission errors, and the
\* length field solves sticky and partial packets: what a handler is given is
\* the payload of a message somebody sent.
WholeMessages ==
    \A data \in read : \A p \in Delivered(data) : \E i \in DOMAIN sent : p = PayloadOf(sent[i])
============================================================================
