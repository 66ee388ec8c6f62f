----------------------------- MODULE WireCodecs -----------------------------
(* The encoders and decoders of addresses, datagrams and frames in the   *)
(* proxy protocols, byte by byte.  A byte holds 0..Base-1 instead of     *)
(* 0..255, an IPv4 address V4Len bytes and an IPv6 address V6Len: the     *)
(* offsets, the length checks and the casts to one byte are the code's.  *)
EXTENDS Naturals, Sequences, SequencesExt, FiniteSetsExt

CONSTANTS Base, V4Len, V6Len

ASSUME CodecSizes == Base >= 8 /\ V4Len >= 2 /\ V6Len > V4Len

VARIABLES
    item,       \* the codec, and what is encoded with it
    bytes,      \* the encoding, or <<>> before it is made
    got         \* what the decoder made of the part that arrived

codecVars == <<item, bytes, got>>

Max1 == Base - 1
Be(n) == <<(n \div Base) % Base, n % Base>>
Num(s, i) == s[i] * Base + s[i + 1]
From(s, i) == SubSeq(s, i, Len(s))
Crlf == <<6, 7>>
HasCrlf(s, i) == Len(s) >= i + 1 /\ s[i] = 6 /\ s[i + 1] = 7

Refused == [ok |-> FALSE, why |-> "err"]
Panicked == [ok |-> FALSE, why |-> "panic"]
Decoded(addr, port, rest) == [ok |-> TRUE, addr |-> addr, port |-> port, rest |-> rest]

--------------------------------------------------------------------------
(* The two numberings of the address types in use. *)
SocksCodes == [v4 |-> 1, dom |-> 3, v6 |-> 4]
PlainCodes == [v4 |-> 1, dom |-> 2, v6 |-> 3]

(* A domain's length goes into one byte: cast, asserted or clamped. *)
PutDomain(rule, d) ==
    LET n == IF rule = "clamp" /\ Len(d) > Max1 THEN Max1 ELSE Len(d)
    IN  <<n % Base>> \o SubSeq(d, 1, n)
PutAddr(codes, rule, a) ==
    <<codes[a.kind]>> \o (IF a.kind = "dom" THEN PutDomain(rule, a.b) ELSE a.b)
Asserts(rule, a) == rule = "assert" /\ a.kind = "dom" /\ Len(a.b) > Max1

(* read_address and its copies: the type, then the body, each behind a    *)
(* length check of its own; n is the number of bytes it took.             *)
BodyStart(codes, s) == IF s[1] = codes.dom THEN 3 ELSE 2
BodyLen(codes, s) ==
    IF s[1] = codes.v4 THEN V4Len ELSE IF s[1] = codes.v6 THEN V6Len ELSE s[2]
GetAddr(codes, s) ==
    IF s = <<>> THEN Refused
    ELSE IF s[1] \notin {codes[k] : k \in DOMAIN codes} THEN Refused
    ELSE IF s[1] = codes.dom /\ Len(s) < 2 THEN Refused
    ELSE LET from == BodyStart(codes, s)
             n == from - 1 + BodyLen(codes, s)
         IN  IF Len(s) < n THEN Refused
             ELSE [ok |-> TRUE, n |-> n,
                   addr |-> [kind |-> CHOOSE k \in DOMAIN codes : codes[k] = s[1],
                             b |-> SubSeq(s, from, n)]]

(* Address, then port. *)
BugGetAddrPort(codes, s) ==
    LET a == GetAddr(codes, s)
    IN  IF ~a.ok THEN Refused
        ELSE IF Len(s) < a.n + 2 THEN Decoded(a.addr, 0, <<>>)
        ELSE Decoded(a.addr, Num(s, a.n + 1), From(s, a.n + 3))
GetAddrPort(codes, s) ==
    LET a == GetAddr(codes, s)
    IN  IF ~a.ok THEN Refused
        ELSE IF Len(s) < a.n + 2 THEN Refused
        ELSE Decoded(a.addr, Num(s, a.n + 1), From(s, a.n + 3))

(* Port, then address. *)
GetPortAddr(s) ==
    IF Len(s) < 2 THEN Refused
    ELSE LET a == GetAddr(PlainCodes, From(s, 3))
         IN  IF ~a.ok THEN Refused ELSE Decoded(a.addr, Num(s, 1), From(s, a.n + 3))

--------------------------------------------------------------------------
SocksEncodeAddrPort(x) == PutAddr(SocksCodes, "cast", x.addr) \o Be(x.port)
SocksDecodeAddrPort(s) == GetAddrPort(SocksCodes, s)

(* The datagram's header size leaves the port out, so the payload that     *)
(* decode_udp_packet returns starts with the two bytes of the port.        *)
SocksAddrWireSize(a) == 1 + (IF a.kind = "dom" THEN 1 ELSE 0) + Len(a.b)
SocksEncodeUdp(x) == <<0, 0, 0>> \o SocksEncodeAddrPort(x) \o x.data
SocksDecodeUdp(s) ==
    IF Len(s) < 3 THEN Refused
    ELSE IF s[3] # 0 THEN Refused
    ELSE LET d == SocksDecodeAddrPort(From(s, 4))
         IN  IF ~d.ok THEN Refused
             ELSE [d EXCEPT !.rest = From(s, 3 + SocksAddrWireSize(d.addr) + 1)]

(* One byte stands for the key.  The command and the type are indexed     *)
(* before their presence is checked.                                      *)
TrojanWriteAddress(a) == PutAddr(SocksCodes, "assert", a)
TrojanWriteTcpHeader(x) == <<0>> \o Crlf \o <<1>> \o TrojanWriteAddress(x.addr) \o Be(x.port) \o Crlf \o x.data
TrojanReadHeader(s) ==
    IF Len(s) < 3 THEN Refused
    ELSE IF ~HasCrlf(s, 2) THEN Refused
    ELSE IF Len(s) < 5 THEN Panicked
    ELSE LET d == GetAddrPort(SocksCodes, From(s, 5))
         IN  IF ~d.ok THEN Refused
             ELSE IF ~HasCrlf(d.rest, 1) \/ s[4] \notin {1, 3} THEN Refused
             ELSE [d EXCEPT !.rest = From(@, 3)]

(* The length that a datagram carries is read and not used. *)
TrojanWriteUdp(x) == TrojanWriteAddress(x.addr) \o Be(x.port) \o Be(Len(x.data)) \o Crlf \o x.data
TrojanReadUdp(s) ==
    LET d == GetAddrPort(SocksCodes, s)
    IN  IF ~d.ok THEN Refused
        ELSE IF ~HasCrlf(d.rest, 3) THEN Refused
        ELSE [d EXCEPT !.rest = From(@, 5)]

SsWriteAddress(x) == PutAddr(SocksCodes, "assert", x.addr) \o Be(x.port) \o x.data
SsReadAddress(s) == GetAddrPort(SocksCodes, s)
SsEncodeUdp(x) == PutAddr(SocksCodes, "cast", x.addr) \o Be(x.port) \o x.data
SsDecodeUdp(s) == GetAddrPort(SocksCodes, s)

(* decode_target wants 18 bytes of an IPv6 target and reads the 19th. *)
Ss2022EncodeTarget(x) == PutAddr(PlainCodes, "cast", x.addr) \o Be(x.port)
Ss2022DecodeTarget(s) ==
    LET d == GetAddrPort(PlainCodes, s)
    IN  IF ~d.ok /\ s # <<>> /\ s[1] = PlainCodes.v6 /\ Len(s) = V6Len + 2
        THEN Panicked ELSE d

(* Version and UUID are one byte each; no addons. *)
VlessEncodeAddress(a) == PutAddr(PlainCodes, "clamp", a)
VlessEncodeHeader(x) == <<0, 0, 0, 1>> \o Be(x.port) \o VlessEncodeAddress(x.addr)
VlessDecodeHeader(s) ==
    IF Len(s) < 4 THEN Refused
    ELSE IF s[1] # 0 \/ s[4] \notin 1..4 THEN Refused
    ELSE IF s[4] \in {3, 4} THEN Decoded([kind |-> "v4", b |-> [i \in 1..V4Len |-> 0]], 0, <<>>)
    ELSE GetPortAddr(From(s, 5))

(* A length-prefixed packet is cut to what its length can say. *)
VlessEncodePacket(s) ==
    LET n == Min({Len(s), Base * Base - 1}) IN Be(n) \o SubSeq(s, 1, n)
VlessReadPacket(s) ==
    IF Len(s) < 2 THEN Refused
    ELSE IF Len(s) < 2 + Num(s, 1) THEN Refused
    ELSE [ok |-> TRUE, packet |-> SubSeq(s, 3, 2 + Num(s, 1)), rest |-> From(s, 3 + Num(s, 1))]

(* Padding length, command, port, address, padding, checksum.  The        *)
(* checksum covers everything before it.                                   *)
Authenticate(s) == SumSet({(i * (s[i] + 1)) % Base : i \in 1..Len(s)}) % Base
VmessEncodeHeader(x) ==
    LET pad == Len(x.data)
        head == <<pad, 1>> \o Be(x.port) \o PutAddr(PlainCodes, "cast", x.addr) \o x.data
    IN  head \o <<Authenticate(head)>>
VmessDecodeHeader(s) ==
    IF Len(s) < 2 THEN Refused
    ELSE LET d == GetPortAddr(From(s, 3))
         IN  IF ~d.ok THEN Refused
             ELSE IF Len(d.rest) < s[1] + 1 THEN Refused
             ELSE IF Authenticate(SubSeq(s, 1, Len(s) - Len(d.rest) + s[1])) # d.rest[s[1] + 1]
                  THEN Refused
             ELSE [d EXCEPT !.rest = SubSeq(@, 1, s[1])]

--------------------------------------------------------------------------
(* Mux frames: a New frame for session 5 to a UDP target with data.  The   *)
(* metadata is length-prefixed, the data too; GidLen bytes of global id    *)
(* are read when data is announced and enough metadata is left.            *)
GidLen == 2
MuxEncodeMeta(x) ==
    Be(5) \o <<1, IF x.data = <<>> THEN 0 ELSE 1>> \o <<2>> \o Be(x.port)
    \o PutAddr(PlainCodes, "clamp", x.addr) \o x.gid
MuxDecodeMeta(s) ==
    IF Len(s) < 5 THEN Refused
    ELSE IF s[3] # 1 \/ s[5] \notin {1, 2} THEN Refused
    ELSE LET d == GetPortAddr(From(s, 6))
         IN  IF ~d.ok THEN Refused
             ELSE [id |-> Num(s, 1), hasData |-> s[4] = 1, ok |-> TRUE,
                   addr |-> d.addr, port |-> d.port,
                   gid |-> IF s[5] = 2 /\ s[4] = 1 /\ Len(d.rest) >= GidLen
                           THEN SubSeq(d.rest, 1, GidLen) ELSE <<>>]

MuxEncodeFrame(x) ==
    LET meta == MuxEncodeMeta(x)
    IN  Be(Len(meta)) \o meta \o (IF x.data = <<>> THEN <<>> ELSE Be(Len(x.data)) \o x.data)
MuxReadFrame(s) ==
    IF Len(s) < 2 THEN Refused
    ELSE IF Len(s) < 2 + Num(s, 1) THEN Refused
    ELSE LET meta == MuxDecodeMeta(SubSeq(s, 3, 2 + Num(s, 1)))
             tail == From(s, 3 + Num(s, 1))
         IN  IF ~meta.ok THEN Refused
             ELSE IF ~meta.hasData THEN [ok |-> TRUE, addr |-> meta.addr, port |-> meta.port, gid |-> meta.gid, rest |-> <<>>]
             ELSE IF Len(tail) < 2 THEN Refused
             ELSE IF Len(tail) < 2 + Num(tail, 1) THEN Refused
             ELSE [ok |-> TRUE, addr |-> meta.addr, port |-> meta.port, gid |-> meta.gid,
                   rest |-> SubSeq(tail, 3, 2 + Num(tail, 1))]

--------------------------------------------------------------------------
(* mKCP segments.  conv, cmd and option, then three words of four bytes:   *)
(* timestamp, number and sending_next of data; receiving_window,           *)
(* receiving_next and timestamp of an acknowledgement; sending_next,       *)
(* receiving_next and peer_rto of a command.  Data goes on with its        *)
(* payload, an acknowledgement with the numbers it acknowledges.           *)
KcpAck == 0
KcpData == 1
KcpCommands == {2, 3}
KcpWord(n) == <<0, 0>> \o Be(n)
KcpWordAt(s, i) == Num(s, i) * Base * Base + Num(s, i + 2)
Segment(cmd, conv, opt, words, tail) ==
    [cmd |-> cmd, conv |-> conv, opt |-> opt, words |-> words, tail |-> tail]

KcpHead(g) == Be(g.conv) \o <<g.cmd, g.opt>> \o FlattenSeq([i \in 1..3 |-> KcpWord(g.words[i])])
KcpSerializeData(g) == KcpHead(g) \o Be(Len(g.tail)) \o g.tail
KcpSerializeAck(g) ==
    KcpHead(g) \o <<Len(g.tail) % Base>> \o FlattenSeq([i \in DOMAIN g.tail |-> KcpWord(g.tail[i])])
KcpSerializeCmd(g) == KcpHead(g)
KcpSerialize(g) ==
    CASE g.cmd = KcpData -> KcpSerializeData(g)
      [] g.cmd = KcpAck -> KcpSerializeAck(g)
      [] OTHER -> KcpSerializeCmd(g)

(* What stands behind the first four bytes.  DataSegment::parse wants a    *)
(* byte more than its header has, so data without payload passes only when *)
(* something follows it.                                                   *)
KcpParsed(g, s, n) == [ok |-> TRUE, seg |-> g, rest |-> From(s, n + 1)]
KcpWords(s) == <<KcpWordAt(s, 1), KcpWordAt(s, 5), KcpWordAt(s, 9)>>
KcpParseData(conv, opt, s) ==
    IF Len(s) < 15 THEN Refused
    ELSE LET n == 14 + Num(s, 13)
         IN  IF Len(s) < n THEN Refused
             ELSE KcpParsed(Segment(KcpData, conv, opt, KcpWords(s), SubSeq(s, 15, n)), s, n)
KcpParseAck(conv, opt, s) ==
    IF Len(s) < 13 THEN Refused
    ELSE LET n == 13 + 4 * s[13]
         IN  IF Len(s) < n THEN Refused
             ELSE KcpParsed(Segment(KcpAck, conv, opt, KcpWords(s),
                                    [i \in 1..s[13] |-> KcpWordAt(s, 10 + 4 * i)]), s, n)

(* CmdOnlySegment::parse moves its slice on and then skips the same four   *)
(* bytes again: it takes the third word for receiving_next and the word    *)
(* behind the segment for peer_rto, and panics where there is none.        *)
KcpParseCmd(cmd, conv, opt, s) ==
    IF Len(s) < 12 THEN Refused
    ELSE IF Len(s) < 16 THEN Panicked
    ELSE KcpParsed(Segment(cmd, conv, opt, <<KcpWordAt(s, 1), KcpWordAt(s, 9), KcpWordAt(s, 13)>>, <<>>), s, 12)

KcpReadSegment(s) ==
    IF Len(s) < 4 THEN Refused
    ELSE LET body == From(s, 5)
             conv == Num(s, 1)
         IN  CASE s[3] = KcpData -> KcpParseData(conv, s[4], body)
               [] s[3] = KcpAck -> KcpParseAck(conv, s[4], body)
               [] s[3] \in KcpCommands -> KcpParseCmd(s[3], conv, s[4], body)
               [] OTHER -> Refused

(* KcpPacketReader::read: segments from the start of a datagram until one  *)
(* does not parse; the rest is dropped.                                    *)
KcpReadPacket(s) ==
    LET read[i \in 1..Len(s) + 1] ==
          IF i > Len(s) THEN [ok |-> TRUE, segs |-> <<>>]
          ELSE LET r == KcpReadSegment(From(s, i))
               IN  IF r = Panicked THEN Panicked
                   ELSE IF ~r.ok THEN [ok |-> TRUE, segs |-> <<>>]
                   ELSE LET more == read[Len(s) + 1 - Len(r.rest)]
                        IN  IF more.ok THEN [ok |-> TRUE, segs |-> <<r.seg>> \o more.segs] ELSE more
    IN  read[1]

--------------------------------------------------------------------------
Encode(c, x) ==
    CASE c = "socks_addr" -> SocksEncodeAddrPort(x)
      [] c = "socks_udp" -> SocksEncodeUdp(x)
      [] c = "trojan_tcp" -> TrojanWriteTcpHeader(x)
      [] c = "trojan_udp" -> TrojanWriteUdp(x)
      [] c = "ss_tcp" -> SsWriteAddress(x)
      [] c = "ss_udp" -> SsEncodeUdp(x)
      [] c = "ss2022" -> Ss2022EncodeTarget(x)
      [] c = "vless" -> VlessEncodePacket(VlessEncodeHeader(x))
      [] c = "vmess" -> VmessEncodeHeader(x)
      [] c = "mux" -> MuxEncodeFrame(x)
      [] c = "kcp" -> FlattenSeq([i \in DOMAIN x.segs |-> KcpSerialize(x.segs[i])])
Decode(c, s) ==
    CASE c = "socks_addr" -> SocksDecodeAddrPort(s)
      [] c = "socks_udp" -> SocksDecodeUdp(s)
      [] c = "trojan_tcp" -> TrojanReadHeader(s)
      [] c = "trojan_udp" -> TrojanReadUdp(s)
      [] c = "ss_tcp" -> SsReadAddress(s)
      [] c = "ss_udp" -> SsDecodeUdp(s)
      [] c = "ss2022" -> Ss2022DecodeTarget(s)
      [] c = "vless" -> LET p == VlessReadPacket(s) IN IF p.ok THEN VlessDecodeHeader(p.packet) ELSE p
      [] c = "vmess" -> VmessDecodeHeader(s)
      [] c = "mux" -> MuxReadFrame(s)
      [] c = "kcp" -> KcpReadPacket(s)
Codecs == {"socks_addr", "socks_udp", "trojan_tcp", "trojan_udp", "ss_tcp", "ss_udp",
           "ss2022", "vless", "vmess", "mux"}
AssertsLength(c) == c \in {"trojan_tcp", "trojan_udp", "ss_tcp"}
NotYet == [ok |-> FALSE, why |-> "not yet"]

Make ==
    /\ bytes = <<>> /\ got = NotYet
    /\ IF AssertsLength(item.codec) /\ Asserts("assert", item.x.addr)
       THEN got' = Panicked /\ UNCHANGED <<item, bytes>>
       ELSE bytes' = Encode(item.codec, item.x) /\ UNCHANGED <<item, got>>

(* The decoder is given what one read returned. *)
Arrive ==
    /\ bytes # <<>> /\ got = NotYet
    /\ \E n \in 0..Len(bytes) :
         /\ bytes' = SubSeq(bytes, 1, n)
         /\ got' = Decode(item.codec, SubSeq(bytes, 1, n))
    /\ UNCHANGED item

CodecNext == Make \/ Arrive
=============================================================================
