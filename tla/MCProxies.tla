----------------------------- MODULE MCProxies -----------------------------
(* The proxy handlers model-checked.  `side` picks what a behaviour is     *)
(* about: a connection between two handlers, an encoder and its decoder,   *)
(* the freedom outbound, or the TUN stack; the others' variables stand     *)
(* still.                                                                  *)
EXTENDS ProxyKeyed, WireCodecs, Freedom, Tun, TLC

VARIABLE side

Targets == {[kind |-> "v4", addr |-> "10.0.0.7", port |-> 443],
            [kind |-> "dom", addr |-> "example.org", port |-> 80]}
V6 == [kind |-> "v6", addr |-> "2001:db8::7", port |-> 443]

Conn(c, s, t, cred, auth, opt) ==
    [client |-> c, server |-> s, target |-> t, cred |-> cred, auth |-> auth, opt |-> opt]
Authed(c, s, opt) ==
    {Conn(c, s, t, "none", FALSE, opt) : t \in Targets \cup {V6}}
    \cup {Conn(c, s, t, cred, TRUE, opt) : t \in Targets, cred \in {"none", "right", "wrong"}}

MCSetups ==
    Authed("socks5", "socks", "connect")
    \cup {Conn("socks5", "socks", t, "none", FALSE, o) : t \in Targets, o \in {"bind", "udp", "udpoff"}}
    \cup {Conn("socks4", "socks", t, "none", a, o) : t \in Targets, a \in BOOLEAN, o \in {"connect", "bind"}}
    \cup Authed("http", "http", "")
    \cup {Conn("http", "socks", t, "none", FALSE, "") : t \in Targets}
    \cup {Conn("raw", "dokodemo", t, "none", FALSE, o) : t \in Targets, o \in {"", "unspecified"}}
    \cup {Conn("trojan", "trojan", t, cred, TRUE, o) :
            t \in Targets \cup {V6}, cred \in {"right", "wrong"}, o \in {"", "fallback"}}
    \cup {Conn("raw", "trojan", t, "none", TRUE, o) : t \in Targets, o \in {"", "fallback"}}
    \cup {Conn("ss", "ss", t, cred, TRUE, "") : t \in Targets \cup {V6}, cred \in {"right", "wrong"}}
    \cup {Conn("raw", "ss2022", t, "none", TRUE, "") : t \in Targets}
    \cup {Conn("sip", s, t, cred, TRUE, "") :
            s \in {"ss2022", "ss2022relay"}, t \in Targets, cred \in {"right", "wrong"}}
    \cup {Conn("vless", "vless", t, "none", FALSE, o) : t \in Targets \cup {V6}, o \in {"", "flow"}}
    \cup {Conn("vmess", "vmess", t, cred, TRUE, "") : t \in Targets, cred \in {"right", "wrong"}}

ASSUME \A s \in MCSetups : SetupOK(s)

ProxyNext == RelayNext \/ SocksHttpNext \/ TrojanSsNext \/ VlessVmessNext

CSettled == cpc \in CEnded \cup {"relay", "udp"}
SSettled == spc \in SEnded \cup {"relay", "udp", "fallback", "listen"}

Digits(n) == [i \in 1..n |-> i % Base]
MCAddrs == {[kind |-> "v4", b |-> Digits(V4Len)], [kind |-> "v6", b |-> Digits(V6Len)]}
           \cup {[kind |-> "dom", b |-> Digits(n)] : n \in {0, 1, 3, Base - 1, Base, Base + 1}}
MCItems == {[codec |-> c, x |-> [addr |-> a, port |-> p, data |-> d, gid |-> g]] :
              c \in Codecs, a \in MCAddrs, p \in {1, Base + 2}, d \in {<<>>, <<3>>, <<6, 7, 1>>},
              g \in {<<>>, <<4, 4>>}}
MCSegments ==
    {Segment(KcpData, 1, o, <<n, 1, 0>>, t) : o \in {0, 1}, n \in {1, Base * Base - 1}, t \in {<<>>, <<5>>, <<1, 2, 3>>}}
    \cup {Segment(KcpAck, 1, 0, <<Base, 2, 1>>, t) : t \in {<<>>, <<0>>, [i \in 1..Base - 1 |-> i]}}
    \cup {Segment(c, 1, 0, <<1, 2, 3>>, <<>>) : c \in KcpCommands}
MCItemsUsed ==
    {i \in MCItems : i.codec = "mux" \/ i.x.gid = <<>>}
    \cup {[codec |-> "kcp", x |-> [segs |-> s]] : s \in UNION {[1..n -> MCSegments] : n \in {1, 2}}}


Addr(f, n) == [family |-> f, name |-> n]
FragOff == [on |-> FALSE, from |-> 0, to |-> 0, split |-> {0}, length |-> {1}, interval |-> FALSE]
FragOn(from, to, splits, interval) ==
    [on |-> TRUE, from |-> from, to |-> to, split |-> splits, length |-> {1, 2}, interval |-> interval]
MCFragments == {FragOff} \cup {FragOn(0, 1, {0, 1, 2, 3}, i) : i \in BOOLEAN}
               \cup {FragOn(f, t, {0, 2}, TRUE) : f \in {0, 2}, t \in {2, 3}}
MCFSettings ==
    {[strategy |-> s, target |-> t, addrs |-> a, redirect |-> r, proxy |-> p, frag |-> FragOff] :
       s \in {"AsIs", "UseIP", "UseIPv4", "UseIPv6"}, t \in {Addr(0, "d"), Addr(4, "x")},
       a \in {<<>>, <<Addr(6, "b"), Addr(4, "a")>>}, r \in {<<>>, <<Addr(0, "r")>>}, p \in BOOLEAN}
    \cup {[strategy |-> "AsIs", target |-> Addr(0, "d"), addrs |-> <<>>, redirect |-> <<>>,
           proxy |-> TRUE, frag |-> f] : f \in MCFragments}
FRead(first, n, record) == [bytes |-> [i \in 1..n |-> first + i], record |-> record]
MCFReads == {<<>>, <<FRead(0, 4, 3), FRead(4, 3, 3), FRead(7, 2, 0)>>,
             <<FRead(0, 3, 0), FRead(3, 3, 2)>>}

MCTPackets == {[ver |-> v, proto |-> p, head |-> <<69, 1, 250, 250>>, src |-> <<10, 255>>,
                dst |-> <<255, 2>>, icmp |-> i] :
                 v \in {4, 6}, p \in {1, 58, 17},
                 i \in {<<8, 0, 1, 2, 255, 255, 255, 254>>, <<8, 0, 0, 0, 0, 1, 0, 2, 255>>, <<8, 0, 0>>}}

ASSUME \A c \in MCFSettings : FSettingOK(c)

IdlePair == setup = (CHOOSE s \in Setups : TRUE) /\ PairInit
IdleCodec == item = [codec |-> "idle"] /\ bytes = <<>> /\ got = NotYet
IdleFreedom == fset = (CHOOSE c \in FSettings : TRUE) /\ freads = <<>> /\ FreedomInit

ProxiesInit ==
    /\ IF side = "pair" THEN PairInit ELSE IdlePair
    /\ IF side = "codec" THEN item \in MCItemsUsed /\ bytes = <<>> /\ got = NotYet ELSE IdleCodec
    /\ IF side = "freedom" THEN FreedomInit ELSE IdleFreedom
    /\ TunInit

ProxiesNext ==
    \/ side = "pair" /\ ProxyNext /\ UNCHANGED <<side, codecVars, freedomVars, tunVars>>
    \/ side = "codec" /\ CodecNext /\ UNCHANGED <<side, pairVars, freedomVars, tunVars>>
    \/ side = "freedom" /\ FreedomNext /\ UNCHANGED <<side, pairVars, codecVars, tunVars>>
    \/ side = "tun" /\ TunNext /\ UNCHANGED <<side, pairVars, codecVars, freedomVars>>
proxiesVars == <<side, pairVars, codecVars, freedomVars, tunVars>>

(* The inbound handler dispatches the target that the outbound handler    *)
(* was asked for, whatever the address type codes in between; the 2022    *)
(* inbound keeps it only for a domain.                                    *)
TargetAgreed ==
    srv.dispatched # NoTarget =>
        \/ srv.dispatched = setup.target
        \/ setup.server \in {"ss2022", "ss2022relay"} /\ setup.target.kind # "dom"

(* The bytes each link receives are the ones the other end took, from the *)
(* first on, in order, with no handshake byte among them: also when a     *)
(* handshake and its payload were read together, and when Trojan hands a  *)
(* connection to its fallback, which sees every byte from the first one.  *)
(* VLESS is left out on the way down: its client eats payload (see        *)
(* VlessRespLen).                                                         *)
StreamsIntact ==
    /\ IsPrefix(pay.ssink, Us(pay.csent))
    /\ IsPrefix(pay.csink, Ds(pay.ssent)) \/ setup.client = "vless"
    /\ spc = "fallback" => \/ setup.client = "raw" /\ srv.left \o up = Us(pay.csent)
                           \/ setup.client = "trojan" /\ srv.left \o up = TrojanHeader \o Us(pay.csent)

(* A handler that has users dispatches only for a client that holds one   *)
(* of their credentials. *)
OnlyUsersDispatched ==
    srv.dispatched # NoTarget /\ setup.auth => setup.cred = "right"

(* A relay that ended without an error has delivered one direction to its *)
(* end; copy_bidirectional has delivered both.                            *)
RelayEndsComplete ==
    spc = "ok" /\ srv.dispatched # NoTarget =>
        \/ srv.downDone /\ ~RelaysBoth
        \/ srv.upDone /\ upEof /\ Len(up) < FrameLen(UpSealed) /\ (RelaysBoth => srv.downDone)

(* Every handshake comes to an end, with a relay or with an error, on     *)
(* both sides: neither waits for bytes that the other will never send.    *)
(* A client without a handshake owes the server nothing; VLESS, whose two *)
(* sides disagree on the length of the response, is left out.             *)
HandshakeSettles ==
    (side = "pair" /\ setup.client \notin {"raw", "vless"}) ~> (CSettled /\ SSettled)

CarriesData == {"socks_udp", "trojan_tcp", "trojan_udp", "ss_tcp", "ss_udp", "vmess", "mux"}

(* What one side encodes the other decodes, address, port and payload, in *)
(* every protocol, as long as a domain's length fits its byte (a longer    *)
(* one is cut, wrapped or asserted against, as PutDomain says).  SOCKS     *)
(* datagrams keep their port in front of the payload (SocksDecodeUdp).     *)
RoundTrip ==
    item.codec # "kcp" /\ got # NotYet /\ bytes = Encode(item.codec, item.x) /\ Len(item.x.addr.b) <= Max1 =>
        /\ got.ok
        /\ got.addr = item.x.addr /\ got.port = item.x.port
        /\ item.codec \in CarriesData \ {"socks_udp"} => got.rest = item.x.data
        /\ item.codec = "socks_udp" => got.rest = Be(item.x.port) \o item.x.data
        /\ item.codec = "mux" /\ item.x.data # <<>> => got.gid = item.x.gid

(* No decoder takes a cut-off header for a whole one: a read that ends     *)
(* inside a header is refused, whatever the cut left of it.                *)
TruncationRefused ==
    item.codec # "kcp" /\ got # NotYet /\ Len(item.x.addr.b) <= Max1
    /\ Len(bytes) < Len(Encode(item.codec, item.x))
                    - (IF item.codec \in CarriesData \ {"vmess", "mux"} THEN Len(item.x.data) ELSE 0)
        => ~got.ok

(* The reader of a datagram of mKCP data and acknowledgements finds the    *)
(* segments that were put into it, each one whole, in order; from one that *)
(* was cut it makes the segments in front of the cut and nothing else.     *)
(* Data without payload, which the sender never makes, may be dropped at   *)
(* the end.  A command ends the reader with a panic, or is read wrongly    *)
(* (KcpParseCmd), so nothing is claimed of datagrams with one.             *)
SegmentsSurvive ==
    item.codec = "kcp" /\ got # NotYet /\ (\A i \in DOMAIN item.x.segs : item.x.segs[i].cmd \notin KcpCommands) =>
        /\ got.ok /\ IsPrefix(got.segs, item.x.segs)
        /\ bytes = Encode("kcp", item.x) /\ ~(Last(item.x.segs).cmd = KcpData /\ Last(item.x.segs).tail = <<>>)
             => got.segs = item.x.segs

(* What the remote end receives, without the PROXY line and the record     *)
(* headers, is what the link yielded: nothing is lost, repeated or         *)
(* reordered by the cutting, and all of it is there between two reads.     *)
(* The PROXY line comes first, and no read is cut into more pieces than    *)
(* max_split allows.                                                       *)
FragmentsReassemble ==
    LET body == SelectSeq(fsink, LAMBDA b : b \notin {RecordMark, ProxyLine})
    IN  /\ IsPrefix(body, ftaken)
        /\ freepc \in {"relay", "ended"} => body = ftaken
        /\ fset.proxy /\ fsink # <<>> => fsink[1] = ProxyLine
        /\ fcur.max > 0 => fcur.splits <= fcur.max

(* close() stops the stack: a receive loop handles at most the packet it   *)
(* was already waiting for, as long as start() is not called again.        *)
CloseStopsLoops == ~running => \A l \in 1..TLoops : late[l] <= 1

(* What a receiver requires of a checksummed part (RFC 1071): with bytes   *)
(* alternately of weight 256 and 1, the sum is a multiple of 65535.        *)
ReceiverAccepts(s) == MapThenSumSet(LAMBDA i : s[i] * (IF i % 2 = 1 THEN 256 ELSE 1), DOMAIN s) % 65535 = 0

(* The answer to a ping goes back to the sender with the request's         *)
(* identifier, number and data, and a receiver accepts both checksums of   *)
(* an IPv4 answer.  (The code leaves the pseudo-header out of the ICMPv6   *)
(* checksum, so nothing is claimed of that one.)                           *)
EchoReplyVerifies ==
    echoed.request # TNoPacket =>
        LET q == echoed.request
            r == echoed.reply
        IN  /\ r.src = q.dst /\ r.dst = q.src
            /\ SubSeq(r.icmp, 5, Len(r.icmp)) = SubSeq(q.icmp, 5, Len(q.icmp))
            /\ q.ver = 4 => ReceiverAccepts(r.icmp) /\ ReceiverAccepts(r.head \o r.src \o r.dst)
=============================================================================
