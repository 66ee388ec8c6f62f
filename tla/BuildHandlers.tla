---------------------------- MODULE BuildHandlers ----------------------------
(***************************************************************************)
(* What the configuration of one inbound or outbound becomes               *)
(* (build_inbound_handler and build_outbound_handler of the app builder,   *)
(* Transport and the two Handlers of proxyman).  Settings are a record of  *)
(* what the JSON says: strings are compared and never looked into, an      *)
(* absent one is empty, and parses tells whether serde accepts the object. *)
(* A handler keeps what its proxy will present or accept.                  *)
(***************************************************************************)
EXTENDS Integers, Sequences, SequencesExt

BErr == [ok |-> FALSE]
BOk(h) == [ok |-> TRUE, h |-> h]

(* What serde makes of the settings; an Option that must be there is Some. *)
Required(s) == s.given /\ s.parses
Optional(s) == ~s.given \/ s.parses
When(cond, h) == IF cond THEN BOk(h) ELSE BErr

(* An id is a UUID and the way it is written.                              *)
HexDecodes(form) == form \notin {"odd", "nothex"}
ParsesUuid(id) == HexDecodes(id.form) /\ id.form # "short"
Uuid(id) == id.uuid         \* dashes, blanks and case do not matter

SsCiphers == {"aes-128-gcm", "aes-256-gcm", "chacha20-poly1305", "xchacha20-poly1305", "none"}
SsCipher(m) == CASE m = "chacha20-ietf-poly1305" -> "chacha20-poly1305"
                 [] m = "xchacha20-ietf-poly1305" -> "xchacha20-poly1305"
                 [] OTHER -> m
SsKeySize(c) == CASE c = "none" -> 0 [] c = "aes-128-gcm" -> 16 [] OTHER -> 32
SsAccount(m, password) == [cipher |-> SsCipher(m), key |-> <<password, SsKeySize(SsCipher(m))>>]

Ss2022Ciphers == {"2022-blake3-aes-128-gcm", "2022-blake3-aes-256-gcm",
                  "2022-blake3-chacha20-poly1305"}
Ss2022KeySize(c) == IF c = "2022-blake3-aes-128-gcm" THEN 16 ELSE 32
Ss2022Account(m, psk) == [cipher |-> m, key |-> <<psk, Ss2022KeySize(m)>>]

-----------------------------------------------------------------------------
(* Outbounds.  cred is what the client proves itself with.                 *)
Client(proto, cred) == [proto |-> proto, cred |-> cred]

FreedomOutbound(s) ==
    When(Optional(s) /\ s.redirect # "bad",
         [proto |-> "freedom", cred |-> "none",
          fragment |-> IF s.fragment = <<>> THEN <<1, 1>> ELSE s.fragment])

VlessOutbound(s) ==      \* the id of the user is not passed on
    When(Required(s) /\ s.users # <<>>, Client("vless", "none"))

VmessOutbound(s) ==
    When(Required(s) /\ s.users # <<>> /\ ParsesUuid(s.users[1].id),
         Client("vmess", Uuid(s.users[1].id)))

ShadowsocksOutbound(s) ==
    When(Required(s) /\ SsCipher(s.method) \in SsCiphers,
         Client("shadowsocks", SsAccount(s.method, s.password)))

Ss2022Outbound(s) ==
    When(s.given /\ s.method \in Ss2022Ciphers /\ s.key # "notbase64",
         Client("shadowsocks-2022", Ss2022Account(s.method, s.key)))

TrojanOutbound(s) == When(Required(s), Client("trojan", s.password))
SocksOutbound(s) == When(Required(s), Client("socks", <<s.user, s.password>>))
HttpOutbound(s) == When(Required(s), Client("http", <<s.user, s.password>>))
DnsOutbound(s) == When(s.given /\ s.parses /\ s.address # "", Client("dns", "none"))
LoopbackOutbound(s) == When(s.given /\ s.parses /\ s.tag # "", Client("loopback", "none"))
ReverseOutbound(s) == When(s.given /\ s.parses /\ s.portals # <<>>, Client("reverse", "none"))

WgKeyOk(k) == k # "notbase64" /\ k # "short"
ParseEndpoint(e) == e \notin {"noport", "badport"}
WireguardOutbound(s) ==
    When(/\ s.given /\ WgKeyOk(s.key)
         /\ \A i \in DOMAIN s.peers : /\ WgKeyOk(s.peers[i].key)
                                      /\ s.peers[i].psk = "" \/ WgKeyOk(s.peers[i].psk)
                                      /\ ParseEndpoint(s.peers[i].endpoint),
         Client("wireguard", s.key))

HysteriaOutbound(s) == When(s.given, Client("hysteria", s.password))

OutboundProxy(proto, s) ==
    CASE proto = "freedom" -> FreedomOutbound(s)
      [] proto = "vless" -> VlessOutbound(s)
      [] proto = "vmess" -> VmessOutbound(s)
      [] proto = "shadowsocks" -> ShadowsocksOutbound(s)
      [] proto = "shadowsocks-2022" -> Ss2022Outbound(s)
      [] proto = "trojan" -> TrojanOutbound(s)
      [] proto = "socks" -> SocksOutbound(s)
      [] proto = "http" -> HttpOutbound(s)
      [] proto = "dns" -> DnsOutbound(s)
      [] proto = "blackhole" -> BOk(Client("blackhole", "none"))
      [] proto = "loopback" -> LoopbackOutbound(s)
      [] proto = "reverse" -> ReverseOutbound(s)
      [] proto = "wireguard" -> WireguardOutbound(s)
      [] proto = "hysteria" -> HysteriaOutbound(s)
      [] OTHER -> BErr

-----------------------------------------------------------------------------
(* Inbounds.  creds is what the server accepts.                            *)
Server(proto, creds) == [proto |-> proto, creds |-> creds]
UuidsOk(s) == \A i \in DOMAIN s.users : ParsesUuid(s.users[i].id)
Uuids(s) == {Uuid(s.users[i].id) : i \in DOMAIN s.users}

DokodemoInbound(s) == When(Optional(s), Server("dokodemo-door", {"none"}))
VlessInbound(s) == When(Required(s) /\ UuidsOk(s), Server("vless", Uuids(s)))
VmessInbound(s) == When(Required(s) /\ UuidsOk(s), Server("vmess", Uuids(s)))

(* A map of accounts: of two for one user the later counts.                *)
Accounts(s) == {<<s.users[i].user, s.users[i].password>> : i \in
                  {i \in DOMAIN s.users : \A j \in DOMAIN s.users :
                                            s.users[j].user = s.users[i].user => j <= i}}
SocksInbound(s) ==
    When(Optional(s), Server("socks", IF s.given /\ s.auth = "password" THEN Accounts(s) ELSE {<<"any">>}))
HttpInbound(s) ==
    When(Optional(s), Server("http", IF s.given /\ Accounts(s) # {} THEN Accounts(s) ELSE {<<"any">>}))

OrDefault(m) == IF m = "" THEN "aes-256-gcm" ELSE m
BugUserMethod(u, s) == OrDefault(IF s.method = "" THEN u.method ELSE s.method)
UserMethod(u, s) == OrDefault(IF u.method = "" THEN s.method ELSE u.method)
UserPassword(u, s) == IF u.password = "" THEN s.password ELSE u.password
ShadowsocksInbound(s) ==
    IF s.users = <<>>
    THEN When(Required(s) /\ SsCipher(OrDefault(s.method)) \in SsCiphers,
              Server("shadowsocks", {SsAccount(OrDefault(s.method), s.password)}))
    ELSE When(/\ Required(s)
              /\ \A u \in ToSet(s.users) : SsCipher(UserMethod(u, s)) \in SsCiphers,
              Server("shadowsocks", {SsAccount(UserMethod(u, s), UserPassword(u, s)) : u \in ToSet(s.users)}))

Ss2022Method(s) == IF s.method = "" THEN "2022-blake3-aes-256-gcm" ELSE s.method
Ss2022Relay(s) ==
    When(Ss2022Method(s) \in Ss2022Ciphers /\ \A d \in ToSet(s.dests) : d # "notbase64",
         Server("ss2022-relay", {Ss2022Account(Ss2022Method(s), d) : d \in ToSet(s.dests)}))
Ss2022Single(s) ==
    When(Ss2022Method(s) \in Ss2022Ciphers /\ s.key # "notbase64",
         Server("shadowsocks-2022", {Ss2022Account(Ss2022Method(s), s.key)}))
Ss2022Inbound(s) == IF ~s.given THEN BErr
                    ELSE IF s.dests # <<>> THEN Ss2022Relay(s) ELSE Ss2022Single(s)

TrojanInbound(s) == When(Required(s), Server("trojan", {u.password : u \in ToSet(s.users)}))
HysteriaInbound(s) == BOk(Server("hysteria", {s.password}))

InboundProxy(proto, s) ==
    CASE proto = "dokodemo-door" -> DokodemoInbound(s)
      [] proto = "vless" -> VlessInbound(s)
      [] proto = "vmess" -> VmessInbound(s)
      [] proto = "socks" -> SocksInbound(s)
      [] proto = "http" -> HttpInbound(s)
      [] proto = "shadowsocks" -> ShadowsocksInbound(s)
      [] proto = "shadowsocks-2022" -> Ss2022Inbound(s)
      [] proto = "trojan" -> TrojanInbound(s)
      [] proto = "hysteria" -> HysteriaInbound(s)
      [] OTHER -> BErr

-----------------------------------------------------------------------------
(* Transport::from_stream_config: the first of these the settings have.    *)
Preference == <<"h2", "kcp", "ws", "httpupgrade", "grpc", "splithttp", "quic">>
TransportOf(stream) ==
    LET there == {i \in DOMAIN Preference : Preference[i] \in stream.settings} IN
    IF there = {} THEN "raw" ELSE Preference[CHOOSE i \in there : \A j \in there : i <= j]

(* What lies on the wire, outermost first: the dialler wraps TLS or        *)
(* REALITY around whatever the transport made ...                          *)
Dialled(t) == CASE t = "h2" -> <<"tls", "h2">> [] t = "raw" -> <<>> [] OTHER -> <<t>>
OutReality(stream) == stream.security = "reality" /\ stream.reality
OutTls(stream) == stream.security = "tls" /\ stream.tls # "none"
OutLayers(stream) == Dialled(TransportOf(stream))
                     \o (IF OutReality(stream) \/ OutTls(stream) THEN <<"tls">> ELSE <<>>)

(* ... the listener only around a raw connection, and only with the        *)
(* certificate and key in the configuration, not in files.                 *)
InTls(stream) == stream.security \in {"tls", "reality"} /\ stream.tls # "none"
TlsWraps(stream) == InTls(stream) /\ stream.tls = "inline"
ServeTransport(t) == <<t>>
InLayers(stream) == LET t == TransportOf(stream) IN
    CASE t = "raw" -> IF TlsWraps(stream) THEN <<"tls">> ELSE <<>>
      [] t = "h2" -> <<"tls", "h2">>
      [] OTHER -> ServeTransport(t)

ListenNetwork(s) == IF ~s.given THEN "tcp"
                    ELSE CASE s.network = "udp" -> "udp"
                           [] s.network \in {"tcp,udp", "tcp, udp", "both"} -> "both"
                           [] OTHER -> "tcp"
ListenAddr(c) == <<IF c.listen = "" THEN "0.0.0.0" ELSE c.listen, c.port>>

OutTag(c) == IF c.tag = "" THEN <<"out-", c.proto>> ELSE <<c.tag>>
InTag(c) == IF c.tag = "" THEN <<"in-", c.proto>> ELSE <<c.tag>>

BuildOutbound(c) ==
    LET p == OutboundProxy(c.proto, c.settings) IN
    IF ~p.ok THEN BErr
    ELSE BOk([tag |-> OutTag(c), proxy |-> p.h, layers |-> OutLayers(c.stream), mux |-> c.mux])
BuildInbound(c) ==
    LET p == InboundProxy(c.proto, c.settings) IN
    IF ~p.ok THEN BErr
    ELSE BOk([tag |-> InTag(c), proxy |-> p.h, layers |-> InLayers(c.stream),
              network |-> ListenNetwork(c.settings), addr |-> ListenAddr(c)])
=============================================================================
