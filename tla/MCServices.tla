----------------------------- MODULE MCServices -----------------------------
(* What turns configurations and first bytes into handlers and targets,    *)
(* for TLC: name resolution, the proxy handlers, sniffing and the builder. *)
(* `side` picks in the initial state what a behaviour is about; the        *)
(* others' variables stand still.                                          *)
EXTENDS MCFakeDns, DnsResolver, MCProxies, BuildRuntime, Sniff

(* The configurations of the resolvers.                                    *)
MCSpellings == {"A.", "b"}
MCNormal == ("A." :> "a") @@ ("b" :> "b")

Ip(S) == [ips |-> S, to |-> ""]
To(d) == [ips |-> {}, to |-> d]
Pattern(kind, names) == [prefix |-> kind, names |-> names]
NameServer(domains, expected, skip, final) ==
    [domains |-> domains, expected_ips |-> expected, skip_fallback |-> skip,
     final |-> final]

Plain ==
    [kind |-> "udp", hosts |-> "a" :> To("b"),
     qtypes |-> <<"A", "AAAA">>, disable_cache |-> FALSE,
     enable_parallel |-> FALSE, disable_fallback |-> FALSE,
     disable_fallback_if_match |-> FALSE,
     nameservers |-> <<NameServer({}, {}, FALSE, FALSE),
                       NameServer({Pattern("domain", {"b"})}, {"6x"}, FALSE, FALSE)>>]

(* a server that skips fallback, one whose only pattern matches nothing    *)
Skipping == <<NameServer({Pattern("domain", {"b"})}, {}, TRUE, FALSE),
              NameServer({Pattern("regexp", {"b"})}, {"6x"}, FALSE, FALSE)>>

MCDnsConfigs ==
    { Plain,
      [Plain EXCEPT !.kind = "tcp", !.enable_parallel = TRUE, !.qtypes = <<"A">>],
      [Plain EXCEPT !.nameservers = Skipping, !.enable_parallel = TRUE, !.qtypes = <<"AAAA">>,
                    !.hosts = ("a" :> To("b")) @@ ("b" :> To("a"))],
      [Plain EXCEPT !.nameservers = Skipping, !.disable_fallback_if_match = TRUE],
      [Plain EXCEPT !.nameservers = <<NameServer({Pattern("keyword", {"b"})}, {}, TRUE, TRUE),
                                      NameServer({}, {}, FALSE, FALSE)>>,
                    !.hosts = << >>, !.qtypes = <<"AAAA">>, !.disable_cache = TRUE],
      [Plain EXCEPT !.nameservers = Skipping, !.disable_fallback = TRUE,
                    !.hosts = << >>, !.qtypes = <<"A">>],
      [Plain EXCEPT !.kind = "doh", !.nameservers = << >>],
      [Plain EXCEPT !.kind = "doq", !.nameservers = << >>, !.disable_cache = TRUE],
      [Plain EXCEPT !.kind = "simple", !.nameservers = << >>,
                    !.hosts = "b" :> Ip({"9"})] }

-----------------------------------------------------------------------------
(* The configurations the builder is given: every protocol as inbound and  *)
(* outbound with settings that fit and settings that do not, every         *)
(* transport.                                                              *)
Uid(form) == [uuid |-> "u1", form |-> form]
NoSettings == [given |-> FALSE, parses |-> TRUE, method |-> "", password |-> "", user |-> "", key |-> "",
         users |-> <<>>, dests |-> <<>>, peers |-> <<>>, portals |-> <<>>, redirect |-> "",
         fragment |-> <<>>, address |-> "", tag |-> "", auth |-> "", network |-> ""]
S == [NoSettings EXCEPT !.given = TRUE]
Usr(form, m, p) == [id |-> Uid(form), user |-> "joe", method |-> m, password |-> p]
PlainStream == [settings |-> {}, security |-> "none", tls |-> "none", reality |-> FALSE]
TlsStream == [PlainStream EXCEPT !.security = "tls", !.tls = "inline"]
Streams == {PlainStream, TlsStream, [TlsStream EXCEPT !.tls = "files"],
            [PlainStream EXCEPT !.security = "reality", !.reality = TRUE]}
           \cup {[PlainStream EXCEPT !.settings = {t, "quic"}] : t \in ToSet(Preference)}
Ob(proto, s, st) == [tag |-> "o", proto |-> proto, settings |-> s, stream |-> st, mux |-> FALSE]
Ib(proto, s, st) == [tag |-> "", proto |-> proto, settings |-> s, stream |-> st, listen |-> "", port |-> 1]

OutSettings(p) ==
    CASE p = "vmess" \/ p = "vless" -> {NoSettings, S} \cup {[S EXCEPT !.users = <<Usr(f, "", "")>>] : f \in {"plain", "dashed", "short", "odd"}}
      [] p = "shadowsocks" -> {NoSettings, [S EXCEPT !.parses = FALSE]} \cup
           {[S EXCEPT !.method = m, !.password = w] : m \in {"", "aes-128-gcm", "aes-256-gcm", "chacha20-ietf-poly1305"}, w \in {"a", "b"}}
      [] p = "shadowsocks-2022" -> {NoSettings} \cup {[S EXCEPT !.method = m, !.key = k] :
             m \in {"", "2022-blake3-aes-128-gcm", "2022-blake3-aes-256-gcm"}, k \in {"k", "notbase64"}}
      [] p = "wireguard" -> {NoSettings, [S EXCEPT !.key = "short"]} \cup {[S EXCEPT !.key = "k",
             !.peers = <<[key |-> "k", psk |-> "", endpoint |-> e]>>] : e \in {"host:1", "noport"}}
      [] OTHER -> {NoSettings, [S EXCEPT !.password = "a", !.user = "joe", !.address = "h", !.tag = "t", !.portals = <<"p">>]}
InSettings(p) ==
    CASE p = "shadowsocks" ->
           {[S EXCEPT !.method = m, !.password = "a", !.users = us] : m \in {"", "aes-128-gcm", "rc4"},
             us \in {<<>>, <<Usr("plain", "", "b")>>, <<Usr("plain", "aes-256-gcm", "")>>,
                     <<Usr("plain", "chacha20-poly1305", "b"), Usr("plain", "", "")>>}}
      [] p = "shadowsocks-2022" -> OutSettings(p) \cup {[S EXCEPT !.dests = <<"k">>]}
      [] OTHER -> {NoSettings} \cup {[S EXCEPT !.password = "a", !.auth = "password", !.network = n,
                                         !.users = <<Usr(f, "", "a")>>] : f \in {"plain", "dashed", "nothex"}, n \in {"", "both"}}
InProtos == {"dokodemo-door", "vless", "vmess", "socks", "http", "shadowsocks", "shadowsocks-2022",
             "trojan", "hysteria", "tuic"}
OutOnly == {"freedom", "dns", "blackhole", "loopback", "reverse", "wireguard", "tuic"}

BareConfig == [geoOk |-> TRUE, rules |-> <<>>, outs |-> <<>>, ins |-> <<>>, dns |-> <<>>, bals |-> <<>>,
         obs |-> [enable |-> FALSE, selector |-> {}], stats |-> FALSE, api |-> <<>>]
Pairs == UNION {{[BareConfig EXCEPT !.outs = <<Ob(p, o, PlainStream)>>, !.ins = <<Ib(p, i, PlainStream)>>] :
                  o \in OutSettings(p), i \in InSettings(p)} : p \in InProtos}
Layers == {[BareConfig EXCEPT !.outs = <<Ob("blackhole", NoSettings, PlainStream), Ob("blackhole", NoSettings, o)>>,
                        !.ins = <<Ib("dokodemo-door", NoSettings, i)>>] : o \in Streams, i \in Streams}
Alone == UNION {{[BareConfig EXCEPT !.outs = <<Ob(p, o, PlainStream)>>] : o \in OutSettings(p)} : p \in OutOnly}
Rule(d, i, o) == [domain |-> d, ip |-> i, others |-> o, target |-> "o"]
Rules == {Rule(<<>>, <<>>, {}), Rule(<<<<"geo", "CN">>, <<"full", "x">>>>, <<>>, {}), Rule(<<<<"geo", "XX">>>>, <<>>, {}),
          Rule(<<>>, <<<<"geo", "PRIVATE">>, <<"geo", "CN">>>>, {"port"}), Rule(<<>>, <<<<"bad", "x">>>>, {})}
Whole == {[BareConfig EXCEPT !.geoOk = g, !.rules = <<r>>, !.stats = TRUE, !.api = a, !.dns = d,
                       !.bals = <<[tag |-> "b", selector |-> {"o"}], [tag |-> "c", selector |-> {"x"}]>>,
                       !.obs = [enable |-> TRUE, selector |-> {"o"}]] :
             g \in BOOLEAN, r \in Rules, a \in {<<>>, <<"port", 9>>, <<"port", 99>>, <<"unparsed">>},
             d \in {<<[hostsOk |-> h, servers |-> v]>> : h \in BOOLEAN,
                      v \in {<<>>, <<[url |-> "tcp", clientIp |-> ""]>>, <<[url |-> "", clientIp |-> "bad"]>>,
                             <<[url |-> "https", clientIp |-> ""], [url |-> "quic+local", clientIp |-> ""]>>}}}
MCBuildConfigs == Pairs \cup Layers \cup Alone \cup Whole
MCGeoIp == [c \in {"CN"} |-> <<<<"v4", "a">>, <<"odd", "b">>, <<"v6", "c">>>>]
MCGeoSite == [c \in {"CN"} |-> <<<<0, "a">>, <<1, "b">>, <<3, "c">>>>]

-----------------------------------------------------------------------------
ProxySides == {"pair", "codec", "freedom", "tun"}
Sides == ProxySides \cup {"fake", "dns", "sniff", "build"}

Ext(t, l) == [type |-> t, len |-> l]
Row(is, start, value, end) == [is |-> is, start |-> start, value |-> value, end |-> end]
Request == <<Row("other", 0, 0, 15), Row("Host", 16, 21, 36), Row("empty", 37, 37, 38)>>
MCFlights ==
    {TlsHello(session, 6, exts, 11) :
       session \in {0, 32},
       exts \in {<<Ext(0, SniLen(11))>>, <<Ext(10, 4)>>,
                 <<Ext(23, 0), Ext(10, 4), Ext(0, SniLen(11)), Ext(21, 380)>>,
                 <<Ext(21, 200), Ext(0, SniLen(11))>>, <<Ext(0, SniLen(11)), Ext(21, 437)>>}}
    \cup {Plaintext("dns", <<9, 9, 1, 0, 0, 1>>, 29, << >>),
          Plaintext("bittorrent", <<19, 66, 105, 116, 84, 111>>, 68, << >>),
          Plaintext("http", <<71, 69, 84, 32, 47, 32>>, 40, Request),
          Plaintext("http", <<80, 79, 83, 84, 32, 47>>, 60,
                    [Append(Request, Row("other", 40, 40, 58)) EXCEPT ![2].is = "host"])}
Fallback(name, alpn, path) == [name |-> name, alpn |-> alpn, path |-> path]
MCFallbacks == <<Fallback("", "h2", ""), Fallback(SniffName, "", ""),
                 Fallback("", "", SniffName), Fallback("", "", "")>>
MCSniffReads == (0 .. 120) \cup {300, 400}

IdleConfig == CHOOSE c \in BuildConfigs : TRUE
IdleSniff == flight = "none" /\ nread = 0 /\ sniffed = << >> /\ fallback = 0

ServicesInit ==
    /\ side \in Sides
    /\ FakeInit /\ ProxiesInit
    /\ IF side = "dns" THEN DnsInit ELSE cfg = Plain /\ DnsInit
    /\ IF side = "sniff" THEN SniffInit ELSE IdleSniff
    /\ IF side = "build" THEN BuildInit ELSE bcfg = IdleConfig /\ BuildInit

nameVars == <<fakeVars, dnsVars>>
firstVars == <<sniffVars, buildVars>>

Naming ==
    /\ \/ side = "fake" /\ FakeNext /\ UNCHANGED dnsVars
       \/ side = "dns" /\ DnsNext /\ UNCHANGED fakeVars
    /\ UNCHANGED <<proxiesVars, firstVars>>
Proxying == side \in ProxySides /\ ProxiesNext /\ UNCHANGED <<nameVars, firstVars>>
Preparing ==
    /\ \/ side = "sniff" /\ SniffNext /\ UNCHANGED buildVars
       \/ side = "build" /\ BuildNext /\ UNCHANGED sniffVars
    /\ UNCHANGED <<nameVars, proxiesVars>>

ServicesNext == Naming \/ Proxying \/ Preparing

(* Queries end, at the latest by their timeouts.  The runtime polls a      *)
(* woken handler, TCP delivers what was written, and a dispatch returns: a *)
(* handler whose handshake can go on goes on.                              *)
ServicesSpec ==
    /\ ServicesInit /\ [][ServicesNext]_<<nameVars, proxiesVars, firstVars>>
    /\ \A t \in Tasks : WF_dnsVars(side = "dns" /\ (AnyReply(t) \/ Finish(t)))
    /\ WF_pairVars(side = "pair" /\ ProxyNext /\ ~CSettled /\ cpc' # cpc)
    /\ WF_pairVars(side = "pair" /\ ProxyNext /\ ~SSettled /\ spc' # spc)

(* What a relay delivers is what the other end sent, from its first byte   *)
(* on and with no byte of the handshake in it; and a relay that ended      *)
(* without an error delivered all of it, one way or both.                  *)
RelaysIntact == StreamsIntact /\ RelayEndsComplete

(* What one side of a protocol encodes the other decodes, and no decoder   *)
(* takes a header or a segment that was cut off for a whole one.           *)
CodecsSound == RoundTrip /\ TruncationRefused /\ SegmentsSurvive

(* The first read of a connection is understood for what it is, by the     *)
(* sniffer and by the Trojan inbound's choice of a fallback.               *)
FirstReadUnderstood == SniffFindsName /\ FallbackIsNamed

(* close() stops the receive loops of the TUN stack, and its answer to a   *)
(* ping carries the request's data under checksums that verify.            *)
TunSound == CloseStopsLoops /\ EchoReplyVerifies
=============================================================================
