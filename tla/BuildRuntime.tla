---------------------------- MODULE BuildRuntime ----------------------------
(***************************************************************************)
(* build_config: the stages in which a configuration becomes a runtime.    *)
(* Any stage may fail, and what the earlier ones started is then running   *)
(* already.  Handlers that need the dispatcher are built before it exists  *)
(* and find it in a cell that is filled afterwards.                        *)
(***************************************************************************)
EXTENDS BuildHandlers, FiniteSets

CONSTANTS BuildConfigs,   \* the configurations examined
          GeoIp, GeoSite, \* geo data: code |-> entries
          MaxPort         \* u16::MAX

VARIABLES bcfg,     \* the configuration
          bstage,   \* the next stage, "done" or "failed"
          bnext,    \* how many of its elements the stage has dealt with
          brules, bouts, bdns, bbals, balive, bcell, bbridges, bins, bmetrics
buildVars == <<bcfg, bstage, bnext, brules, bouts, bdns, bbals, balive, bcell, bbridges, bins, bmetrics>>

BuildInit == /\ bcfg \in BuildConfigs /\ bstage = "geo" /\ bnext = 0
             /\ brules = <<>> /\ bouts = << >> /\ bdns = "none" /\ bbals = << >>
             /\ balive = [started |-> FALSE, tags |-> {}]
             /\ bcell = "empty" /\ bbridges = 0 /\ bins = <<>> /\ bmetrics = <<>>

Goes(from, to) == bstage = from /\ bstage' = to /\ bnext' = 0
Fails(from) == Goes(from, "failed")
Elem(s) == s[bnext + 1]
Steps(from, s) == bstage = from /\ bnext < Len(s) /\ bnext' = bnext + 1 /\ UNCHANGED bstage
AllThrough(from, s, to) == bnext = Len(s) /\ Goes(from, to)

LoadGeo == /\ IF bcfg.geoOk THEN Goes("geo", "rules") ELSE Fails("geo")
           /\ UNCHANGED <<bcfg, brules, bouts, bdns, bbals, balive, bcell, bbridges, bins, bmetrics>>

(* Rules.  A domain or ip list may name geo data; a rule without any       *)
(* condition is left out.                                                  *)
Private == <<"10.0.0.0/8", "172.16.0.0/12", "192.168.0.0/16", "100.64.0.0/10", "fd00::/8">>
ExpandGeoip(code) == IF code = "PRIVATE" THEN Private
                     ELSE SelectSeq(GeoIp[code], LAMBDA c : c[1] \in {"v4", "v6"})
ExpandGeosite(code) ==
    [i \in DOMAIN GeoSite[code] |->
       LET d == GeoSite[code][i] IN
       CASE d[1] = 3 -> <<"full", d[2]>> [] d[1] = 1 -> <<"regexp", d[2]>> [] OTHER -> <<"suffix", d[2]>>]
Known(e, geo) == e[1] = "geo" => e[2] \in DOMAIN geo \cup {"PRIVATE"}
DomainsOk(r) == \A e \in ToSet(r.domain) : e[1] = "geo" => e[2] \in DOMAIN GeoSite
IpsOk(r) == \A e \in ToSet(r.ip) : Known(e, GeoIp) /\ e[1] # "bad"
RuleDomains(r) == FlattenSeq([i \in DOMAIN r.domain |->
                            IF r.domain[i][1] = "geo" THEN ExpandGeosite(r.domain[i][2])
                            ELSE <<r.domain[i]>>])
RuleIps(r) == FlattenSeq([i \in DOMAIN r.ip |->
                        IF r.ip[i][1] = "geo" THEN ExpandGeoip(r.ip[i][2]) ELSE <<r.ip[i]>>])
HasConditions(r) == r.domain # <<>> \/ r.ip # <<>> \/ r.others # {}

BuildRule ==
    /\ bstage = "rules" /\ bnext < Len(bcfg.rules)
    /\ LET r == Elem(bcfg.rules) IN
       IF DomainsOk(r) /\ IpsOk(r)
       THEN /\ Steps("rules", bcfg.rules)
            /\ brules' = IF HasConditions(r)
                         THEN Append(brules, [target |-> r.target, domain |-> RuleDomains(r),
                                              ip |-> RuleIps(r), others |-> r.others])
                         ELSE brules
       ELSE Fails("rules") /\ UNCHANGED brules
    /\ UNCHANGED <<bcfg, bouts, bdns, bbals, balive, bcell, bbridges, bins, bmetrics>>
RulesBuilt == /\ AllThrough("rules", bcfg.rules, "outbounds")
              /\ UNCHANGED <<bcfg, brules, bouts, bdns, bbals, balive, bcell, bbridges, bins, bmetrics>>

(* The manager keys a handler by the configured tag, empty or not.         *)
AddHandler(tag, h) == bouts' = [t \in DOMAIN bouts \cup {tag} |-> IF t = tag THEN h ELSE bouts[t]]
AddOutbound ==
    /\ bstage = "outbounds" /\ bnext < Len(bcfg.outs)
    /\ LET c == Elem(bcfg.outs)  b == BuildOutbound(c) IN
       IF b.ok THEN Steps("outbounds", bcfg.outs) /\ AddHandler(c.tag, b.h)
       ELSE Fails("outbounds") /\ UNCHANGED bouts
    /\ UNCHANGED <<bcfg, brules, bdns, bbals, balive, bcell, bbridges, bins, bmetrics>>
OutboundsBuilt == /\ AllThrough("outbounds", bcfg.outs, "dns")
                  /\ UNCHANGED <<bcfg, brules, bouts, bdns, bbals, balive, bcell, bbridges, bins, bmetrics>>

(* One resolver for all name servers: a single DoQ one decides, then DoH,  *)
(* then TCP, and of several URLs the last is used.                         *)
SchemeOf(sv) == CASE sv.url \in {"https", "h2c", "https+local"} -> "doh"
                  [] sv.url = "quic+local" -> "doq"
                  [] sv.url \in {"tcp", "tcp+local"} -> "tcp"
                  [] OTHER -> "udp"
ResolverOf(servers) ==
    LET used == {SchemeOf(servers[i]) : i \in DOMAIN servers} IN
    CASE servers = <<>> -> "hosts" [] "doq" \in used -> "doq" [] "doh" \in used -> "doh"
      [] "tcp" \in used -> "tcp" [] OTHER -> "udp"
BuildDns ==
    /\ IF bcfg.dns = <<>> THEN Goes("dns", "balancers") /\ UNCHANGED bdns
       ELSE LET d == bcfg.dns[1] IN
            IF d.hostsOk /\ \A i \in DOMAIN d.servers : d.servers[i].clientIp # "bad"
            THEN Goes("dns", "balancers") /\ bdns' = ResolverOf(d.servers)
            ELSE Fails("dns") /\ UNCHANGED bdns
    /\ UNCHANGED <<bcfg, brules, bouts, bbals, balive, bcell, bbridges, bins, bmetrics>>

BuildBalancers ==
    /\ Goes("balancers", "observatory")
    /\ bbals' = [t \in {b.tag : b \in ToSet(bcfg.bals)} |->
                   LET i == CHOOSE i \in DOMAIN bcfg.bals : /\ bcfg.bals[i].tag = t
                              /\ \A j \in DOMAIN bcfg.bals : bcfg.bals[j].tag = t => j <= i IN
                   [selector |-> bcfg.bals[i].selector, alive |-> FALSE]]
    /\ UNCHANGED <<bcfg, brules, bouts, bdns, balive, bcell, bbridges, bins, bmetrics>>

(* The observatory's task starts here, with every tag alive; the balancers *)
(* that share a tag with it read its set from now on.                      *)
Attached(bal, selector) == bal.selector \cap selector # {}
StartObservatory ==
    /\ Goes("observatory", "dispatcher")
    /\ IF bcfg.obs.enable /\ bcfg.obs.selector # {}
       THEN /\ balive' = [started |-> TRUE, tags |-> bcfg.obs.selector]
            /\ bbals' = [t \in DOMAIN bbals |->
                           [bbals[t] EXCEPT !.alive = Attached(bbals[t], bcfg.obs.selector)]]
       ELSE UNCHANGED <<balive, bbals>>
    /\ UNCHANGED <<bcfg, brules, bouts, bdns, bcell, bbridges, bins, bmetrics>>

BuildDispatcher == /\ Goes("dispatcher", "bridges") /\ bcell' = "dispatcher"
                   /\ UNCHANGED <<bcfg, brules, bouts, bdns, bbals, balive, bbridges, bins, bmetrics>>

BuildBridges ==          \* each is made and dropped: none is ever started
    /\ Goes("bridges", "inbounds") /\ bbridges' = 0
    /\ UNCHANGED <<bcfg, brules, bouts, bdns, bbals, balive, bcell, bins, bmetrics>>

PushInbound ==
    /\ bstage = "inbounds" /\ bnext < Len(bcfg.ins)
    /\ LET b == BuildInbound(Elem(bcfg.ins)) IN
       IF b.ok THEN Steps("inbounds", bcfg.ins) /\ bins' = Append(bins, b.h)
       ELSE Fails("inbounds") /\ UNCHANGED bins
    /\ UNCHANGED <<bcfg, brules, bouts, bdns, bbals, balive, bcell, bbridges, bmetrics>>

(* The metrics port is the API's plus one, in a u16 (a debug build panics  *)
(* where a release build wraps).                                           *)
MetricsPort(api) == IF api = <<>> \/ api[1] = "unparsed" THEN 8080 ELSE (api[2] + 1) % (MaxPort + 1)
InboundsBuilt ==
    /\ AllThrough("inbounds", bcfg.ins, "done")
    /\ bmetrics' = IF bcfg.stats THEN <<MetricsPort(bcfg.api)>> ELSE <<>>
    /\ UNCHANGED <<bcfg, brules, bouts, bdns, bbals, balive, bcell, bbridges, bins>>

BuildNext == \/ LoadGeo \/ BuildRule \/ RulesBuilt \/ AddOutbound \/ OutboundsBuilt \/ BuildDns
             \/ BuildBalancers \/ StartObservatory \/ BuildDispatcher \/ BuildBridges
             \/ PushInbound \/ InboundsBuilt

-----------------------------------------------------------------------------
(* What the author of an inbound's settings meant a client to present:     *)
(* the user's own method and password where given, else the inbound's,     *)
(* else the default.                                                       *)
FirstGiven(s) == LET t == SelectSeq(s, LAMBDA x : x # "") IN IF t = <<>> THEN "" ELSE t[1]
Meant(c) ==
    LET s == c.settings IN
    CASE c.proto = "vmess" -> {[id |-> u.id.uuid] : u \in ToSet(s.users)}
      [] c.proto = "shadowsocks" /\ s.users = <<>> ->
           {[method |-> FirstGiven(<<s.method, "aes-256-gcm">>), password |-> s.password]}
      [] c.proto = "shadowsocks" -> {[method |-> FirstGiven(<<u.method, s.method, "aes-256-gcm">>),
                                      password |-> FirstGiven(<<u.password, s.password>>)] : u \in ToSet(s.users)}
      [] c.proto = "shadowsocks-2022" -> {[method |-> FirstGiven(<<s.method, "2022-blake3-aes-256-gcm">>),
                                           key |-> s.key]}
      [] c.proto = "trojan" -> {[password |-> u.password] : u \in ToSet(s.users)}
      [] c.proto = "hysteria" -> {[password |-> s.password]}
      [] OTHER -> {}
Says(c) ==
    LET s == c.settings IN
    CASE c.proto = "vmess" -> [id |-> s.users[1].id.uuid]
      [] c.proto = "shadowsocks" -> [method |-> s.method, password |-> s.password]
      [] c.proto = "shadowsocks-2022" -> [method |-> s.method, key |-> s.key]
      [] OTHER -> [password |-> s.password]

(* A client and a server built from settings written for each other get    *)
(* through: whatever defaults, inherited fields and spellings of an id     *)
(* either side used, the client presents what the server accepts, and over *)
(* a raw connection both or neither speak TLS (certificates inline).       *)
BuiltPairsAgree ==
    bstage = "done" =>
      \A i \in DOMAIN bcfg.outs, j \in DOMAIN bins :
        LET o == bcfg.outs[i]  c == bcfg.ins[j]  h == bouts[o.tag] IN
        (\A k \in i + 1 .. Len(bcfg.outs) : bcfg.outs[k].tag # o.tag) =>
        /\ o.proto = c.proto /\ Meant(c) # {} /\ Says(o) \in Meant(c)
             => h.proxy.cred \in bins[j].proxy.creds
        /\ o.stream = c.stream /\ TransportOf(c.stream) = "raw"
             /\ c.stream.security # "reality" /\ c.stream.tls # "files"
             => h.layers = bins[j].layers
=============================================================================
