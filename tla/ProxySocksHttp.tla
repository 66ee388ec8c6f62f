--------------------------- MODULE ProxySocksHttp ---------------------------
(* The SOCKS and HTTP CONNECT handshakes and the dokodemo inbound, which *)
(* has none.  The SOCKS5 and HTTP clients are this repository's outbound *)
(* handlers; a SOCKS4 or plain TCP client is any program.                *)
EXTENDS ProxyPair

(* encode_addr_port and its reader agree on the address type codes. *)
SocksAtyp == [v4 |-> 1, dom |-> 3, v6 |-> 4]
AddrPort(t) == <<T("atyp", SocksAtyp[t.kind]), T("addr", t.addr), T("port", t.port)>>
KindOf(codes, c) == CHOOSE k \in DOMAIN codes : codes[k] = c
ReadAddrPort(s) ==
    [kind |-> KindOf(SocksAtyp, s[1].v), addr |-> s[2].v, port |-> s[3].v]

HasAuth == setup.cred # "none"
AuthMethod(password) == IF password THEN 2 ELSE 0

--------------------------------------------------------------------------
(* socks5_client_handshake. *)
Socks5Hello ==
    /\ setup.client = "socks5"
    /\ CDial("method", <<T("ver", 5), T("methods", {AuthMethod(HasAuth)})>>)

(* A setup's option is the command: connect, bind, or udp with the        *)
(* server's UDP support on or off.                                        *)
Command == IF setup.opt = "udpoff" THEN "udp" ELSE setup.opt
Socks5Request == <<T("cmd", Command)>> \o AddrPort(setup.target)

Socks5Method ==
    /\ cpc = "method" /\ Len(down) >= 1
    /\ IF down[1].v # AuthMethod(HasAuth) THEN CQuit("err")
       ELSE IF HasAuth THEN CMove("auth", 1, <<T("authver", 1), T("userpass", setup.cred)>>)
       ELSE CMove("reply", 1, Socks5Request)

Socks5Auth ==
    /\ cpc = "auth" /\ Len(down) >= 1
    /\ IF down[1].v # 0 THEN CQuit("err") ELSE CMove("reply", 1, Socks5Request)

(* The reply's bound address is read and forgotten. *)
Socks5Reply ==
    /\ cpc = "reply" /\ Len(down) >= 4
    /\ IF down[1].v # 0 THEN CQuit("err")
       ELSE CMove(IF Command = "udp" THEN "udp" ELSE "relay", 4, <<>>)

(* A SOCKS4 client writes its request and then its payload. *)
Socks4Request ==
    /\ setup.client = "socks4"
    /\ CDial("granted", <<T("ver", 4), T("cmd", Command), T("port", setup.target.port),
                         T("ip", IF setup.target.kind = "v4" THEN setup.target.addr ELSE "0.0.0.x"),
                         T("userid", 0)>>
               \o (IF setup.target.kind = "v4" THEN <<>> ELSE <<T("domain", setup.target.addr)>>))
Socks4Granted ==
    /\ cpc = "granted" /\ Len(down) >= 1
    /\ IF down[1].v = 90 THEN CMove("relay", 1, <<>>) ELSE CQuit("err")

--------------------------------------------------------------------------
(* The SOCKS inbound. *)
SocksVersion ==
    /\ spc = "ver" /\ Len(up) >= 1
    /\ IF up[1].k # "ver" THEN SQuit("err", 1, <<>>)
       ELSE IF up[1].v = 5 THEN SMove("methods", 1, <<>>)
       ELSE IF setup.auth THEN SQuit("err", 1, <<T("granted", 91)>>)
       ELSE SMove("socks4", 1, <<>>)

(* 0.0.0.x asks for the domain that follows the user id. *)
Socks4Len == IF Len(up) >= 3 /\ up[3].v = "0.0.0.x" THEN 5 ELSE 4
Socks4Target == IF Socks4Len = 5
                THEN [kind |-> "dom", addr |-> up[5].v, port |-> up[2].v]
                ELSE [kind |-> "v4", addr |-> up[3].v, port |-> up[2].v]
HandleSocks4 ==
    /\ spc = "socks4" /\ Len(up) >= Socks4Len
    /\ IF up[1].v # "connect"
       THEN SQuit("err", Socks4Len, <<T("granted", 91)>>)
       ELSE SWant(Socks4Target, Socks4Len, <<T("granted", 90)>>, <<>>)

BugSocks5Methods ==
    /\ spc = "methods" /\ Len(up) >= 1
    /\ SMove("request", 1, <<T("method", CHOOSE m \in up[1].v : TRUE)>>)

Socks5Methods ==
    /\ spc = "methods" /\ Len(up) >= 1
    /\ LET expected == AuthMethod(setup.auth)
       IN  IF expected \notin up[1].v THEN SQuit("err", 1, <<T("method", 255)>>)
           ELSE SMove(IF setup.auth THEN "userpass" ELSE "request", 1,
                      <<T("method", expected)>>)

BugSocks5UserPass ==
    /\ spc = "userpass" /\ Len(up) >= 2
    /\ IF up[2].v # "right" THEN SMove("userpass", 2, <<>>)
       ELSE SMove("request", 2, <<T("auth", 0)>>)

Socks5UserPass ==
    /\ spc = "userpass" /\ Len(up) >= 2
    /\ IF up[1].v # 1 THEN SQuit("err", 1, <<T("auth", 255)>>)
       ELSE IF up[2].v # "right" THEN SQuit("err", 2, <<T("auth", 255)>>)
       ELSE SMove("request", 2, <<T("auth", 0)>>)

(* The error reply carries a null IPv4 address. *)
Socks5Error == <<T("reply", 7), T("atyp", 1), T("addr", "0"), T("port", 0)>>

(* tcp_connect answers before it dispatches; udp_associate answers with   *)
(* the port of the socket it has bound.                                   *)
HandleSocks5 ==
    /\ spc = "request" /\ Len(up) >= 4
    /\ LET target == ReadAddrPort(Rest(up, 1))
       IN  CASE up[1].v = "connect" -> SWant(target, 4, <<T("reply", 0)>> \o AddrPort(target), <<>>)
             [] up[1].v = "udp" /\ setup.opt = "udp" ->
                    SMove("udp", 4, <<T("reply", 0), T("atyp", 1), T("addr", "0"), T("port", 9)>>)
             [] OTHER -> SQuit("err", 4, Socks5Error)

--------------------------------------------------------------------------
(* HTTP CONNECT.  The request is lines up to an empty one. *)
HttpConnect ==
    /\ setup.client = "http"
    /\ CDial("status", <<T("line", setup.target)>>
               \o (IF HasAuth THEN <<T("authline", setup.cred)>> ELSE <<>>)
               \o <<T("blank", 0)>>)

(* The response is read until its empty line has arrived; what came with *)
(* it already belongs to the payload.                                    *)
HttpStatus ==
    /\ cpc = "status" /\ Len(down) >= 2
    /\ IF down[1].v = 200
       THEN \E n \in 2..Len(down) :
              /\ cpc' = "relay"
              /\ pay' = [pay EXCEPT !.csink = SubSeq(down, 3, n)]
              /\ down' = Rest(down, n)
              /\ UNCHANGED <<setup, up, upEof, downEof, spc, srv>>
       ELSE CQuit("err")

(* read_line takes an end of stream for an empty line.  The BufReader may *)
(* hold more than the lines read; into_inner drops what it holds.         *)
HeadLen == LET ends == {i \in 1..Len(up) : up[i].k = "blank"}
           IN  IF ends = {} THEN Len(up) ELSE CHOOSE i \in ends : \A j \in ends : i <= j
HttpAuthed == \E i \in 1..HeadLen : up[i].k = "authline" /\ up[i].v = "right"
HttpStatusReply(code) == <<T("status", code), T("blank", 0)>>

(* The URI is split at every colon, so an IPv6 literal is a bad request. *)
HttpProcess ==
    /\ spc = "lines" /\ Len(up) >= 1
    /\ upEof \/ \E i \in 1..Len(up) : up[i].k = "blank"
    /\ \E n \in HeadLen..Len(up) :
         LET line == up[1]
         IN  CASE line.k # "line" -> SQuit("err", n, <<>>)
               [] line.k = "line" /\ setup.auth /\ ~HttpAuthed -> SQuit("err", n, HttpStatusReply(407))
               [] line.k = "line" /\ (setup.auth => HttpAuthed) /\ line.v.kind = "v6" ->
                      SQuit("err", n, HttpStatusReply(400))
               [] OTHER -> SWant(line.v, n, HttpStatusReply(200), <<>>)

--------------------------------------------------------------------------
(* dokodemo: the target is the configured address, or else the address    *)
(* the connection came in on; an unspecified one is an error.             *)
RawDial == setup.client = "raw" /\ CDial("relay", <<>>)

DokodemoResolve ==
    /\ spc = "resolve"
    /\ IF setup.opt = "unspecified" THEN SQuit("err", 0, <<>>)
       ELSE SWant(setup.target, 0, <<>>, <<>>)

--------------------------------------------------------------------------
(* read_exact, read_u8 and read_line fail at the end of the stream. *)
CNeeds == [method |-> 1, auth |-> 1, reply |-> 4, granted |-> 1, status |-> 2]
SNeeds == [ver |-> 1, socks4 |-> 4, methods |-> 1, userpass |-> 2, request |-> 4, lines |-> 1]
SocksHttpShort ==
    \/ /\ cpc \in DOMAIN CNeeds /\ Len(down) < CNeeds[cpc] /\ downEof
       /\ CQuit("err")
    \/ /\ spc \in DOMAIN SNeeds /\ upEof
       /\ Len(up) < IF spc = "socks4" THEN Socks4Len ELSE SNeeds[spc]
       /\ SQuit("err", 0, <<>>)

SocksHttpNext ==
    \/ Socks5Hello \/ Socks5Method \/ Socks5Auth \/ Socks5Reply
    \/ Socks4Request \/ Socks4Granted
    \/ SocksVersion \/ HandleSocks4 \/ Socks5Methods \/ Socks5UserPass \/ HandleSocks5
    \/ HttpConnect \/ HttpStatus \/ HttpProcess
    \/ RawDial \/ DokodemoResolve
    \/ SocksHttpShort
=============================================================================
