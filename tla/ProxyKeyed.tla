----------------------------- MODULE ProxyKeyed -----------------------------
(* The handshakes of the protocols whose header carries or is sealed under *)
(* a user's key.  The Trojan client sends its payload right behind the     *)
(* header and never waits; the Shadowsocks client waits for the server's   *)
(* IV; the 2022 outbound sends no header at all; the VLESS and VMess       *)
(* clients wait for a response header.                                     *)
EXTENDS ProxySocksHttp

(* write_tcp_header; write_address uses the SOCKS address type codes. *)
TrojanHeader ==
    <<T("key", setup.cred), T("crlf", 0), T("tcp", 1)>> \o AddrPort(setup.target) \o <<T("crlf", 0)>>
TrojanHeaderLen == 7

TrojanDial == setup.client = "trojan" /\ CDial("relay", TrojanHeader)

(* read_header_from_slice on the n tokens of the one read.  It checks the *)
(* length for the key and its CRLF only, then indexes the command and the *)
(* address type: a read that ends just there panics.                      *)
LooksLikeTrojan(s) == Len(s) >= 2 /\ s[1].k = "key" /\ s[2].k = "crlf"
HeaderOf(s) ==
    IF Len(s) < 2 THEN "err"
    ELSE IF s[1].k # "key" \/ s[2].k # "crlf" THEN "err"
    ELSE IF Len(s) < 4 THEN "panic"
    ELSE IF Len(s) < TrojanHeaderLen THEN "err"
    ELSE "header"

(* With fallbacks configured, what does not look like Trojan goes to the  *)
(* fallback server, the bytes already read first.                         *)
FallbackConnects(n) ==
    /\ spc' = "fallback"
    /\ srv' = [srv EXCEPT !.left = SubSeq(up, 1, n)]
    /\ up' = Rest(up, n)
    /\ UNCHANGED <<setup, down, upEof, downEof, cpc, pay>>

TrojanLeft(n) == SubSeq(up, TrojanHeaderLen + 1, n)

TrojanProcess ==
    /\ spc = "peek" /\ Len(up) >= 1
    /\ \E n \in 1..Len(up) :
         LET data == SubSeq(up, 1, n)
             header == HeaderOf(data)
         IN  IF setup.opt = "fallback" /\ ~LooksLikeTrojan(data)
             THEN FallbackConnects(n) \/ SQuit("err", n, <<>>)
             ELSE IF header # "header" THEN SQuit(header, n, <<>>)
             ELSE IF data[1].v # "right" THEN SQuit("err", n, <<>>)
             ELSE SWant(ReadAddrPort(Rest(data, 3)), n, <<>>, TrojanLeft(n))

(* A connection closed before its first byte is no error. *)
TrojanNothing == spc = "peek" /\ up = <<>> /\ upEof /\ SQuit("ok", 0, <<>>)

(* The fallback relay copies both ways until one direction ends. *)
FallbackCopy ==
    /\ spc = "fallback" /\ up # <<>>
    /\ srv' = [srv EXCEPT !.left = Append(@, up[1])]
    /\ up' = Rest(up, 1)
    /\ UNCHANGED <<setup, down, upEof, downEof, cpc, spc, pay>>
FallbackAnswer ==
    /\ spc = "fallback" /\ pay.ssent < DownLen
    /\ pay' = [pay EXCEPT !.ssent = @ + 1]
    /\ down' = Append(down, D(pay.ssent + 1))
    /\ UNCHANGED <<setup, up, upEof, downEof, cpc, spc, srv>>
FallbackEnds == spc = "fallback" /\ SQuit("ok", 0, <<>>)

--------------------------------------------------------------------------
(* Shadowsocks: the IV, then chunks; the first chunk is the address.      *)
SsDial ==
    /\ setup.client = "ss"
    /\ CDial("respiv", <<T("iv", setup.cred), T("size", 1), T("target", setup.target)>>)
SsResponseIv == cpc = "respiv" /\ Len(down) >= 1 /\ CMove("relay", 1, <<>>)

SsIv == spc = "iv" /\ Len(up) >= 1 /\ SMove("session", 0, <<>>)

(* read_tcp_session: a chunk sealed under another key does not open. *)
SsSession ==
    /\ spc = "session" /\ Len(up) >= 3
    /\ IF up[1].v # "right" THEN SQuit("err", 3, <<>>)
       ELSE SWant(up[3].v, 3, <<>>, <<>>)

--------------------------------------------------------------------------
(* Shadowsocks 2022.  The outbound dials and relays bare bytes, which the *)
(* inbound cannot open; `sip` is a client of the published protocol, with *)
(* payload in its first chunk.                                            *)
SipDial ==
    /\ setup.client = "sip" /\ cpc = "dial"
    /\ cpc' = "relay" /\ spc' = FirstRead[setup.server]
    /\ up' = <<T("size", setup.cred), T("first", setup.target)>>
    /\ pay' = [pay EXCEPT !.csent = 1]
    /\ UNCHANGED <<setup, down, upEof, downEof, srv>>

(* parse_target_from_bytes counts the port's bytes only in a domain: after *)
(* an IP address it takes the address's last two octets for the port.      *)
ParseTarget(t) == IF t.kind = "dom" THEN t ELSE [t EXCEPT !.port = 0]

(* The first chunk's remaining bytes, past socks5_addr_len, are payload. *)
Ss2022First ==
    IF up[1].k # "size" \/ up[1].v # "right" THEN SQuit("err", 1, <<>>)
    ELSE SWant(ParseTarget(up[2].v), 2, <<>>, Us(1))

Ss2022Process == spc = "chunk" /\ Len(up) >= 2 /\ Ss2022First

(* The multi-hop inbound tries only the first destination's key. *)
RelayInboundProcess == spc = "relaychunk" /\ Len(up) >= 2 /\ Ss2022First

TrojanSsShort ==
    \/ cpc = "respiv" /\ Len(down) < 1 /\ downEof /\ CQuit("err")
    \/ spc = "iv" /\ Len(up) < 1 /\ upEof /\ SQuit("err", 0, <<>>)
    \/ spc \in {"chunk", "relaychunk"} /\ Len(up) < 2 /\ upEof /\ SQuit("err", 0, <<>>)
    \/ spc = "session" /\ Len(up) < 3 /\ upEof /\ SQuit("err", 0, <<>>)

TrojanSsNext ==
    \/ TrojanDial \/ TrojanProcess \/ TrojanNothing
    \/ FallbackCopy \/ FallbackAnswer \/ FallbackEnds
    \/ SsDial \/ SsResponseIv \/ SsIv \/ SsSession
    \/ SipDial \/ Ss2022Process \/ RelayInboundProcess
    \/ TrojanSsShort

--------------------------------------------------------------------------
(* A VLESS header: version, a zero UUID, the addons, and for TCP the port *)
(* and the address under VLESS's own type codes.  The option is the flow. *)
VlessAtyp == [v4 |-> 1, dom |-> 2, v6 |-> 3]
HasFlow == setup.opt = "flow"
VlessHeader ==
    <<T("ver", 0), T("uuid", 0), T("addons", HasFlow), T("cmd", "connect"),
      T("port", setup.target.port), T("atyp", VlessAtyp[setup.target.kind]),
      T("addr", setup.target.addr)>>

VlessDial ==
    /\ setup.client = "vless"
    /\ CDial("resplen", <<T("length", Len(VlessHeader))>> \o VlessHeader)

(* The inbound reads the announced length, then decodes.  It takes the    *)
(* user getter and does not consult it: any UUID is accepted.             *)
BugDecodeVless(s) ==
    [kind |-> KindOf([v4 |-> 1, dom |-> 3, v6 |-> 2], s[7].v), addr |-> s[8].v, port |-> s[6].v]
DecodeVless(s) == [kind |-> KindOf(VlessAtyp, s[7].v), addr |-> s[8].v, port |-> s[6].v]

(* EncodeResponseHeader: the version, then the addons with no length. *)
VlessResponse(flow) == <<T("ver", 0)>> \o (IF flow THEN <<T("addons", TRUE)>> ELSE <<>>)

VlessProcess ==
    /\ spc = "length" /\ Len(up) >= 1 /\ Len(up) > up[1].v
    /\ SWant(DecodeVless(up), 1 + up[1].v, VlessResponse(up[4].v), <<>>)

(* The outbound takes the first two bytes for a length.  With a flow they *)
(* are the version and the first byte of the addons, and the version it   *)
(* then reads is wrong.  Without one the second byte is the target's      *)
(* first byte of payload: the length, and whether what follows passes for *)
(* a response, depend on the payload, which is eaten either way.          *)
VlessRespLen ==
    /\ cpc = "resplen" /\ Len(down) >= 2
    /\ \/ CQuit("err")
       \/ down[2].k = "d" /\ CMove("relay", 2, <<>>)

--------------------------------------------------------------------------
(* VMess.  build_request seals the header under a ClientSession of its    *)
(* own, so the handler's ClientSession, made beside it, holds other keys. *)
RequestSession == 1
HandlerSession == 2

VmessDial ==
    /\ setup.client = "vmess"
    /\ CDial("resp", <<T("authid", setup.cred), T("length", RequestSession),
                      T("header", setup.target)>>)

(* find_user: the authentication id opens under some user's key. *)
VmessAuthId ==
    /\ spc = "authid" /\ Len(up) >= 1
    /\ IF up[1].v # "right" THEN SQuit("err", 1, <<>>)
       ELSE SMove("header", 1, <<>>)

(* Reads until the header opens or the stream ends; the response is       *)
(* sealed under the keys the header brought.                              *)
VmessHeader ==
    /\ spc = "header" /\ (Len(up) >= 2 \/ upEof)
    /\ IF Len(up) < 2 THEN SQuit("err", Len(up), <<>>)
       ELSE SWant(up[2].v, Len(up), <<T("resp", up[1].v)>>, <<>>)

VmessResponse ==
    /\ cpc = "resp" /\ (Len(down) >= 1 \/ downEof)
    /\ IF Len(down) = 0 THEN CQuit("err")
       ELSE IF down[1].v # HandlerSession THEN CQuit("err")
       ELSE CMove("relay", Len(down), <<>>)

VlessVmessShort ==
    \/ cpc = "resplen" /\ Len(down) < 2 /\ downEof /\ CQuit("err")
    \/ spc = "length" /\ upEof /\ (Len(up) < 1 \/ Len(up) <= up[1].v) /\ SQuit("err", 0, <<>>)
    \/ spc = "authid" /\ Len(up) < 1 /\ upEof /\ SQuit("err", 0, <<>>)

VlessVmessNext ==
    \/ VlessDial \/ VlessProcess \/ VlessRespLen
    \/ VmessDial \/ VmessAuthId \/ VmessHeader \/ VmessResponse
    \/ VlessVmessShort
=============================================================================
