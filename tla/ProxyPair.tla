----------------------------- MODULE ProxyPair -----------------------------
(* One proxied TCP connection from end to end: the outbound handler of   *)
(* one instance (the client) and the inbound handler of another (the     *)
(* server) joined by a byte stream.  This module has what all protocols  *)
(* share: the two wires, how a side ends, the dispatch, and the relay    *)
(* loops that run once the handshake is over.  ProxySocksHttp            *)
(* and ProxyKeyed add the handshakes.                                    *)
(*                                                                       *)
(* A wire carries tokens, one for each protocol field or payload piece.  *)
(* read_exact waits for the tokens it asked for; a plain read may return *)
(* any non-empty part of what has arrived, which is how the network      *)
(* fragments a stream.                                                   *)
EXTENDS Naturals, Sequences

CONSTANTS
    Setups,     \* the connections looked at: see SetupOK
    UpLen,      \* payload tokens the client's link may yield
    DownLen,    \* payload tokens the server's link may yield
    NoTarget

VARIABLES
    setup,      \* which handlers, which target, which credentials
    up, down,           \* the wires, client to server and back
    upEof, downEof,     \* the writing side has closed its end
    cpc, spc,           \* where each handler is
    pay,        \* payload taken from and given to the two links
    srv         \* what the inbound handler has parsed and done

wires == <<up, down, upEof, downEof>>
pairVars == <<setup, wires, cpc, spc, pay, srv>>

T(k, v) == [k |-> k, v |-> v, n |-> 0]
U(i) == T("u", i)
D(i) == T("d", i)
Us(n) == [i \in 1..n |-> U(i)]
Ds(n) == [i \in 1..n |-> D(i)]
Rest(s, k) == SubSeq(s, k + 1, Len(s))

(* A setup names the two handlers, the target asked for, the client's    *)
(* credential ("none", "right" or "wrong" for the server's users),       *)
(* whether the server asks for one, and an option of the protocol.       *)
SetupOK(s) ==
    /\ DOMAIN s = {"client", "server", "target", "cred", "auth", "opt"}
    /\ s.cred \in {"none", "right", "wrong"} /\ s.auth \in BOOLEAN

CEnded == {"ok", "err"}
SEnded == {"ok", "err", "panic"}

PairInit ==
    /\ setup \in Setups
    /\ up = <<>> /\ down = <<>>
    /\ upEof = FALSE /\ downEof = FALSE
    /\ cpc = "dial" /\ spc = "listen"
    /\ pay = [csent |-> 0, csink |-> <<>>, ssent |-> 0, ssink |-> <<>>]
    /\ srv = [want |-> NoTarget, left |-> <<>>, dispatched |-> NoTarget,
              upDone |-> FALSE, downDone |-> FALSE]

(* A client step that takes `take` tokens from the wire and writes `send`. *)
CMove(pc, take, send) ==
    /\ cpc' = pc
    /\ down' = Rest(down, take)
    /\ up' = up \o send
    /\ UNCHANGED <<setup, upEof, downEof, spc, pay, srv>>

(* The client's handler returns; its connection is dropped with it. *)
CQuit(result) ==
    /\ cpc' = result
    /\ upEof' = TRUE
    /\ UNCHANGED <<setup, up, down, downEof, spc, pay, srv>>

(* Connecting starts the listener's handler for the new connection. *)
FirstRead == [socks |-> "ver", http |-> "lines", trojan |-> "peek",
              ss |-> "iv", ss2022 |-> "chunk", ss2022relay |-> "relaychunk", vless |-> "length",
              vmess |-> "authid", dokodemo |-> "resolve"]

CDial(pc, send) ==
    /\ cpc = "dial"
    /\ cpc' = pc
    /\ up' = send
    /\ spc' = FirstRead[setup.server]
    /\ UNCHANGED <<setup, down, upEof, downEof, pay, srv>>

SMove(pc, take, reply) ==
    /\ spc' = pc
    /\ up' = Rest(up, take)
    /\ down' = down \o reply
    /\ UNCHANGED <<setup, upEof, downEof, cpc, pay, srv>>

(* The server's handler answers and returns. *)
SQuit(result, take, reply) ==
    /\ spc' = result
    /\ up' = Rest(up, take)
    /\ down' = down \o reply
    /\ downEof' = TRUE
    /\ UNCHANGED <<setup, upEof, cpc, pay, srv>>

(* The server has its target; `left` is what it read past the header. *)
SWant(target, take, reply, left) ==
    /\ spc' = "dispatch"
    /\ srv' = [srv EXCEPT !.want = target, !.left = left]
    /\ up' = Rest(up, take)
    /\ down' = down \o reply
    /\ UNCHANGED <<setup, upEof, downEof, cpc, pay>>

--------------------------------------------------------------------------
(* The relay.  A Shadowsocks payload piece travels as a size and a body  *)
(* sealed under the sender's chunk counter; the others travel bare.  The *)
(* 2022 inbound opens chunks but answers in bare bytes.                  *)
UpSealed == setup.client \in {"ss", "sip"}
DownSealed == setup.client = "ss"
Frame(sealed, tok, nonce) ==
    IF sealed THEN <<T("size", 1), [tok EXCEPT !.n = nonce]>> ELSE <<tok>>
FrameLen(sealed) == IF sealed THEN 2 ELSE 1

(* Chunk 0 of a sealing client carries the address. *)
CUpload ==
    /\ cpc = "relay" /\ pay.csent < UpLen
    /\ pay' = [pay EXCEPT !.csent = @ + 1]
    /\ up' = up \o Frame(UpSealed, U(pay.csent + 1), pay.csent + 1)
    /\ UNCHANGED <<setup, down, upEof, downEof, cpc, spc, srv>>

(* decrypt_chunk opens a chunk only under the reader's own counter. *)
CDownload ==
    /\ cpc = "relay" /\ Len(down) >= FrameLen(DownSealed)
    /\ LET tok == down[FrameLen(DownSealed)]
       IN  IF (DownSealed /\ tok.n # Len(pay.csink)) \/ setup.client = "sip"
           THEN CQuit("err")
           ELSE /\ pay' = [pay EXCEPT !.csink = Append(@, T(tok.k, tok.v))]
                /\ down' = Rest(down, FrameLen(DownSealed))
                /\ UNCHANGED <<setup, up, upEof, downEof, cpc, spc, srv>>

(* select!: the first direction that ends ends the relay.  The end of a *)
(* link can come at any time; the end of the wire after its last token. *)
CLinkEnds == cpc = "relay" /\ CQuit("ok")
CWireEnds ==
    /\ cpc = "relay" /\ Len(down) < FrameLen(DownSealed) /\ downEof
    /\ CQuit(IF DownSealed THEN "err" ELSE "ok")

(* The handlers that relay with copy_bidirectional keep the other        *)
(* direction going when one has ended; the others select! between two    *)
(* copies.                                                               *)
RelaysBoth == setup.server \in {"socks", "http", "dokodemo"}

(* DecryptingReader opens a chunk under the nonce the chunk carries;      *)
(* read_chunk under the reader's own counter, and a chunk that does not   *)
(* open there ends the direction quietly.                                 *)
Opens(tok) == setup.client = "sip" => tok.n = Len(pay.ssink) + 1

(* What a direction's end does.  copy_bidirectional shuts the other side's *)
(* writer down and returns once both directions have ended.                *)
DirectionEnds(which) ==
    /\ srv' = [srv EXCEPT ![which] = TRUE]
    /\ LET over == ~RelaysBoth \/ (srv'.upDone /\ srv'.downDone)
       IN  /\ spc' = IF over THEN "ok" ELSE "relay"
           /\ downEof' = (over \/ which = "downDone" \/ downEof)
    /\ UNCHANGED <<setup, up, down, upEof, cpc, pay>>

SUpload ==
    /\ spc = "relay" /\ Len(up) >= FrameLen(UpSealed) /\ ~srv.upDone
    /\ LET tok == up[FrameLen(UpSealed)]
       IN  IF ~Opens(tok) THEN DirectionEnds("upDone")
           ELSE /\ pay' = [pay EXCEPT !.ssink = Append(@, T(tok.k, tok.v))]
                /\ up' = Rest(up, FrameLen(UpSealed))
                /\ UNCHANGED <<setup, down, upEof, downEof, cpc, spc, srv>>

SDownload ==
    /\ spc = "relay" /\ pay.ssent < DownLen /\ ~srv.downDone
    /\ pay' = [pay EXCEPT !.ssent = @ + 1]
    /\ down' = down \o Frame(DownSealed, D(pay.ssent + 1), pay.ssent)
    /\ UNCHANGED <<setup, up, upEof, downEof, cpc, spc, srv>>

SLinkEnds == spc = "relay" /\ ~srv.downDone /\ DirectionEnds("downDone")

(* DecryptingReader polls its source again when a read fills nothing: at *)
(* the end of the stream the Shadowsocks server's upward direction does   *)
(* not end but keeps polling, and only the link can end the relay.        *)
SWireEnds ==
    /\ spc = "relay" /\ Len(up) < FrameLen(UpSealed) /\ upEof /\ ~srv.upDone
    /\ setup.server # "ss"
    /\ DirectionEnds("upDone")

--------------------------------------------------------------------------
(* What goes to the link and to the client right after the dispatch: the *)
(* payload read together with the header, and Shadowsocks' response IV.   *)
BugLeftToLink == <<>>
LeftToLink == srv.left
ResponseIv == IF DownSealed THEN <<T("iv", 0)>> ELSE <<>>

SDispatch ==
    /\ spc = "dispatch"
    /\ srv' = [srv EXCEPT !.dispatched = srv.want, !.left = <<>>]
    /\ pay' = [pay EXCEPT !.ssink = LeftToLink]
    /\ down' = down \o ResponseIv
    /\ spc' = "relay"
    /\ UNCHANGED <<setup, up, upEof, downEof, cpc>>

SDispatchFails == spc = "dispatch" /\ SQuit("err", 0, <<>>)

(* A connection whose peer is gone can fail any later read or write. *)
CBroken == cpc \notin CEnded \cup {"dial"} /\ spc \in SEnded /\ CQuit("err")
SBroken == spc \notin SEnded \cup {"listen", "udp"} /\ cpc \in CEnded
           /\ SQuit("err", 0, <<>>)

CDialFails == cpc = "dial" /\ CQuit("err")

RelayNext ==
    \/ CDialFails \/ CUpload \/ CDownload \/ CLinkEnds \/ CWireEnds \/ CBroken
    \/ SDispatch \/ SDispatchFails \/ SUpload \/ SDownload \/ SLinkEnds
    \/ SWireEnds \/ SBroken
=============================================================================
