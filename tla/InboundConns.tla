---------------------------- MODULE InboundConns ----------------------------
(***************************************************************************)
(* The connections one inbound accepts, each a task of its own, by the     *)
(* mode of the listener (AlwaysOnInboundHandler::start and start_hysteria).*)
(***************************************************************************)
EXTENDS Integers, Sequences

CONSTANTS ConnConfigs,    \* listeners: [mode, tls]
          MaxConns,       \* bound: connections and streams ever accepted
          MaxSent         \* bound: chunks a client sends

VARIABLES listener, conns
connVars == <<listener, conns>>

ConnInit == listener \in ConnConfigs /\ conns = <<>>

(* Connections.  A raw one is sniffed, wrapped in TLS when configured, and *)
(* handed to the proxy, which reads the sniffed bytes again first; h2 and  *)
(* the stream transports hand over the stream their listener made.         *)
Accepts(modes, first) ==
    /\ listener.mode \in modes /\ Len(conns) < MaxConns /\ UNCHANGED listener
    /\ conns' = Append(conns, [pc |-> first, sent |-> 0, eof |-> FALSE,
                               peek |-> <<>>, net |-> <<>>, seen |-> <<>>])
AcceptRaw == Accepts({"raw"}, "sniff")
AcceptHysteria == Accepts({"hysteria"}, "handshake")
AcceptQuic == Accepts({"quic"}, "handshake")
AcceptH2 == Accepts({"h2"}, "process")
AcceptStream == Accepts({"stream"}, "process")

ConnDoes(i, c) == conns' = [conns EXCEPT ![i] = c] /\ UNCHANGED listener

PeerSends(i) ==
    LET c == conns[i] IN
    /\ c.sent < MaxSent /\ ~c.eof /\ listener.mode = "raw"   \* payload elsewhere is opaque
    /\ ConnDoes(i, [c EXCEPT !.sent = @ + 1, !.net = Append(@, c.sent + 1)])
PeerShuts(i) == ~conns[i].eof /\ ConnDoes(i, [conns[i] EXCEPT !.eof = TRUE])

BugPeeked(data) == <<>>
Peeked(data) == data      \* SniffedStream::new(conn, data)

Sniff(i, n) ==           \* one read of up to 8192 bytes; 0 at the end of the stream
    LET c == conns[i] IN
    /\ c.pc = "sniff"
    /\ n \in 1 .. Len(c.net) \/ (n = 0 /\ c.net = <<>> /\ c.eof)
    /\ ConnDoes(i, [c EXCEPT !.pc = "tls", !.peek = Peeked(SubSeq(c.net, 1, n)),
                             !.net = SubSeq(@, n + 1, Len(@))])

TlsWrap(i, ok) ==
    /\ conns[i].pc = "tls" /\ (listener.tls \/ ok)
    /\ ConnDoes(i, [conns[i] EXCEPT !.pc = IF ok THEN "process" ELSE "closed"])

PollRead(i) ==           \* SniffedStream::poll_read: the peeked bytes first
    LET c == conns[i]
        from == IF c.peek # <<>> THEN c.peek ELSE c.net IN
    /\ c.pc = "process" /\ from # <<>>
    /\ ConnDoes(i, [c EXCEPT !.seen = Append(@, Head(from)),
                             !.peek = IF @ # <<>> THEN Tail(@) ELSE @,
                             !.net = IF c.peek # <<>> THEN @ ELSE Tail(@)])

ProcessEnds(i) == /\ conns[i].pc = "process"
                  /\ conns[i].eof /\ conns[i].peek = <<>> /\ conns[i].net = <<>>
                  /\ ConnDoes(i, [conns[i] EXCEPT !.pc = "served"])

QuicHandshake(i, ok) ==  \* hysteria asks for a password on the first stream
    /\ conns[i].pc = "handshake"
    /\ ConnDoes(i, [conns[i] EXCEPT !.pc = IF ~ok THEN "closed" ELSE
                      IF listener.mode = "hysteria" THEN "auth" ELSE "stream"])

HysteriaAuth(i, ok) ==
    /\ conns[i].pc = "auth"
    /\ ConnDoes(i, [conns[i] EXCEPT !.pc = IF ok THEN "streams" ELSE "closed"])

QuicStream(i, ok) ==     \* a quic inbound serves the first stream only
    /\ conns[i].pc = "stream"
    /\ ConnDoes(i, [conns[i] EXCEPT !.pc = IF ok THEN "process" ELSE "closed"])

HysteriaStream(i) ==     \* each further stream is a task of its own
    /\ conns[i].pc = "streams" /\ Len(conns) < MaxConns /\ UNCHANGED listener
    /\ conns' = Append(conns, [conns[i] EXCEPT !.pc = "process", !.sent = 0, !.eof = FALSE,
                                               !.net = <<>>, !.seen = <<>>])

HysteriaCloses(i) == conns[i].pc = "streams" /\ ConnDoes(i, [conns[i] EXCEPT !.pc = "closed"])

ConnNext ==
    \/ AcceptRaw \/ AcceptHysteria \/ AcceptQuic \/ AcceptH2 \/ AcceptStream
    \/ \E i \in DOMAIN conns :
       \/ PeerSends(i) \/ PeerShuts(i) \/ PollRead(i) \/ ProcessEnds(i)
       \/ HysteriaStream(i) \/ HysteriaCloses(i)
       \/ \E n \in 0 .. MaxSent : Sniff(i, n)
       \/ \E ok \in BOOLEAN : TlsWrap(i, ok) \/ QuicHandshake(i, ok)
                              \/ HysteriaAuth(i, ok) \/ QuicStream(i, ok)

-----------------------------------------------------------------------------
(* Sniffing costs the proxy nothing: it reads the bytes of the client from *)
(* the first one, in order, and meets the end only after the last.         *)
SniffLosesNothing ==
    \A i \in DOMAIN conns :
       /\ conns[i].seen = [n \in 1 .. Len(conns[i].seen) |-> n]
       /\ conns[i].pc = "served" => Len(conns[i].seen) = conns[i].sent
=============================================================================
