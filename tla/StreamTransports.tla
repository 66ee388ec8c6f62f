-------------------------- MODULE StreamTransports --------------------------
(***************************************************************************)
(* The connections the stream transports hand to a proxy: WsConnection,    *)
(* HunkConn (gRPC), QuicStream, H2Stream and the TcpStream HttpUpgrade     *)
(* leaves after its handshake.  One direction of one connection: a writer  *)
(* at one end, a reader with buffers of any size at the other.  Bytes are  *)
(* numbered; a message is what one poll_write handed to the library.       *)
(***************************************************************************)
EXTENDS Integers, Sequences, Functions

CONSTANTS StKinds,      \* the transports examined
          StMaxBytes,   \* bound: bytes written
          StMaxMsg,     \* bound: bytes of one write, and of one read
          StGrpcCap,    \* mpsc::channel(32) of Hunks
          StH2Window    \* the receiver's initial flow-control window, in bytes

ASSUME StConstants == StMaxBytes \in Nat /\ StMaxMsg \in Nat

VARIABLES kind,     \* the transport
          dials,    \* the writer is the dialling end
          hs,       \* the handshake of dialler and listener
          tput,      \* bytes written
          obuf,     \* messages accepted by poll_write and still held locally
          tnet,     \* messages in the library and on the network
          rxq,      \* HunkConn::read_rx
          rbuf,     \* read_buf, recv_buf: what the last message left over
          got,      \* bytes the reader has
          wst,      \* the writer: "open", "shut", "dropped", "pending", "broken"
          rst       \* the reader: "open", "eof", "err"
stVars == <<kind, dials, hs, tput, obuf, tnet, rxq, rbuf, got, wst, rst>>

StInit == /\ kind \in StKinds /\ dials \in BOOLEAN
          /\ hs = "start"
          /\ tput = 0 /\ obuf = <<>> /\ tnet = <<>> /\ rxq = <<>> /\ rbuf = <<>> /\ got = <<>>
          /\ wst = "open" /\ rst = "open"

Bin(first, n) == [k |-> "bin", d |-> [i \in 1 .. n |-> first + i]]
Ping == [k |-> "ping", d |-> <<>>]
Closing == [k |-> "close", d |-> <<>>]

Written(m) == /\ wst = "open" /\ hs = "done" /\ tput + m <= StMaxBytes /\ tput' = tput + m
              /\ UNCHANGED <<kind, dials, hs, rxq, rbuf, got, wst, rst>>
Held(m) == Written(m) /\ obuf' = Append(obuf, Bin(tput, m)) /\ UNCHANGED tnet
Sent(m) == Written(m) /\ tnet' = Append(tnet, Bin(tput, m)) /\ UNCHANGED obuf

(* What poll_read does with a message of which the caller takes n bytes.   *)
BugLeftOver(d, n) == <<>>
LeftOver(d, n) == SubSeq(d, n + 1, Len(d))
Took(d, n) == /\ n = (IF Len(d) < n THEN Len(d) ELSE n)
              /\ got' = got \o SubSeq(d, 1, n) /\ rbuf' = LeftOver(d, n)
FromBuffer(n) == /\ rst = "open" /\ rbuf # <<>> /\ Took(rbuf, n)
                 /\ UNCHANGED <<kind, dials, hs, tput, obuf, tnet, rxq, wst, rst>>
ReadsBuffer(n) == kind \in {"ws", "grpc", "h2"} /\ FromBuffer(n)
Ends(how) == /\ rst = "open" /\ rbuf = <<>> /\ rst' = how
             /\ UNCHANGED <<kind, dials, hs, tput, obuf, tnet, rxq, rbuf, got, wst>>

(* Handshakes.  The dialler asks, the listener's task accepts or refuses,  *)
(* and only then has either end a connection.                              *)
HsGoes(k, from, to) == /\ kind = k /\ hs = from /\ hs' = to
                       /\ UNCHANGED <<kind, dials, tput, obuf, tnet, rxq, rbuf, got, wst, rst>>
WsDial(ok) == HsGoes("ws", "start", IF ok THEN "asked" ELSE "failed")
WsAccept(ok) == HsGoes("ws", "asked", IF ok THEN "done" ELSE "failed")
GrpcDial(ok) == HsGoes("grpc", "start", IF ok THEN "asked" ELSE "failed")
GrpcTun == HsGoes("grpc", "asked", "done")
QuicDial(ok) == HsGoes("quic", "start", IF ok THEN "asked" ELSE "failed")
QuicAccept(ok) == HsGoes("quic", "asked", IF ok THEN "done" ELSE "failed")
H2Dial(ok) == HsGoes("h2", "start", IF ok THEN "asked" ELSE "failed")
H2Accept(ok) == HsGoes("h2", "asked", IF ok THEN "done" ELSE "failed")
UpgradeDial(ok) == HsGoes("httpupgrade", "start", IF ok THEN "asked" ELSE "failed")
UpgradeAccept(matches) == HsGoes("httpupgrade", "asked", IF matches THEN "answered" ELSE "failed")
Handshakes == \/ GrpcTun
              \/ \E ok \in BOOLEAN : \/ WsDial(ok) \/ WsAccept(ok) \/ GrpcDial(ok)
                                     \/ QuicDial(ok) \/ QuicAccept(ok) \/ H2Dial(ok)
                                     \/ H2Accept(ok) \/ UpgradeDial(ok) \/ UpgradeAccept(ok)

-----------------------------------------------------------------------------
(* WebSocket.  start_send leaves the message in tungstenite's buffer; only *)
(* poll_flush or poll_close puts it on the wire.                           *)
WsWrite(m) == kind = "ws" /\ Held(m)

WsFlush == /\ kind = "ws" /\ obuf # <<>> /\ tnet' = tnet \o obuf /\ obuf' = <<>>
           /\ UNCHANGED <<kind, dials, hs, tput, rxq, rbuf, got, wst, rst>>

WsShutdown == /\ kind = "ws" /\ hs = "done" /\ wst = "open" /\ wst' = "shut"
              /\ tnet' = tnet \o Append(obuf, Closing) /\ obuf' = <<>>
              /\ UNCHANGED <<kind, dials, hs, tput, rxq, rbuf, got, rst>>

WsPing == /\ kind = "ws" /\ hs = "done" /\ wst = "open" /\ Ping \notin Range(tnet)   \* bound: one in flight
          /\ tnet' = Append(tnet, Ping)
          /\ UNCHANGED <<kind, dials, hs, tput, obuf, rxq, rbuf, got, wst, rst>>

WsRead(n) ==             \* control frames are skipped; a Close is the end
    /\ kind = "ws" /\ rst = "open" /\ rbuf = <<>> /\ tnet # <<>> /\ tnet' = Tail(tnet)
    /\ CASE Head(tnet).k = "bin" -> Took(Head(tnet).d, n) /\ UNCHANGED rst
         [] Head(tnet).k = "ping" -> UNCHANGED <<got, rbuf, rst>>
         [] OTHER -> rst' = "eof" /\ UNCHANGED <<got, rbuf>>
    /\ UNCHANGED <<kind, dials, hs, tput, obuf, rxq, wst>>

WsBroken == kind = "ws" /\ hs = "done" /\ wst = "open" /\ Ends("err")

-----------------------------------------------------------------------------
(* gRPC.  Two unbounded channels with a task each stand between the        *)
(* connection and tonic's streams; poll_shutdown does nothing.             *)
GrpcWrite(m) == kind = "grpc" /\ Held(m)

GrpcForward == /\ kind = "grpc" /\ obuf # <<>> /\ Len(tnet) < StGrpcCap
               /\ tnet' = Append(tnet, Head(obuf)) /\ obuf' = Tail(obuf)
               /\ UNCHANGED <<kind, dials, hs, tput, rxq, rbuf, got, wst, rst>>

GrpcMessage == /\ kind = "grpc" /\ tnet # <<>> /\ tnet' = Tail(tnet)
               /\ rxq' = Append(rxq, Head(tnet))
               /\ UNCHANGED <<kind, dials, hs, tput, obuf, rbuf, got, wst, rst>>

GrpcRead(n) == /\ kind = "grpc" /\ rst = "open" /\ rbuf = <<>> /\ rxq # <<>>
               /\ Took(Head(rxq).d, n) /\ rxq' = Tail(rxq)
               /\ UNCHANGED <<kind, dials, hs, tput, obuf, tnet, wst, rst>>

GrpcDrop == /\ kind = "grpc" /\ hs = "done" /\ wst = "open" /\ wst' = "dropped"
            /\ UNCHANGED <<kind, dials, hs, tput, obuf, tnet, rxq, rbuf, got, rst>>

GrpcBroken ==            \* an error of the stream is taken for its end
    /\ kind = "grpc" /\ hs = "done" /\ wst = "open" /\ wst' = "broken" /\ tnet' = <<>> /\ obuf' = <<>>
    /\ UNCHANGED <<kind, dials, hs, tput, rxq, rbuf, got, rst>>

GrpcEof == /\ kind = "grpc" /\ wst \in {"dropped", "broken"} /\ obuf = <<>> /\ tnet = <<>>
           /\ rxq = <<>> /\ Ends("eof")

-----------------------------------------------------------------------------
(* QUIC hands bytes through; HttpUpgrade does once the server answered 101.*)
Through == {"quic", "httpupgrade"}
ThroughWrite(m) == kind \in Through /\ Sent(m)
ThroughShutdown == /\ kind \in Through /\ hs = "done" /\ wst = "open" /\ wst' = "shut"
                   /\ UNCHANGED <<kind, dials, hs, tput, obuf, tnet, rxq, rbuf, got, rst>>

QuicRead(n) ==
    /\ kind \in Through /\ rst = "open" /\ hs = "done" /\ tnet # <<>>
    /\ n <= Len(Head(tnet).d) /\ got' = got \o SubSeq(Head(tnet).d, 1, n)
    /\ tnet' = IF n = Len(Head(tnet).d) THEN Tail(tnet)
               ELSE <<[Head(tnet) EXCEPT !.d = SubSeq(@, n + 1, Len(@))]>> \o Tail(tnet)
    /\ UNCHANGED <<kind, dials, hs, tput, obuf, rxq, rbuf, wst, rst>>
QuicEof == kind \in Through /\ wst = "shut" /\ tnet = <<>> /\ Ends("eof")

(* The server's handler may write at once; the dialler's BufReader reads   *)
(* ahead of the blank line and is dropped with the bytes it holds.         *)
UpgradeDone(ahead) ==
    /\ kind = "httpupgrade" /\ hs = "answered" /\ hs' = "done"
    /\ tput' = IF dials THEN 0 ELSE ahead
    /\ UNCHANGED <<kind, dials, obuf, tnet, rxq, rbuf, got, wst, rst>>

-----------------------------------------------------------------------------
(* HTTP/2.  A write takes what poll_capacity grants, at most the window   *)
(* the receiver announced; the code neither reserves capacity nor gives    *)
(* received capacity back, so a write may pend for ever.                   *)
H2Write(m) == kind = "h2" /\ tput + m <= StH2Window /\ Sent(m)
H2WritePends == /\ kind = "h2" /\ hs = "done" /\ wst = "open" /\ wst' = "pending"
                /\ UNCHANGED <<kind, dials, hs, tput, obuf, tnet, rxq, rbuf, got, rst>>
H2Read(n) == /\ kind = "h2" /\ rst = "open" /\ rbuf = <<>> /\ tnet # <<>>
             /\ tnet' = Tail(tnet) /\ Took(Head(tnet).d, n)
             /\ UNCHANGED <<kind, dials, hs, tput, obuf, rxq, wst, rst>>
H2Shutdown == /\ kind = "h2" /\ hs = "done" /\ wst \in {"open", "pending"} /\ wst' = "shut"
              /\ UNCHANGED <<kind, dials, hs, tput, obuf, tnet, rxq, rbuf, got, rst>>
H2Eof == kind = "h2" /\ wst = "shut" /\ tnet = <<>> /\ Ends("eof")

StNext == \/ Handshakes \/ WsFlush \/ WsShutdown \/ WsPing \/ WsBroken
          \/ GrpcForward \/ GrpcMessage \/ GrpcDrop \/ GrpcBroken \/ GrpcEof
          \/ ThroughShutdown \/ QuicEof
          \/ \E n \in 0 .. 1 : UpgradeDone(n)
          \/ H2WritePends \/ H2Shutdown \/ H2Eof
          \/ \E m \in 1 .. StMaxMsg : \/ WsWrite(m) \/ GrpcWrite(m) \/ ThroughWrite(m)
                                      \/ H2Write(m)
                                      \/ ReadsBuffer(m) \/ WsRead(m) \/ GrpcRead(m)
                                      \/ QuicRead(m) \/ H2Read(m)

StSpec == StInit /\ [][StNext]_stVars

-----------------------------------------------------------------------------
(* Whatever the sizes of writes and reads, the reader gets the writer's    *)
(* bytes in order from the first, and the end of the stream only after the *)
(* last, except where the code gives that up: UpgradeDone, GrpcBroken.     *)
TransportInOrder ==
    ~(kind = "httpupgrade" /\ ~dials) =>
        /\ got = [i \in 1 .. Len(got) |-> i]
        /\ rst = "eof" /\ wst # "broken" => Len(got) = tput
=============================================================================
