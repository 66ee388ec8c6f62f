----------------------------- MODULE MCStreams -----------------------------
(* What carries the bytes of a connection, for TLC: the session streams of *)
(* mux, the stream transports, the inbound listeners and their             *)
(* connections, a UDP association, the messages of DNS, the buffers, and   *)
(* the text a configuration is read from.                                  *)
(* They share no state here, so `side` picks in the initial state what a   *)
(* behaviour is about, and the variables of the other sides stand still.   *)
EXTENDS MuxStream, StreamTransports, Inbounds, InboundConns, Buffers, ConfigText, UdpRelay, DnsWire, TLC

VARIABLE side
Sides == {"stream", "transport", "inbound", "conn", "udp", "wire", "buffer", "reader", "json", "merge"}

Listen(port, network, mode, tls) ==
    [tag |-> "a", port |-> port, network |-> network, mode |-> mode, tls |-> tls, valid |-> TRUE]
MCMainConfigs == {<<Listen(1, "both", "raw", FALSE)>>,
                  <<Listen(1, "tcp", "raw", TRUE), Listen(2, "tcp", "h2", TRUE)>>}
MCApiConfigs == {Listen(1, "udp", "raw", FALSE), Listen(1, "tcp", "quic", TRUE),
                 Listen(1, "tcp", "kcp", FALSE), Listen(1, "tcp", "splithttp", FALSE),
                 Listen(1, "tcp", "spawned", FALSE)}
MCConnConfigs == [mode : {"raw", "quic", "hysteria", "h2", "stream"}, tls : BOOLEAN]
MCWireNames == {<<<<97>>>>, <<<<97, 98>>, <<99>>>>}
MCWireAsks ==
    {[qtype |-> 1, ip |-> << >>, padding |-> 0],
     [qtype |-> 28, ip |-> <<10, 1, 2, 3>>, padding |-> 3],
     [qtype |-> 28, ip |-> <<32, 1, 0, 0, 0, 0, 0, 0, 0, 0, 0, 0, 0, 0, 0, 9>>, padding |-> 0]}

IdleTransport == StInit /\ kind = "ws" /\ dials
IdleInbound == InboundInit /\ Len(todo) = 1
IdleConn == ConnInit /\ listener = [mode |-> "raw", tls |-> FALSE]
IdleUdp == umode = [out |-> "dns", cone |-> FALSE] /\ UdpInit
IdleWire == /\ wname = <<<<97>>>>
            /\ wquery = build_dns_query_with_edns(wname, 1, << >>, 0)
            /\ WireInit
IdleReader == /\ breader = "chunk" /\ bsizes = <<>> /\ bsrc = <<>> /\ bpc = "start" /\ bneed = 0
              /\ bacc = <<>> /\ bcached = 0 /\ bsoft = FALSE /\ bout = <<>>
IdleMerge == mbase = FileConfig(0, <<>>, 1) /\ mlast = mbase /\ mfiles = 1

StreamsInit ==
    /\ side \in Sides
    /\ StreamInit /\ MultiInit /\ JsonInit
    /\ IF side = "transport" THEN StInit ELSE IdleTransport
    /\ IF side = "inbound" THEN InboundInit ELSE IdleInbound
    /\ IF side = "conn" THEN ConnInit ELSE IdleConn
    /\ IF side = "udp" THEN UdpInit ELSE IdleUdp
    /\ IF side = "wire" THEN WireInit ELSE IdleWire
    /\ IF side = "reader" THEN ReaderInit ELSE IdleReader
    /\ IF side = "merge" THEN MergeInit ELSE IdleMerge

acceptVars == <<stVars, inboundVars, connVars, udpVars>>
bufferVars == <<mbVars, readVars>>
textVars == <<jsonVars, mergeVars, wireVars>>

Sessioning == side = "stream" /\ StreamNext /\ UNCHANGED <<side, acceptVars, bufferVars, textVars>>
Accept ==
    /\ \/ side = "transport" /\ StNext /\ UNCHANGED <<inboundVars, connVars, udpVars>>
       \/ side = "inbound" /\ InboundNext /\ UNCHANGED <<stVars, connVars, udpVars>>
       \/ side = "conn" /\ ConnNext /\ UNCHANGED <<stVars, inboundVars, udpVars>>
       \/ side = "udp" /\ UdpNext /\ UNCHANGED <<stVars, inboundVars, connVars>>
    /\ UNCHANGED <<side, streamVars, bufferVars, textVars>>
Buffering ==
    /\ \/ side = "buffer" /\ MultiNext /\ UNCHANGED readVars
       \/ side = "reader" /\ ReaderNext
    /\ UNCHANGED <<side, streamVars, acceptVars, textVars>>
Text ==
    /\ \/ side = "json" /\ JsonNext /\ UNCHANGED <<mergeVars, wireVars>>
       \/ side = "merge" /\ merge_configs /\ UNCHANGED <<jsonVars, wireVars>>
       \/ side = "wire" /\ WireNext /\ UNCHANGED <<jsonVars, mergeVars>>
    /\ UNCHANGED <<side, streamVars, acceptVars, bufferVars>>

StreamsNext == Sessioning \/ Accept \/ Buffering \/ Text
StreamsSpec ==
    StreamsInit /\ [][StreamsNext]_<<side, streamVars, acceptVars, bufferVars, textVars>>

Symmetry == Permutations(Sessions)

(* A session's reader gets the bytes the peer sent, none lost, repeated or *)
(* reordered, whatever the sizes of its buffers, and the end of the stream *)
(* only after the last of them; a writer's frame goes out at most once, in *)
(* the session it was written to.                                          *)
SessionStreamIntact ==
    StreamTypeOK /\ ReceivedInOrder /\ EofAfterAllBytes /\ WrittenAtMostOnce

(* However a MultiBuffer is cut, popped and read, no byte is lost, doubled *)
(* or moved; and soft reads that give up half way leave an                 *)
(* AuthenticationReader in step with the chunks of its peer.               *)
BuffersKeepBytes == (side = "buffer" => MultiBufferKeepsBytes) /\ AuthReaderInStep
=============================================================================
