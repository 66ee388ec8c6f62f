------------------------------ MODULE Hysteria ------------------------------
(***************************************************************************)
(* The hysteria proxy: the outbound's QuicPool of one authenticated QUIC   *)
(* connection, the stream each process() or process_udp() opens on it, the *)
(* inbound's reading of that stream, and the Brutal congestion window.     *)
(* A stream's bytes are items: the address line, the two bytes of the UDP  *)
(* marker, numbered payload.                                               *)
(***************************************************************************)
EXTENDS Integers, Sequences, FiniteSets

CONSTANTS HProcs,          \* concurrent process() and process_udp() calls
          HMaxConns,       \* bound: connections ever dialled
          HPayload,        \* bound: payload items of a stream
          BMin,            \* min_cwnd, 2048 in the code
          BRates,          \* configured rates: <<number, unit>>
          BLosses          \* bound: congestion events

NoConn == 0
VARIABLES hpc, hcon, lock, pool, dialled,   \* pool and its users
          hmode, wire, hleft, hstep, hbuf, hgot,   \* one stream
          cwnd, rate, losses                \* BrutalController
poolVars == <<hpc, hcon, lock, pool, dialled>>
hstreamVars == <<hmode, wire, hleft, hstep, hbuf, hgot>>
brutalVars == <<cwnd, rate, losses>>

-----------------------------------------------------------------------------
(* QuicPool.  dialled[i] is a connection's state; the peer or the network  *)
(* may close it at any time.                                               *)
PoolInit == /\ hpc = [p \in HProcs |-> "start"] /\ hcon = [p \in HProcs |-> NoConn]
            /\ lock = {} /\ pool = NoConn /\ dialled = <<>>

HGoes(p, pc) == hpc' = [hpc EXCEPT ![p] = pc]

PoolLocks(p) == /\ hpc[p] = "start" /\ lock = {}
                /\ lock' = {p} /\ HGoes(p, "look")
                /\ UNCHANGED <<hcon, pool, dialled>>

(* The guard is held across the dial: the next caller looks after it.      *)
BugPoolLooks(p) ==
    /\ hpc[p] = "look" /\ lock' = {}
    /\ IF pool # NoConn /\ dialled[pool] = "open"
         THEN HGoes(p, "opens") /\ hcon' = [hcon EXCEPT ![p] = pool]
         ELSE HGoes(p, "dial") /\ UNCHANGED hcon
    /\ UNCHANGED <<pool, dialled>>

PoolLooks(p) ==
    /\ hpc[p] = "look"
    /\ IF pool # NoConn /\ dialled[pool] = "open"
         THEN HGoes(p, "opens") /\ lock' = {} /\ hcon' = [hcon EXCEPT ![p] = pool]
         ELSE HGoes(p, "dial") /\ UNCHANGED <<lock, hcon>>
    /\ UNCHANGED <<pool, dialled>>

DialQuic(p) == /\ hpc[p] = "dial" /\ Len(dialled) < HMaxConns
               /\ dialled' = Append(dialled, "auth")
               /\ hcon' = [hcon EXCEPT ![p] = Len(dialled) + 1] /\ HGoes(p, "auth")
               /\ UNCHANGED <<lock, pool>>

DialFails(p) == /\ hpc[p] = "dial" /\ HGoes(p, "failed") /\ lock' = {}
                /\ UNCHANGED <<hcon, pool, dialled>>

(* The server answers on the first stream; only then is the connection     *)
(* shared.  A refused one is dropped, and with it closed.                  *)
AuthFirstStream(i, ok) ==
    /\ dialled[i] = "auth"
    /\ dialled' = [dialled EXCEPT ![i] = IF ok THEN "open" ELSE "closed"]
    /\ UNCHANGED <<hpc, hcon, lock, pool>>

AuthAnswered(p) ==
    LET ok == dialled[hcon[p]] = "open" IN
    /\ hpc[p] = "auth" /\ dialled[hcon[p]] # "auth" /\ lock' = {}
    /\ pool' = IF ok THEN hcon[p] ELSE pool
    /\ HGoes(p, IF ok THEN "opens" ELSE "failed")
    /\ UNCHANGED <<hcon, dialled>>

OpenBi(p) == /\ hpc[p] = "opens"
             /\ HGoes(p, IF dialled[hcon[p]] = "open" THEN "stream" ELSE "failed")
             /\ UNCHANGED <<hcon, lock, pool, dialled>>

ProcessDone(p) == /\ hpc[p] \in {"stream", "failed"} /\ HGoes(p, "start")
                  /\ hcon' = [hcon EXCEPT ![p] = NoConn]
                  /\ UNCHANGED <<lock, pool, dialled>>

ConnCloses(i) == /\ dialled[i] # "closed" /\ dialled' = [dialled EXCEPT ![i] = "closed"]
                 /\ UNCHANGED <<hpc, hcon, lock, pool>>

PoolNext == \/ \E p \in HProcs : \/ PoolLocks(p) \/ PoolLooks(p) \/ DialQuic(p) \/ DialFails(p)
                                 \/ AuthAnswered(p) \/ OpenBi(p) \/ ProcessDone(p)
            \/ \E i \in DOMAIN dialled : \/ ConnCloses(i)
                                        \/ \E ok \in BOOLEAN : AuthFirstStream(i, ok)

-----------------------------------------------------------------------------
(* One stream: the outbound writes the address line, the marker in UDP     *)
(* mode, and payload; the inbound's BufReader takes what has arrived.      *)
Marker == <<<<"m", 1>>, <<"m", 2>>>>
Payload(n) == [i \in 1 .. n |-> <<"p", i>>]
ToWrite(mode) == (IF mode = "udp" THEN Marker ELSE <<>>) \o Payload(HPayload)
HStreamInit == /\ hmode \in {"tcp", "udp"} /\ wire = <<<<"addr", 0>>>> /\ hleft = ToWrite(hmode)
               /\ hbuf = <<>> /\ hgot = <<>> /\ hstep = "addr"

OutboundWrites == /\ hleft # <<>> /\ wire' = Append(wire, Head(hleft)) /\ hleft' = Tail(hleft)
                  /\ UNCHANGED <<hmode, hstep, hbuf, hgot>>

ReadAddr(n) ==           \* read_line fills the buffer with n items, one is the line
    /\ hstep = "addr" /\ n \in 1 .. Len(wire)
    /\ hbuf' = SubSeq(wire, 2, n) /\ wire' = SubSeq(wire, n + 1, Len(wire))
    /\ hstep' = "mode" /\ UNCHANGED <<hmode, hleft, hgot>>

FillBuf(n) ==            \* fill_buf reads only when the buffer is empty
    /\ hstep = "mode" /\ hbuf = <<>> /\ n \in 1 .. Len(wire)
    /\ hbuf' = SubSeq(wire, 1, n) /\ wire' = SubSeq(wire, n + 1, Len(wire))
    /\ UNCHANGED <<hmode, hleft, hstep, hgot>>

IsUdp == Len(hbuf) >= 2 /\ SubSeq(hbuf, 1, 2) = Marker

(* into_inner() gives the stream back and drops what is still buffered.    *)
Detect == /\ hstep = "mode" /\ hbuf # <<>>
          /\ hstep' = IF IsUdp THEN "udp" ELSE "tcp"
          /\ hbuf' = <<>> /\ UNCHANGED <<hmode, wire, hleft, hgot>>

Copies(mode) == /\ hstep = mode /\ wire # <<>>
                /\ hgot' = Append(hgot, Head(wire)) /\ wire' = Tail(wire)
                /\ UNCHANGED <<hmode, hleft, hstep, hbuf>>
InboundCopiesUdp == Copies("udp")
InboundCopiesTcp == Copies("tcp")

HStreamNext == OutboundWrites \/ Detect \/ InboundCopiesUdp \/ InboundCopiesTcp
               \/ \E n \in 1 .. HPayload + 3 : ReadAddr(n) \/ FillBuf(n)

-----------------------------------------------------------------------------
(* BrutalController.                                                       *)
ParseBandwidth(v, unit) ==
    v * (CASE unit = "bps" -> 1 [] unit = "kbps" -> 1000
           [] unit \in {"mbps", ""} -> 1000000 [] unit = "gbps" -> 1000000000)

Larger(a, b) == IF a > b THEN a ELSE b
BTarget == Larger(ParseBandwidth(rate[1], rate[2]) \div 8, BMin)
BrutalInit == /\ rate \in BRates /\ cwnd = BTarget /\ losses = 0

Growth(gap) == Larger(gap \div 16, 1)

OnAck == /\ cwnd < BTarget /\ cwnd < 10 * BTarget    \* max_cwnd
         /\ cwnd' = cwnd + Growth(BTarget - cwnd) /\ UNCHANGED <<rate, losses>>

OnCongestionEvent == /\ losses < BLosses /\ losses' = losses + 1
                     /\ cwnd' = Larger((cwnd * 7) \div 10, BMin) /\ UNCHANGED rate

BrutalNext == OnAck \/ OnCongestionEvent

-----------------------------------------------------------------------------
(* Concurrent calls share one connection: the pool never has two live ones *)
(* at a time, whatever closes and fails meanwhile.                         *)
OneLiveConnection == Cardinality({i \in DOMAIN dialled : dialled[i] # "closed"}) <= 1

(* The window is below the configured rate.                                *)
BelowRate == cwnd # BTarget

(* "Peek at remaining buffer to detect UDP mode marker" (lib.rs:459): the  *)
(* bytes looked at still reach the target, from the first one on.  Not an  *)
(* invariant: what the peek took out of a TCP stream is dropped.           *)
PeekLosesNothing == hgot = Payload(Len(hgot))
=============================================================================
