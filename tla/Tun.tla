-------------------------------- MODULE Tun --------------------------------
(* The TUN inbound: SimpleStack's receive loop and the echo replies it    *)
(* answers pings with.  A loop is spawned by start() and looks at         *)
(* `running` once per packet.                                             *)
EXTENDS Naturals, Sequences, FiniteSets

CONSTANTS
    TLoops,         \* start() calls looked at
    TPackets,       \* packets the device may deliver
    TNoPacket

VARIABLES
    running,
    loops,      \* loop number -> "none", "check", "recv" or "ended"
    late,       \* packets each loop has handled since the last close()
    echoed      \* the last packet answered, and the answer

tunVars == <<running, loops, late, echoed>>

TunInit ==
    /\ running = FALSE
    /\ loops = [l \in 1..TLoops |-> "none"]
    /\ late = [l \in 1..TLoops |-> 0]
    /\ echoed = [request |-> TNoPacket, reply |-> TNoPacket]

TunStart ==
    /\ \E l \in 1..TLoops :
         /\ loops[l] = "none" /\ \A k \in 1..(l - 1) : loops[k] # "none"
         /\ loops' = [loops EXCEPT ![l] = "check"]
    /\ running' = TRUE
    /\ UNCHANGED <<late, echoed>>
TunClose ==
    /\ running' = FALSE
    /\ late' = [l \in 1..TLoops |-> 0]
    /\ UNCHANGED <<loops, echoed>>

LoopCheck(l) ==
    /\ loops[l] = "check"
    /\ loops' = [loops EXCEPT ![l] = IF running THEN "recv" ELSE "ended"]
    /\ UNCHANGED <<running, late, echoed>>

--------------------------------------------------------------------------
(* compute_checksum: the ones' complement of the ones' complement sum of  *)
(* the 16-bit words, an odd last byte being the high one of its word.     *)
BugWordAt(s, i) == s[i] * 256 + (IF i < Len(s) THEN s[i + 1] ELSE s[i])
WordAt(s, i) == s[i] * 256 + (IF i < Len(s) THEN s[i + 1] ELSE 0)

WordSum[s \in Seq(0..255)] ==
    IF s = <<>> THEN 0 ELSE WordAt(s, 1) + WordSum[SubSeq(s, 3, Len(s))]
FoldCarries[n \in Nat] == IF n < 65536 THEN n ELSE FoldCarries[(n % 65536) + (n \div 65536)]
ComputeChecksum(s) == 65535 - FoldCarries[WordSum[s]]
Bytes(w) == <<w \div 256, w % 256>>

(* build_echo_reply.  A packet is its IP version, protocol, header bytes  *)
(* without the addresses and with the checksum last, the two addresses,   *)
(* and the ICMP part.  Any ICMP packet long enough is answered.           *)
BuildEchoReply(p) ==
    LET v6 == p.ver = 6
        unsummed == <<IF v6 THEN 129 ELSE 0, 0, 0, 0>> \o SubSeq(p.icmp, 5, Len(p.icmp))
        icmp == SubSeq(unsummed, 1, 2) \o Bytes(ComputeChecksum(unsummed))
                \o SubSeq(unsummed, 5, Len(unsummed))
        head == SubSeq(p.head, 1, Len(p.head) - 2)
    IN  [p EXCEPT !.src = p.dst, !.dst = p.src, !.icmp = icmp,
                  !.head = IF v6 THEN p.head
                           ELSE head \o Bytes(ComputeChecksum(head \o <<0, 0>> \o p.dst \o p.src))]

(* handle_packet, handle_ipv4, handle_ipv6: only ICMP is answered; TCP    *)
(* and UDP are dropped.                                                   *)
TunAnswered(p) == <<p.ver, p.proto>> \in {<<4, 1>>, <<6, 58>>} /\ Len(p.icmp) >= 8

LoopRecv(l) ==
    /\ loops[l] = "recv"
    /\ \E p \in TPackets :
         echoed' = IF TunAnswered(p) THEN [request |-> p, reply |-> BuildEchoReply(p)] ELSE echoed
    /\ late' = [late EXCEPT ![l] = IF running THEN 0 ELSE @ + 1]
    /\ loops' = [loops EXCEPT ![l] = "check"]
    /\ UNCHANGED running

(* recv fails: the loop sleeps and looks at `running` again. *)
LoopRecvFails(l) ==
    /\ loops[l] = "recv"
    /\ loops' = [loops EXCEPT ![l] = "check"]
    /\ UNCHANGED <<running, late, echoed>>

TunNext ==
    \/ TunStart \/ TunClose
    \/ \E l \in 1..TLoops : LoopCheck(l) \/ LoopRecv(l) \/ LoopRecvFails(l)
=============================================================================
