------------------------------ MODULE UdpRelay ------------------------------
(* One SOCKS UDP association and the outbound handler behind it.  The     *)
(* inbound runs three tasks: the control connection's handler, a task     *)
(* that reads the UDP socket and one that answers it.  A UdpLink, two     *)
(* unbounded queues, joins them to the outbound's process_udp, which has  *)
(* a send loop and a receive task of its own.                             *)
EXTENDS Naturals, Sequences, FiniteSets

CONSTANTS
    UClients,       \* addresses the client's datagrams come from
    UTargets,       \* where they want to go
    UMax,           \* how many datagrams the clients send
    UDnsServer,     \* the dns outbound's upstream
    UNobody         \* None

ASSUME NobodyIsNoTarget == UNobody \notin UTargets

VARIABLES
    umode,      \* the outbound's kind, and whether the inbound is cone
    tcpOpen,    \* the client holds its control connection
    asent,      \* the targets of the datagrams the clients have sent
    inbox,      \* those on their way to the inbound's socket
    assoc,      \* the inbound's tasks, client_addr and cone_dest
    upq, downq, \* the link
    outb,       \* the outbound's loop and receive task
    away,       \* datagrams sent on by the outbound
    uanswers,   \* answers on their way to the outbound's socket
    back        \* datagrams sent back to a client

udpVars == <<umode, tcpOpen, asent, inbox, assoc, upq, downq, outb, away, uanswers, back>>

UdpInit ==
    /\ umode \in [out : {"freedom", "dns", "socks"}, cone : BOOLEAN]
    /\ tcpOpen = TRUE
    /\ asent = <<>> /\ inbox = {}
    /\ assoc = [pc |-> "keepalive", up |-> "run", down |-> "run",
                client |-> UNobody, cone |-> UNobody]
    /\ upq = <<>> /\ downq = <<>>
    /\ outb = [loop |-> "run", recv |-> "run"]
    /\ away = {} /\ uanswers = {} /\ back = {}

(* A queue is closed for its reader once every sender is dropped, and for *)
(* its senders once the reader is.  from_upstream owns the inbound's end  *)
(* of the link and to_upstream a clone of its writer; the outbound's end  *)
(* lives until process_udp returns and its receive task holds a clone.    *)
InboundGone == assoc.up = "end" /\ assoc.down = "end"
OutboundGone == outb.loop = "end"

--------------------------------------------------------------------------
(* The clients and the network between them and the inbound's socket. *)
ClientSends ==
    /\ tcpOpen /\ Len(asent) < UMax
    /\ \E c \in UClients, t \in UTargets, whole \in BOOLEAN :
         /\ inbox' = inbox \cup {[id |-> Len(asent) + 1, src |-> c, target |-> t, whole |-> whole]}
         /\ asent' = Append(asent, t)
    /\ UNCHANGED <<umode, tcpOpen, assoc, upq, downq, outb, away, uanswers, back>>
DatagramLost ==
    /\ \E d \in inbox : inbox' = inbox \ {d}
    /\ UNCHANGED <<umode, tcpOpen, asent, assoc, upq, downq, outb, away, uanswers, back>>
ClientCloses ==
    /\ tcpOpen /\ tcpOpen' = FALSE
    /\ UNCHANGED <<umode, asent, inbox, assoc, upq, downq, outb, away, uanswers, back>>

--------------------------------------------------------------------------
(* to_upstream.  The last source becomes the client's address even when   *)
(* the datagram does not decode; a cone inbound sends everything to the   *)
(* first target.                                                          *)
BugConeTarget(d) == d.target
ConeTarget(d) == IF umode.cone /\ assoc.cone # UNobody THEN assoc.cone ELSE d.target

ToUpstream ==
    /\ assoc.up = "run"
    /\ \E d \in inbox :
         /\ inbox' = inbox \ {d}
         /\ assoc' = [assoc EXCEPT
              !.client = d.src,
              !.cone = IF d.whole /\ umode.cone THEN ConeTarget(d) ELSE @,
              !.up = IF d.whole /\ OutboundGone THEN "end" ELSE @]
         /\ upq' = IF d.whole /\ ~OutboundGone
                   THEN Append(upq, [id |-> d.id, src |-> d.src, target |-> ConeTarget(d)])
                   ELSE upq
    /\ UNCHANGED <<umode, tcpOpen, asent, downq, outb, away, uanswers, back>>

(* from_upstream answers whoever sent last. *)
FromUpstream ==
    /\ assoc.down = "run"
    /\ IF downq # <<>>
       THEN /\ downq' = Tail(downq)
            /\ back' = IF assoc.client = UNobody THEN back
                       ELSE back \cup {[id |-> Head(downq).id, from |-> Head(downq).from,
                                        to |-> assoc.client]}
            /\ assoc' = assoc
       ELSE /\ OutboundGone /\ outb.recv = "end"
            /\ assoc' = [assoc EXCEPT !.down = "end"]
            /\ UNCHANGED <<downq, back>>
    /\ UNCHANGED <<umode, tcpOpen, asent, inbox, upq, outb, away, uanswers>>

(* The control connection's handler: the keepalive loop, then the two     *)
(* tasks are awaited one after the other.                                 *)
Handler ==
    /\ \/ /\ assoc.pc = "keepalive" /\ ~tcpOpen
          /\ assoc' = [assoc EXCEPT !.pc = "await_up"]
       \/ /\ assoc.pc = "await_up" /\ assoc.up = "end"
          /\ assoc' = [assoc EXCEPT !.pc = "await_down"]
       \/ /\ assoc.pc = "await_down" /\ assoc.down = "end"
          /\ assoc' = [assoc EXCEPT !.pc = "ended"]
    /\ UNCHANGED <<umode, tcpOpen, asent, inbox, upq, downq, outb, away, uanswers, back>>

(* recv_from of the inbound's socket fails. *)
InboundSocketFails ==
    /\ assoc.up = "run"
    /\ assoc' = [assoc EXCEPT !.up = "end"]
    /\ UNCHANGED <<umode, tcpOpen, asent, inbox, upq, downq, outb, away, uanswers, back>>

--------------------------------------------------------------------------
(* process_udp's send loop.  freedom resolves the target and drops what   *)
(* it cannot resolve or send; the other two leave the loop on an error.   *)
SentTo(p) == IF umode.out = "dns" THEN UDnsServer ELSE p.target
OutSend ==
    /\ outb.loop = "run" /\ upq # <<>>
    /\ upq' = Tail(upq)
    /\ \/ away' = away \cup {[id |-> Head(upq).id, to |-> SentTo(Head(upq))]} /\ outb' = outb
       \/ /\ away' = away
          /\ outb' = [outb EXCEPT !.loop = IF umode.out = "freedom" THEN "run" ELSE "await"]
    /\ UNCHANGED <<umode, tcpOpen, asent, inbox, assoc, downq, uanswers, back>>
OutLoopEnds ==
    /\ \/ /\ outb.loop = "run" /\ upq = <<>> /\ InboundGone
          /\ outb' = [outb EXCEPT !.loop = "await"]
       \/ /\ outb.loop = "await" /\ outb.recv = "end"
          /\ outb' = [outb EXCEPT !.loop = "end"]
    /\ UNCHANGED <<umode, tcpOpen, asent, inbox, assoc, upq, downq, away, uanswers, back>>

RemoteAnswers ==
    /\ \E w \in away :
         /\ [id |-> w.id, from |-> w.to] \notin uanswers
         /\ uanswers' = uanswers \cup {[id |-> w.id, from |-> w.to]}
         /\ away' = away \ {w}
    /\ UNCHANGED <<umode, tcpOpen, asent, inbox, assoc, upq, downq, outb, back>>

(* The receive task ends when its socket fails or the link's other end is *)
(* gone.  The dns outbound names its server as the source, whoever sent.  *)
OutRecv ==
    /\ outb.recv = "run"
    /\ \E a \in uanswers :
         /\ uanswers' = uanswers \ {a}
         /\ IF assoc.down = "end"
            THEN outb' = [outb EXCEPT !.recv = "end"] /\ downq' = downq
            ELSE /\ downq' = Append(downq, [a EXCEPT !.from = IF umode.out = "dns" THEN UDnsServer ELSE @])
                 /\ outb' = outb
    /\ UNCHANGED <<umode, tcpOpen, asent, inbox, assoc, upq, away, back>>
OutSocketFails ==
    /\ outb.recv = "run"
    /\ outb' = [outb EXCEPT !.recv = "end"]
    /\ UNCHANGED <<umode, tcpOpen, asent, inbox, assoc, upq, downq, away, uanswers, back>>

UdpNext ==
    \/ ClientSends \/ DatagramLost \/ ClientCloses \/ RemoteAnswers
    \/ ToUpstream \/ FromUpstream \/ Handler \/ InboundSocketFails
    \/ OutSend \/ OutLoopEnds \/ OutRecv \/ OutSocketFails

(* A datagram that comes back to a client is named after the target that   *)
(* client addressed; a cone inbound has exchanged all targets for the      *)
(* first one it forwarded, and the dns outbound for its server.            *)
RepliesNameTheirTarget ==
    \A b \in back :
        b.from = CASE umode.out = "dns" -> UDnsServer
                   [] umode.out # "dns" /\ umode.cone -> assoc.cone
                   [] OTHER -> asent[b.id]
=============================================================================
