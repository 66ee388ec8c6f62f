-------------------------------- MODULE Kcp --------------------------------
(***************************************************************************)
(* The retransmission core of the mKCP transport: a SendingWorker, a       *)
(* ReceivingWorker with its AckList, and between them a network that       *)
(* loses, duplicates and reorders datagrams.  One direction of one         *)
(* conversation; the other direction is the same two workers swapped.      *)
(*                                                                         *)
(* Segment numbers do not wrap here (KMaxChunks is far below 2^32), and    *)
(* the retransmission clocks are abstracted to which of the transmitted    *)
(* segments, and which of the acknowledgements, a flush finds due.         *)
(***************************************************************************)
EXTENDS Integers, Sequences, FiniteSets, FiniteSetsExt

CONSTANTS KChunks,      \* payloads
          KMaxChunks,   \* bound: chunks written in a run
          KSendBuffer,  \* config.sending_buffer_size()
          KInFlight,    \* config.sending_in_flight_size()
          KRecvWindow,  \* ReceivingWorker.window_size
          KNetCap       \* bound: datagrams under way at once

ASSUME KcpAssumption == /\ KMaxChunks \in Nat /\ KSendBuffer \in Nat
                        /\ KInFlight \in Nat \ {0} /\ KRecvWindow \in Nat \ {0}
                        /\ KNetCap \in Nat

VARIABLES kput,         \* every chunk pushed, in order
          swin,         \* SendingWindow: number -> payload
          transmitted,  \* the numbers in it with transmit > 0
          una,          \* first_unacknowledged
          remoteNext,   \* remote_next_number
          kclosed,      \* close_write was called
          rwin,         \* ReceivingWindow: number -> payload
          rnext,        \* ReceivingWorker.next_number
          acks,         \* AckList.numbers
          dirty,        \* AckList.dirty
          dataNet,      \* data segments under way
          ackNet,       \* acknowledgement segments under way
          kgot          \* what read_multi_buffer returned so far

sendVars == <<swin, transmitted, una, remoteNext>>
recvVars == <<rwin, rnext>>
ackVars  == <<acks, dirty>>
kcpVars  == <<kput, sendVars, kclosed, recvVars, ackVars, dataNet, ackNet, kgot>>

KcpInit ==
    /\ kput = <<>> /\ kgot = <<>> /\ kclosed = FALSE
    /\ dataNet = {} /\ ackNet = {}
    /\ swin = <<>> /\ transmitted = {} /\ una = 0 /\ remoteNext = 32
    /\ rwin = <<>> /\ rnext = 0
    /\ acks = {} /\ dirty = FALSE

(* SendingWorker.next_number: one is used up for every chunk pushed.       *)
NextNumber == Len(kput)

Keep(win, S) == [n \in S |-> win[n]]

(* SendingWindow::push and ReceivingWindow::set on a free number           *)
WithChunk(win, n, c) ==
    [m \in DOMAIN win \cup {n} |-> IF m = n THEN c ELSE win[m]]

(* SendingWorker::push.  A window longer than the buffer size refuses the  *)
(* chunk, so it holds at most one more segment than the buffer size.       *)
Push(c) ==
    /\ ~kclosed
    /\ Len(kput) < KMaxChunks
    /\ Cardinality(DOMAIN swin) <= KSendBuffer
    /\ kput' = Append(kput, c)
    /\ swin' = WithChunk(swin, NextNumber, c)
    /\ UNCHANGED <<transmitted, una, remoteNext, kclosed, recvVars, ackVars,
                   dataNet, ackNet, kgot>>

(* find_first_unacknowledged                                               *)
FirstUnacknowledged(win) ==
    IF DOMAIN win = {} THEN NextNumber ELSE Min(DOMAIN win)

CongestionWindow ==
    IF remoteNext - una < KInFlight THEN remoteNext - una ELSE KInFlight

(* SendingWindow::flush walks the window in order and stops after the      *)
(* segment that fills the congestion window: one goes out even when that   *)
(* window is shut.                                                         *)
Chosen(due) ==
    {n \in due : \/ \A m \in due : n <= m
                 \/ Cardinality({m \in due : m < n}) < CongestionWindow}

DataSegment(n) == [number |-> n, payload |-> swin[n], sending_next |-> una]

NetHasRoom == Cardinality(dataNet') + Cardinality(ackNet') <= KNetCap

(* Connection::flush, the data half: SendingWorker::flush, then every      *)
(* segment goes out with sending_next set to the first unacknowledged      *)
(* number.  A segment never transmitted is due; of the others the clock    *)
(* makes some due.  The network may lose any of them at once; `want` names *)
(* the ones that must get out.                                             *)
FlushDataFor(want) ==
    \E late \in SUBSET transmitted :
      LET sent == Chosen((DOMAIN swin \ transmitted) \cup late) IN
      /\ sent # {}
      /\ \E out \in SUBSET sent :
           /\ want \subseteq out
           /\ dataNet' = dataNet \cup {DataSegment(n) : n \in out}
      /\ transmitted' = transmitted \cup sent
      /\ UNCHANGED <<kput, swin, una, remoteNext, kclosed, recvVars, ackVars,
                     ackNet, kgot>>
      /\ NetHasRoom

FlushData == FlushDataFor({})

(* AckList::clear: forgets the numbers the sender has moved past.          *)
AckClear(first) == {n \in acks : n >= first}

(* number.wrapping_sub(next_number) < window_size: a number already read   *)
(* wraps to a huge distance.                                               *)
InWindow(n) == n >= rnext /\ n - rnext < KRecvWindow

(* ReceivingWorker::process_segment.  Outside the window the segment is    *)
(* dropped without an acknowledgement; inside it the first copy is kept.   *)
ProcessData(seg) ==
    LET n == seg.number IN
    /\ IF InWindow(n)
       THEN /\ acks' = AckClear(seg.sending_next) \cup {n}
            /\ dirty' = TRUE
            /\ rwin' = IF n \in DOMAIN rwin THEN rwin ELSE WithChunk(rwin, n, seg.payload)
       ELSE UNCHANGED <<acks, dirty, rwin>>
    /\ UNCHANGED <<kput, sendVars, kclosed, rnext, ackNet, kgot>>

(* read_multi_buffer takes segments from next_number on until one is       *)
(* missing.                                                                *)
ReadChunks ==
    \E k \in 1 .. KRecvWindow :
      LET taken == rnext .. rnext + k - 1 IN
      /\ taken \subseteq DOMAIN rwin
      /\ rnext + k \notin DOMAIN rwin
      /\ kgot' = [i \in 1 .. Len(kgot) + k |->
                    IF i <= Len(kgot) THEN kgot[i]
                    ELSE rwin[rnext + i - Len(kgot) - 1]]
      /\ rwin' = Keep(rwin, DOMAIN rwin \ taken)
      /\ rnext' = rnext + k
      /\ UNCHANGED <<kput, sendVars, kclosed, ackVars, dataNet, ackNet>>

(* AckList::flush leaves every number on the list: it is sent again until  *)
(* the sender is seen to have moved past it.                               *)
AcksKept(due) == acks

(* ReceivingWorker::flush_acks.  Numbers that are due go first, the others *)
(* fill the segment; nothing goes out when none is due and the list did    *)
(* not change.  Fewer numbers than an AckSegment holds (128) are pending.  *)
FlushAcks ==
    \E due \in SUBSET acks :
      /\ dirty \/ due # {}
      /\ ackNet' = ackNet \cup {[numbers |-> acks, receiving_next |-> rnext,
                                 receiving_window |-> rnext + KRecvWindow]}
      /\ acks' = AcksKept(due) /\ dirty' = FALSE
      /\ UNCHANGED <<kput, sendVars, kclosed, recvVars, dataNet, kgot>>
      /\ NetHasRoom

BugUnacked(ack) == {n \in DOMAIN swin : n > ack.receiving_next} \ ack.numbers

(* process_receiving_next drops what lies before receiving_next; then      *)
(* process_ack removes each acknowledged number still in the window.       *)
Unacked(ack) == {n \in DOMAIN swin : n >= ack.receiving_next} \ ack.numbers

(* SendingWorker::process_segment                                          *)
ProcessAck(ack) ==
    /\ swin' = Keep(swin, Unacked(ack))
    /\ transmitted' = transmitted \cap Unacked(ack)
    /\ una' = FirstUnacknowledged(swin')
    /\ remoteNext' = IF remoteNext < ack.receiving_window
                     THEN ack.receiving_window ELSE remoteNext
    /\ UNCHANGED <<kput, kclosed, recvVars, ackVars, dataNet, kgot>>

(* A datagram arrives, and a copy of it may still be under way.            *)
DataArrives == \E p \in dataNet : /\ ProcessData(p)
                                  /\ dataNet' \in {dataNet, dataNet \ {p}}

AckArrives == \E p \in ackNet : /\ ProcessAck(p)
                                /\ ackNet' \in {ackNet, ackNet \ {p}}

NetLoses == /\ \/ \E p \in dataNet : dataNet' = dataNet \ {p} /\ ackNet' = ackNet
               \/ \E p \in ackNet : ackNet' = ackNet \ {p} /\ dataNet' = dataNet
            /\ UNCHANGED <<kput, sendVars, kclosed, recvVars, ackVars, kgot>>

(* close_write drops everything that is not acknowledged yet; the          *)
(* connection that called it writes no more.                               *)
CloseWrite ==
    /\ ~kclosed
    /\ kclosed' = TRUE
    /\ swin' = <<>> /\ transmitted' = {}
    /\ UNCHANGED <<kput, una, remoteNext, recvVars, ackVars, dataNet, ackNet, kgot>>

KcpNext == \/ \E c \in KChunks : Push(c)
           \/ FlushData \/ ReadChunks \/ FlushAcks
           \/ DataArrives \/ AckArrives \/ NetLoses \/ CloseWrite

(* The network delivers what is sent again and again, the updater loop     *)
(* flushes every tti, timeouts expire, and the reader reads.  Flushing     *)
(* needs strong fairness only because the bound KNetCap can close it.      *)
KcpFair ==
    /\ WF_kcpVars(ReadChunks)
    /\ SF_kcpVars(FlushAcks)
    /\ \A n \in 0 .. KMaxChunks - 1 :
         /\ SF_kcpVars(FlushDataFor({n}))
         /\ SF_kcpVars(\E p \in dataNet : /\ p.number = n /\ ProcessData(p)
                                          /\ dataNet' = dataNet \ {p})
         /\ SF_kcpVars(\E p \in ackNet : /\ n \in p.numbers \/ n < p.receiving_next
                                         /\ ProcessAck(p) /\ ackNet' = ackNet \ {p})

KcpSafety == KcpInit /\ [][KcpNext]_kcpVars

Stream == INSTANCE ReliableStream
            WITH Chunks <- KChunks, put <- kput, got <- kgot, closed <- kclosed

(* Every chunk pushed on one side is read on the other, once and in the    *)
(* order of the pushes, whatever the network loses, repeats or reorders:   *)
(* SendingWorker and ReceivingWorker implement a reliable stream.          *)
KcpIsReliable == Stream!Spec

(* The sending window holds segments that are not acknowledged yet.        *)
KcpUnacknowledged == DOMAIN swin # {} /\ ~kclosed
=============================================================================
