------------------------------ MODULE SplitHttp ------------------------------
(***************************************************************************)
(* One connection over the splithttp transport (packet-up mode): the       *)
(* dialer's upload loop, which cuts the stream into numbered POSTs, the    *)
(* listener's session table and upload queue, which put them in order      *)
(* again, and the chunked download with its chain of tasks and channels.   *)
(*                                                                         *)
(* A POST may be lost, overtaken by a later one, or repeated on its way,   *)
(* and the download's TCP connection may break.  The upload carries bytes  *)
(* 1, 2, 3, ...; the download, first in first out from end to end, is      *)
(* counted.  Variants named Bug... are mistakes the properties below must  *)
(* notice; no action uses them.                                            *)
(***************************************************************************)
EXTENDS Integers, Sequences, FiniteSets

CONSTANTS
    MaxUpload,      \* config.max_upload_size, in bytes
    QueueCap,       \* UploadQueueInner.max_packets (128)
    ChanCap,        \* capacity of the mpsc channels (1024)
    WriteSizes,     \* bytes of one write by the client
    MaxBytes,       \* bound: bytes the client writes
    MaxDown,        \* bound: chunks the server writes
    MaxCopies       \* bound: repeated POSTs

ASSUME SplitConstants ==
    /\ MaxUpload \in Nat \ {0} /\ QueueCap \in Nat \ {0} /\ ChanCap \in Nat \ {0}
    /\ MaxBytes \in Nat /\ MaxDown \in Nat /\ MaxCopies \in Nat
    /\ WriteSizes \subseteq Nat

VARIABLES
    clientOpen,     \* the dialer's SplitConn is held
    written,        \* bytes accepted from the client
    upChan,         \* upload_rx: chunks, each a sequence of bytes
    up,             \* upload_loop: [pc, buf, seq], and the bytes it has sent
    posts,          \* POSTs on their way or being handled
    copies,         \* repeated POSTs so far
    map,            \* the session table's entry: "live", "zombie" or "none"
    queue,          \* the upload queue's heap, packets
    next_seq,       \* the packet the upload queue releases next
    feeder,         \* the task that pops the queue: [pc, data]
    readChan,       \* read_rx of the listener's SplitConn
    serverOpen,     \* the listener's SplitConn is held
    delivered,      \* bytes the server has read
    lost,           \* history: some packet will never be in the queue
    down            \* the download's chain, from the server's writes on

upVars == <<clientOpen, written, upChan, up>>
queueVars == <<queue, next_seq, feeder, readChan, delivered>>
splitVars == <<upVars, posts, copies, map, queueVars, serverOpen, lost, down>>

Bytes(first, count) == [i \in 1 .. count |-> first + i - 1]
Prefix(s, n) == SubSeq(s, 1, n)
Suffix(s, n) == SubSeq(s, n + 1, Len(s))

-----------------------------------------------------------------------------
(* SplitConn::poll_write of the dialer; refused once the upload loop is    *)
(* gone, and retried while the channel is full.                            *)
ClientWrite(n) ==
    /\ clientOpen /\ up.pc # "done" /\ Len(upChan) < ChanCap
    /\ written + n <= MaxBytes
    /\ written' = written + n
    /\ upChan' = Append(upChan, Bytes(written + 1, n))
    /\ UNCHANGED <<clientOpen, up, posts, copies, map, queueVars, serverOpen,
                   lost, down>>

(* The client drops the connection: upload_tx and download_rx close.       *)
ClientClose ==
    /\ clientOpen
    /\ clientOpen' = FALSE
    /\ UNCHANGED <<written, upChan, up, posts, copies, map, queueVars,
                   serverOpen, lost, down>>

AfterPost(buf) == IF Len(buf) >= MaxUpload THEN "send" ELSE "recv"

(* upload_loop receives; a full packet's worth of bytes is sent at once,   *)
(* less waits for more, or for the end.                                    *)
UploadRecv ==
    LET buf == up.buf \o Head(upChan)
    IN  /\ up.pc = "recv" /\ upChan # <<>>
        /\ upChan' = Tail(upChan)
        /\ up' = [up EXCEPT !.buf = buf, !.pc = AfterPost(buf)]
        /\ UNCHANGED <<clientOpen, written, posts, copies, map, queueVars,
                       serverOpen, lost, down>>

Packet(data) == [seq |-> up.seq, data |-> data, copy |-> 0, session |-> "none"]

(* send_post: the request goes out, or fails to.  A failed one may have    *)
(* reached the listener all the same.  Only success goes on.               *)
SendPost(ok, arrives) ==
    LET packet == Packet(Prefix(up.buf, MaxUpload))
    IN  /\ up.pc = "send"
        /\ ok => arrives
        /\ posts' = IF arrives THEN posts \cup {packet} ELSE posts
        /\ lost' = (lost \/ ~arrives)
        /\ up' = [up EXCEPT !.buf = Suffix(@, MaxUpload),
                            !.sent = @ + MaxUpload,
                            !.pc = IF ok THEN "await" ELSE "done"]
        /\ upChan' = IF ok THEN upChan ELSE <<>>
        /\ UNCHANGED <<clientOpen, written, copies, map, queueVars, serverOpen,
                       down>>

BugNoIncrement(buf) == [up EXCEPT !.pc = AfterPost(buf)]

NextSeq(buf) == [up EXCEPT !.pc = AfterPost(buf), !.seq = @ + 1]

(* The reply is read, or the read fails: the result is ignored.            *)
PostAnswered ==
    /\ up.pc = "await"
    /\ up' = NextSeq(up.buf)
    /\ UNCHANGED <<clientOpen, written, upChan, posts, copies, map, queueVars,
                   serverOpen, lost, down>>

(* The channel is closed and drained: what is left in the buffer goes out  *)
(* in a last POST whose result is ignored.                                 *)
UploadEnd(arrives) ==
    /\ up.pc = "recv" /\ upChan = <<>> /\ ~clientOpen
    /\ posts' = IF up.buf # <<>> /\ arrives
                THEN posts \cup {Packet(up.buf)} ELSE posts
    /\ lost' = (lost \/ (up.buf # <<>> /\ ~arrives))
    /\ up' = [up EXCEPT !.buf = <<>>, !.pc = "done",
                        !.sent = @ + Len(up.buf)]
    /\ UNCHANGED <<clientOpen, written, upChan, copies, map, queueVars,
                   serverOpen, down>>

-----------------------------------------------------------------------------
(* What the network does to a POST the listener has not accepted yet.      *)
LosePost(p) ==
    /\ p \in posts /\ p.session = "none"
    /\ posts' = posts \ {p}
    /\ lost' = TRUE
    /\ UNCHANGED <<upVars, copies, map, queueVars, serverOpen, down>>

RepeatPost(p) ==
    /\ p \in posts /\ p.session = "none" /\ copies < MaxCopies
    /\ posts' = posts \cup {[p EXCEPT !.copy = copies + 1]}
    /\ copies' = copies + 1
    /\ UNCHANGED <<upVars, map, queueVars, serverOpen, lost, down>>

(* handle_upload_post finds the session, or creates one that no download   *)
(* belongs to ...                                                          *)
HandlePost(p) ==
    LET session == IF map = "live" THEN "live" ELSE "zombie"
    IN  /\ p \in posts /\ p.session = "none"
        /\ map' = session
        /\ posts' = (posts \ {p}) \cup {[p EXCEPT !.session = session]}
        /\ UNCHANGED <<upVars, copies, queueVars, serverOpen, lost, down>>

(* UploadQueue::push keeps a packet that is not late while there is room.  *)
Accepts(p) == p.seq >= next_seq /\ Cardinality(queue) < QueueCap

(* ... and pushes the packet; the reply is 200 whether or not it is kept.  *)
PushPost(p) ==
    LET kept == p.session = "live" /\ Accepts(p)
    IN  /\ p \in posts /\ p.session # "none"
        /\ posts' = posts \ {p}
        /\ queue' = IF kept THEN queue \cup {[p EXCEPT !.session = "none"]}
                    ELSE queue
        /\ lost' = (lost \/ (~kept /\ ~(p.session = "live" /\ p.seq < next_seq)))
        /\ UNCHANGED <<upVars, copies, map, next_seq, feeder, readChan,
                       delivered, serverOpen, down>>

BugDue == {p \in queue : \A q \in queue : p.seq <= q.seq}

(* The packet try_pop releases: the top of the heap, if it is the next.    *)
Due == {p \in queue : p.seq = next_seq /\ \A q \in queue : p.seq <= q.seq}

Pop ==
    /\ feeder.pc = "pop"
    /\ \E p \in Due :
          /\ queue' = queue \ {p}
          /\ next_seq' = next_seq + 1
          /\ feeder' = [pc |-> "send", data |-> p.data]
    /\ UNCHANGED <<upVars, posts, copies, map, readChan, delivered, serverOpen,
                   lost, down>>

(* read_tx.send waits for room; once the connection is dropped the task    *)
(* ends and removes the session.                                           *)
Feed ==
    /\ feeder.pc = "send"
    /\ \/ /\ serverOpen /\ Len(readChan) < ChanCap
          /\ readChan' = Append(readChan, feeder.data)
          /\ feeder' = [pc |-> "pop", data |-> <<>>]
          /\ UNCHANGED map
       \/ /\ ~serverOpen
          /\ feeder' = [pc |-> "gone", data |-> <<>>]
          /\ map' = "none"
          /\ UNCHANGED readChan
    /\ UNCHANGED <<upVars, posts, copies, queue, next_seq, delivered,
                   serverOpen, lost, down>>

(* SplitConn::poll_read of the listener, one chunk.                        *)
ServerRead ==
    /\ serverOpen /\ readChan # <<>>
    /\ delivered' = delivered \o Head(readChan)
    /\ readChan' = Tail(readChan)
    /\ UNCHANGED <<upVars, posts, copies, map, queue, next_seq, feeder,
                   serverOpen, lost, down>>

(* The proxy drops the connection: read_rx and write_tx close.             *)
ServerClose ==
    /\ serverOpen
    /\ serverOpen' = FALSE
    /\ readChan' = <<>>
    /\ UNCHANGED <<upVars, posts, copies, map, queue, next_seq, feeder,
                   delivered, lost, down>>

-----------------------------------------------------------------------------
(* The download: chunks in the SplitConn's channel (wt), in the session's  *)
(* channel (dl), on the wire (net), in the dialer's channel (cl), and read *)
(* (got); the three tasks between them; and the state of its connection.   *)
DownInit ==
    [wrote |-> 0, wt |-> 0, dl |-> 0, net |-> 0, cl |-> 0, got |-> 0,
     pump |-> TRUE, stream |-> TRUE, reader |-> TRUE, end |-> FALSE,
     broken |-> FALSE]

upSide == <<upVars, posts, copies, queueVars, lost>>

(* poll_write of the listener; refused once the pump is gone.              *)
ServerWrite ==
    /\ serverOpen /\ down.pump /\ down.wt < ChanCap /\ down.wrote < MaxDown
    /\ down' = [down EXCEPT !.wrote = @ + 1, !.wt = @ + 1]
    /\ UNCHANGED <<upSide, map, serverOpen>>

(* The task between write_rx and download_tx.                              *)
Pump ==
    /\ down.pump
    /\ \/ /\ down.wt > 0 /\ down.stream /\ down.dl < ChanCap
          /\ down' = [down EXCEPT !.wt = @ - 1, !.dl = @ + 1]
       \/ /\ down.wt > 0 /\ ~down.stream
          /\ down' = [down EXCEPT !.wt = 0, !.pump = FALSE]
       \/ /\ down.wt = 0 /\ ~serverOpen
          /\ down' = [down EXCEPT !.pump = FALSE]
    /\ UNCHANGED <<upSide, map, serverOpen>>

PeerGone == down.broken \/ ~down.reader

(* stream_chunked writes a chunk.  Once the peer is gone a write may still *)
(* succeed, for nothing, until one fails; then the task removes the        *)
(* session.                                                                *)
StreamDown ==
    /\ down.stream /\ down.dl > 0
    /\ \/ /\ down' = [down EXCEPT !.dl = @ - 1,
                                  !.net = IF PeerGone THEN @ ELSE @ + 1]
          /\ UNCHANGED map
       \/ /\ PeerGone
          /\ down' = [down EXCEPT !.dl = 0, !.stream = FALSE]
          /\ map' = "none"
    /\ UNCHANGED <<upSide, serverOpen>>

(* Every sender of the session's channel is dropped: the pump's, and the   *)
(* session's own, which the table and any POST being handled keep alive.   *)
SendersGone ==
    /\ ~down.pump
    /\ map # "live" /\ \A p \in posts : p.session # "live"

(* The channel is closed and drained: the final chunk is written.          *)
StreamEnd ==
    /\ down.stream /\ down.dl = 0 /\ SendersGone
    /\ down' = [down EXCEPT !.stream = FALSE,
                            !.end = ~PeerGone]
    /\ map' = "none"
    /\ UNCHANGED <<upSide, serverOpen>>

(* read_chunked_body: a chunk goes to the client, or its channel is        *)
(* closed, or the body ends with its final chunk or with an error.  Where  *)
(* the connection ends cleanly before the final chunk, the code reads      *)
(* empty lines for ever: here, the step is not taken.                      *)
DownloadRead ==
    /\ down.reader
    /\ \/ /\ down.net > 0 /\ clientOpen /\ down.cl < ChanCap
          /\ down' = [down EXCEPT !.net = @ - 1, !.cl = @ + 1]
       \/ /\ down.net > 0 /\ ~clientOpen
          /\ down' = [down EXCEPT !.net = 0, !.reader = FALSE]
       \/ /\ down.end \/ down.broken
          /\ down.net = 0
          /\ down' = [down EXCEPT !.reader = FALSE]
    /\ UNCHANGED <<upSide, map, serverOpen>>

ClientRead ==
    /\ clientOpen /\ down.cl > 0
    /\ down' = [down EXCEPT !.cl = @ - 1, !.got = @ + 1]
    /\ UNCHANGED <<upSide, map, serverOpen>>

(* The download's connection breaks; what is on the wire is gone.          *)
Break ==
    /\ ~down.broken /\ down.reader
    /\ down' = [down EXCEPT !.broken = TRUE, !.net = 0]
    /\ UNCHANGED <<upSide, map, serverOpen>>

-----------------------------------------------------------------------------
(* dial_packet_up and handle_download have met: the session is in the      *)
(* table, both SplitConns are handed out and every task is running.        *)
SplitInit ==
    /\ clientOpen = TRUE /\ serverOpen = TRUE
    /\ written = 0 /\ upChan = <<>>
    /\ up = [pc |-> "recv", buf |-> <<>>, seq |-> 0, sent |-> 0]
    /\ posts = {} /\ copies = 0 /\ map = "live"
    /\ queue = {} /\ next_seq = 0
    /\ feeder = [pc |-> "pop", data |-> <<>>]
    /\ readChan = <<>> /\ delivered = <<>>
    /\ lost = FALSE
    /\ down = DownInit

UploadLoop ==
    \/ UploadRecv \/ PostAnswered
    \/ \E ok, arrives \in BOOLEAN : SendPost(ok, arrives)
    \/ \E arrives \in BOOLEAN : UploadEnd(arrives)

Listener == \E p \in posts : HandlePost(p) \/ PushPost(p)

Downloading == Pump \/ StreamDown \/ StreamEnd \/ DownloadRead \/ ClientRead

SplitNext ==
    \/ \E n \in WriteSizes : ClientWrite(n)
    \/ ClientClose \/ ServerClose \/ ServerWrite \/ Break
    \/ UploadLoop \/ Listener
    \/ \E p \in posts : LosePost(p) \/ RepeatPost(p)
    \/ Pop \/ Feed \/ ServerRead
    \/ Downloading

SplitSpec == SplitInit /\ [][SplitNext]_splitVars

(* The listener's tasks run on, and the proxy keeps reading while it holds *)
(* the connection.                                                         *)
SplitFairSpec ==
    /\ SplitSpec
    /\ WF_splitVars(Listener) /\ WF_splitVars(Pop) /\ WF_splitVars(Feed)
    /\ WF_splitVars(ServerRead)

-----------------------------------------------------------------------------
(* The transport's variables hold values of their types, and the queue and *)
(* the channels keep within their capacities.                              *)
SplitTypeOK ==
    /\ {clientOpen, serverOpen, lost} \subseteq BOOLEAN
    /\ written \in 0 .. MaxBytes
    /\ Len(upChan) <= ChanCap /\ Len(readChan) <= ChanCap
    /\ up.pc \in {"recv", "send", "await", "done"}
    /\ up.pc = "send" => Len(up.buf) >= MaxUpload
    /\ up.sent \in 0 .. written
    /\ copies \in 0 .. MaxCopies
    /\ map \in {"live", "zombie", "none"}
    /\ Cardinality(queue) <= QueueCap
    /\ \A p \in queue \cup posts : p.data # <<>> /\ p.seq \in 0 .. up.seq
    /\ next_seq \in 0 .. up.seq + 1
    /\ feeder.pc \in {"pop", "send", "gone"}
    /\ down.wt <= ChanCap /\ down.dl <= ChanCap /\ down.cl <= ChanCap

(* What the server has read is a prefix of what the client wrote: no byte  *)
(* is missing, repeated or out of place, although POSTs are lost,          *)
(* repeated, overtaken, refused by a full queue or sent to a session that  *)
(* is gone.                                                                *)
UploadIsPrefix == delivered = Bytes(1, Len(delivered))

(* A client that reads the end of the download has read everything the     *)
(* server wrote, whatever was dropped first, the connection, the session   *)
(* or a POST in progress, unless the TCP connection broke.                 *)
DownloadEndIsComplete ==
    (clientOpen /\ ~down.reader /\ down.cl = 0 /\ ~down.broken)
        => down.got = down.wrote

(* The server catches up with what went out in POSTs, unless a packet was  *)
(* lost or refused, the server gave up, or a packet came twice.            *)
UploadArrives ==
    up.sent > Len(delivered) ~>
        up.sent = Len(delivered) \/ lost \/ ~serverOpen \/ copies > 0

(* Both directions of a session are kept whole within bounded queues: the  *)
(* listener hands out a prefix of what was written, whatever POSTs are     *)
(* lost, repeated or overtaken, and a download that ended did so after its *)
(* last byte.                                                              *)
SplitIntact == SplitTypeOK /\ UploadIsPrefix /\ DownloadEndIsComplete
=============================================================================
