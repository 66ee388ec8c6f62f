------------------------------ MODULE MuxStream ------------------------------
(***************************************************************************)
(* The byte streams of open mux sessions: SessionIo of                     *)
(* astra-core-mux/src/io.rs between its user and the shared connection.    *)
(*                                                                         *)
(* Sending: poll_write and poll_shutdown spawn a task per call; a task     *)
(* takes the writer lock and puts one whole frame on the wire.  Receiving: *)
(* the read loop moves frames from the wire to the session's channel, from *)
(* which poll_read takes them.  The n-th byte of each stream is the number *)
(* n; a peer chunk is ChunkLen consecutive bytes.  The peer is external    *)
(* and conforming: chunks in order, at most one End, nothing after it.     *)
(***************************************************************************)
EXTENDS Integers, FiniteSets, Sequences, SequencesExt, FiniteSetsExt

CONSTANTS
    Sessions,   \* sessions that are open and have their channels attached
    MaxWrites,  \* bound: poll_write calls of all sessions
    MaxChunks,  \* bound: chunks the peer sends in all sessions
    ChunkLen,   \* bytes of a peer chunk
    BufLens     \* sizes of the buffers the user reads into

ASSUME StreamConstants ==
    /\ MaxWrites \in Nat /\ MaxChunks \in Nat
    /\ ChunkLen \in Nat \ {0}
    /\ BufLens \subseteq Nat \ {0}

End == 0   \* the frame poll_shutdown sends; data frames are numbered from 1

VARIABLES
    writes,    \* poll_write calls so far
    shutdown,  \* SessionIo.shutdown
    writers,   \* spawned tasks not yet run: <<session, frame>>
    wireOut,   \* frames written to the connection, by session
    broken,    \* the connection has failed in both directions
    sent,      \* bytes the peer has sent, or its End
    wireIn,    \* frames in flight to the read loop: <<session, first byte>>
    chan,      \* the session's unbounded channel of chunks
    attached,  \* Session.channels is Some: the channel has a sender
    read_buf,  \* rest of a chunk that did not fit the user's buffer
    received,  \* bytes poll_read has delivered
    eof,       \* SessionIo.eof
    parked     \* the reading task returned Pending and registered no waker

sendVars == <<writes, shutdown, writers, wireOut>>
peerVars == <<sent, wireIn>>
streamReadVars == <<chan, attached, read_buf, received, eof, parked>>
streamVars == <<sendVars, broken, peerVars, streamReadVars>>

Bytes(first, n) == [k \in 1 .. n |-> first + k - 1]

Stream == Seq(1 .. MaxChunks * ChunkLen)

(* Counters are within the bounds, queues hold frames and chunks. *)
StreamTypeOK ==
    /\ writes \in [Sessions -> 0 .. MaxWrites]
    /\ shutdown \in [Sessions -> BOOLEAN]
    /\ writers \subseteq Sessions \X (0 .. MaxWrites)
    /\ wireOut \in [Sessions -> Seq(0 .. MaxWrites)]
    /\ broken \in BOOLEAN
    /\ sent \in [Sessions -> [bytes : 0 .. MaxChunks * ChunkLen, ended : BOOLEAN]]
    /\ wireIn \in Seq(Sessions \X (0 .. MaxChunks * ChunkLen))
    /\ chan \in [Sessions -> Seq(Stream)]
    /\ read_buf \in [Sessions -> Stream] /\ received \in [Sessions -> Stream]
    /\ attached \in [Sessions -> BOOLEAN]
    /\ eof \in [Sessions -> BOOLEAN] /\ parked \in [Sessions -> BOOLEAN]

StreamInit ==
    /\ writes = [s \in Sessions |-> 0]
    /\ shutdown = [s \in Sessions |-> FALSE]
    /\ writers = {} /\ wireOut = [s \in Sessions |-> <<>>]
    /\ broken = FALSE
    /\ sent = [s \in Sessions |-> [bytes |-> 0, ended |-> FALSE]]
    /\ wireIn = <<>>
    /\ chan = [s \in Sessions |-> <<>>]
    /\ attached = [s \in Sessions |-> TRUE]
    /\ read_buf = [s \in Sessions |-> <<>>] /\ received = [s \in Sessions |-> <<>>]
    /\ eof = [s \in Sessions |-> FALSE] /\ parked = [s \in Sessions |-> FALSE]
-----------------------------------------------------------------------------
(* poll_write: spawn a task and report the whole buffer as written.  The   *)
(* user's task runs, so a reader parked in the same task is polled again.  *)
PollWrite(s) ==
    /\ ~shutdown[s]
    /\ MapThenSumSet(LAMBDA x : writes[x], Sessions) < MaxWrites
    /\ writes' = [writes EXCEPT ![s] = @ + 1]
    /\ writers' = writers \cup {<<s, writes'[s]>>}
    /\ parked' = [parked EXCEPT ![s] = FALSE]
    /\ UNCHANGED <<shutdown, wireOut, broken, peerVars, chan, attached, read_buf, received, eof>>

(* poll_shutdown: once, spawn the task that sends End. *)
PollShutdown(s) ==
    /\ ~shutdown[s]
    /\ shutdown' = [shutdown EXCEPT ![s] = TRUE]
    /\ writers' = writers \cup {<<s, End>>}
    /\ parked' = [parked EXCEPT ![s] = FALSE]
    /\ UNCHANGED <<writes, wireOut, broken, peerVars, chan, attached, read_buf, received, eof>>

(* A spawned task gets the writer lock: one frame, or an error nobody sees. *)
RunTask(t) ==
    /\ t \in writers
    /\ writers' = writers \ {t}
    /\ wireOut' = IF broken THEN wireOut ELSE [wireOut EXCEPT ![t[1]] = Append(@, t[2])]
    /\ UNCHANGED <<writes, shutdown, broken, peerVars, streamReadVars>>
-----------------------------------------------------------------------------
PeerChunk(s) ==
    /\ ~broken /\ ~sent[s].ended
    /\ MapThenSumSet(LAMBDA x : sent[x].bytes, Sessions) < MaxChunks * ChunkLen
    /\ wireIn' = Append(wireIn, <<s, sent[s].bytes + 1>>)
    /\ sent' = [sent EXCEPT ![s].bytes = @ + ChunkLen]
    /\ UNCHANGED <<sendVars, broken, streamReadVars>>

PeerEnd(s) ==
    /\ ~broken /\ ~sent[s].ended
    /\ wireIn' = Append(wireIn, <<s, End>>)
    /\ sent' = [sent EXCEPT ![s].ended = TRUE]
    /\ UNCHANGED <<sendVars, broken, streamReadVars>>

(* read_loop, Keep: the chunk goes to the session's channel if it has one.  *)
ReadLoopKeep ==
    /\ ~broken /\ wireIn # <<>>
    /\ LET s == Head(wireIn)[1] first == Head(wireIn)[2] IN
        /\ first # End
        /\ chan' = IF attached[s] THEN [chan EXCEPT ![s] = Append(@, Bytes(first, ChunkLen))]
                                  ELSE chan
    /\ wireIn' = Tail(wireIn)
    /\ UNCHANGED <<sendVars, broken, sent, attached, read_buf, received, eof, parked>>

(* read_loop, End: the channels are taken and dropped. *)
ReadLoopEnd ==
    /\ ~broken /\ wireIn # <<>> /\ Head(wireIn)[2] = End
    /\ attached' = [attached EXCEPT ![Head(wireIn)[1]] = FALSE]
    /\ wireIn' = Tail(wireIn)
    /\ UNCHANGED <<sendVars, broken, sent, chan, read_buf, received, eof, parked>>

(* The connection fails: read_loop breaks, the channels stay attached.      *)
ConnectionLost ==
    /\ ~broken
    /\ broken' = TRUE
    /\ wireIn' = <<>>
    /\ UNCHANGED <<sendVars, sent, streamReadVars>>
-----------------------------------------------------------------------------
TakeChunk(seq, n) == SubSeq(seq, 1, Min({n, Len(seq)}))
Drop(seq, n) == SubSeq(seq, Min({n, Len(seq)}) + 1, Len(seq))

Polled(s) == ~parked[s] /\ ~eof[s]

(* poll_read with a non-empty read_buf: no more than the buffer holds. *)
PollReadBuffered(s, n) ==
    /\ Polled(s) /\ read_buf[s] # <<>>
    /\ received' = [received EXCEPT ![s] = @ \o TakeChunk(read_buf[s], n)]
    /\ read_buf' = [read_buf EXCEPT ![s] = Drop(@, n)]
    /\ UNCHANGED <<sendVars, broken, peerVars, chan, attached, eof, parked>>

BugRestDropped(s, n) ==
    /\ Polled(s) /\ read_buf[s] = <<>> /\ chan[s] # <<>>
    /\ received' = [received EXCEPT ![s] = @ \o TakeChunk(Head(chan[s]), n)]
    /\ chan' = [chan EXCEPT ![s] = Tail(@)]
    /\ UNCHANGED <<sendVars, broken, peerVars, read_buf, attached, eof, parked>>

(* poll_read takes the next chunk and keeps what does not fit. *)
PollReadChunk(s, n) ==
    /\ Polled(s) /\ read_buf[s] = <<>> /\ chan[s] # <<>>
    /\ received' = [received EXCEPT ![s] = @ \o TakeChunk(Head(chan[s]), n)]
    /\ read_buf' = [read_buf EXCEPT ![s] = Drop(Head(chan[s]), n)]
    /\ chan' = [chan EXCEPT ![s] = Tail(@)]
    /\ UNCHANGED <<sendVars, broken, peerVars, attached, eof, parked>>

(* poll_read on an empty channel that has a sender: try_recv, so Pending   *)
(* without a waker.                                                        *)
PollReadPending(s) ==
    /\ Polled(s) /\ read_buf[s] = <<>> /\ chan[s] = <<>>
    /\ attached[s]
    /\ parked' = [parked EXCEPT ![s] = TRUE]
    /\ UNCHANGED <<sendVars, broken, peerVars, chan, attached, read_buf, received, eof>>

(* poll_read on an empty channel without a sender: end of stream. *)
PollReadEof(s) ==
    /\ Polled(s) /\ read_buf[s] = <<>> /\ chan[s] = <<>>
    /\ ~attached[s]
    /\ eof' = [eof EXCEPT ![s] = TRUE]
    /\ UNCHANGED <<sendVars, broken, peerVars, chan, attached, read_buf, received, parked>>

StreamPollRead(s) ==
    \/ \E n \in BufLens : PollReadBuffered(s, n) \/ PollReadChunk(s, n)
    \/ PollReadPending(s)
    \/ PollReadEof(s)

ReadLoop == ReadLoopKeep \/ ReadLoopEnd

StreamNext ==
    \/ \E s \in Sessions : PollWrite(s) \/ PollShutdown(s) \/ StreamPollRead(s)
                           \/ PeerChunk(s) \/ PeerEnd(s)
    \/ \E t \in writers : RunTask(t)
    \/ ReadLoop
    \/ ConnectionLost

StreamSpec == StreamInit /\ [][StreamNext]_streamVars

(* tokio runs every spawned task, the read loop reads what has arrived and *)
(* a runnable reader is polled.                                            *)
StreamFairSpec ==
    /\ StreamSpec
    /\ \A t \in Sessions \X (0 .. MaxWrites) : WF_streamVars(RunTask(t))
    /\ WF_streamVars(ReadLoop)
    /\ \A s \in Sessions : WF_streamVars(StreamPollRead(s))
-----------------------------------------------------------------------------
InFlight(s) ==
    LET data == SelectSeq(wireIn, LAMBDA t : t[1] = s /\ t[2] # End) IN
    FlattenSeq([k \in DOMAIN data |-> Bytes(data[k][2], ChunkLen)])

(* While the connection is up nothing the peer sent is lost, repeated or   *)
(* reordered on its way through the read loop, the channel and read_buf,   *)
(* whatever the sizes of the reader's buffers.                             *)
ReceivedInOrder ==
    \A s \in Sessions :
        LET path == received[s] \o read_buf[s] \o FlattenSeq(chan[s]) \o InFlight(s) IN
        IF broken THEN IsPrefix(path, Bytes(1, sent[s].bytes))
                  ELSE path = Bytes(1, sent[s].bytes)

(* The reader sees end of stream only when the peer ended the session and  *)
(* every byte it sent before that has been delivered.                      *)
EofAfterAllBytes ==
    \A s \in Sessions : eof[s] => sent[s].ended /\ received[s] = Bytes(1, sent[s].bytes)

(* No frame goes out twice, and every frame on the wire is one the user    *)
(* asked for, in the session it was written to.                            *)
WrittenAtMostOnce ==
    \A s \in Sessions :
        /\ IsInjective(wireOut[s])
        /\ \A f \in Range(wireOut[s]) :
              /\ <<s, f>> \notin writers
              /\ IF f = End THEN shutdown[s] ELSE f <= writes[s]

(* SessionIo presents a session "as an AsyncRead + AsyncWrite stream": the *)
(* frames of a session are on the wire in the order they were written.     *)
WireInWriteOrder ==
    \A s \in Sessions : \A j, k \in DOMAIN wireOut[s] :
        j < k => /\ wireOut[s][j] # End
                 /\ wireOut[s][k] = End \/ wireOut[s][j] < wireOut[s][k]

(* "Reading: receives data from the mux read loop via the session's data   *)
(* channel": a chunk in the channel is eventually read.                    *)
ChannelIsRead ==
    \A s \in Sessions : chan[s] # <<>> ~> chan[s] = <<>>
=============================================================================
