------------------------------ MODULE Buffers ------------------------------
(***************************************************************************)
(* The byte containers of astra-core-buf and the chunk readers of          *)
(* astra-core-crypto on top of them: MultiBuffer, BufferedReader, the      *)
(* plain ChunkStreamReader and the AuthenticationReader.                   *)
(*                                                                         *)
(* A Buffer is the sequence of its bytes; a wire byte is <<chunk, kind,    *)
(* position>> where kind is "size" or "body".  A size is two bytes.        *)
(***************************************************************************)
EXTENDS Integers, Sequences, SequencesExt, FiniteSetsExt

CONSTANTS BufSize,       \* SIZE of a Buffer
          BufBytes,      \* bound: bytes put into the MultiBuffer
          ChunkSizes,    \* sizes of the chunks a peer may send
          BufChunks,     \* bound: chunks on the wire
          BufReads,      \* most bytes one read of the connection returns
          Overhead       \* bytes of an authentication tag

VARIABLES bmb, btotal, bgiven, btaken, bdead,     \* MultiBuffer and its bytes
          bsrc, bpc, bneed, bacc, bcached, bsoft, bout, breader, bsizes   \* a reader over it

mbVars == <<bmb, btotal, bgiven, btaken, bdead>>
readVars == <<bsrc, bpc, bneed, bacc, bcached, bsoft, bout, breader, bsizes>>

Flat(bufs) == FlattenSeq(bufs)
Size(bufs) == Len(Flat(bufs))

-----------------------------------------------------------------------------
(* MultiBuffer.  An operation returns what it takes and what it leaves.    *)
BugCutFront(bufs, n) ==
    LET whole == Max({0} \cup {k \in 1 .. Len(bufs) : Size(SubSeq(bufs, 1, k)) <= n})
    IN  [taken |-> SubSeq(bufs, 1, whole), left |-> SubSeq(bufs, whole + 1, Len(bufs))]

(* Whole buffers while they fit, then a copy of the head of the next one.  *)
cut_front(bufs, n) ==
    LET whole == Max({0} \cup {k \in 1 .. Len(bufs) : Size(SubSeq(bufs, 1, k)) <= n})
        over == n - Size(SubSeq(bufs, 1, whole))
        rest == SubSeq(bufs, whole + 1, Len(bufs))
    IN  IF rest = <<>> \/ over = 0
        THEN [taken |-> SubSeq(bufs, 1, whole), left |-> rest]
        ELSE [taken |-> Append(SubSeq(bufs, 1, whole), SubSeq(rest[1], 1, over)),
              left |-> <<SubSeq(rest[1], over + 1, Len(rest[1]))>> \o Tail(rest)]

(* read_into a slice of m bytes.  What fits is measured against the whole  *)
(* slice, so a second buffer that does not fit behind the first one is an  *)
(* index out of range.                                                     *)
RECURSIVE ReadInto(_, _, _)
ReadInto(bufs, m, got) ==
    IF Len(got) >= m \/ bufs = <<>> THEN [got |-> got, left |-> bufs, dead |-> FALSE]
    ELSE LET n == Min({m, Len(bufs[1])})
         IN  IF Len(got) + n > m THEN [got |-> got, left |-> bufs, dead |-> TRUE]
             ELSE ReadInto(IF n = Len(bufs[1]) THEN Tail(bufs)
                           ELSE <<SubSeq(bufs[1], n + 1, Len(bufs[1]))>> \o Tail(bufs),
                           m, got \o SubSeq(bufs[1], 1, n))

MultiInit == bmb = <<>> /\ btotal = 0 /\ bgiven = <<>> /\ btaken = <<>> /\ bdead = FALSE

NextBytes(n) == [i \in 1 .. n |-> Len(bgiven) + i]

push_back(n) ==
    /\ ~bdead /\ Len(bgiven) + n <= BufBytes
    /\ bmb' = Append(bmb, NextBytes(n)) /\ btotal' = btotal + n
    /\ bgiven' = bgiven \o NextBytes(n) /\ UNCHANGED <<btaken, bdead>>

pop_front ==
    /\ ~bdead /\ bmb # <<>>
    /\ bmb' = Tail(bmb) /\ btotal' = btotal - Len(bmb[1])
    /\ btaken' = btaken \o bmb[1] /\ UNCHANGED <<bgiven, bdead>>

CutFront(n) ==
    LET cut == cut_front(bmb, n)
    IN  /\ ~bdead /\ bmb # <<>>
        /\ bmb' = cut.left /\ btotal' = btotal - Min({n, btotal})
        /\ btaken' = btaken \o Flat(cut.taken) /\ UNCHANGED <<bgiven, bdead>>

read_into(m) ==
    LET r == ReadInto(bmb, m, <<>>)
    IN  /\ ~bdead /\ bmb # <<>>
        /\ bmb' = r.left /\ bdead' = r.dead /\ btotal' = btotal - Len(r.got)
        /\ btaken' = btaken \o r.got /\ UNCHANGED bgiven

MultiNext == \E n \in 1 .. BufSize : push_back(n) \/ CutFront(n) \/ read_into(n) \/ pop_front

(* However a MultiBuffer is cut, popped and read, no byte is lost, doubled *)
(* or moved, and len() is the number of bytes in it.                       *)
MultiBufferKeepsBytes ==
    btaken \o Flat(bmb) = bgiven /\ btotal = Size(bmb)

-----------------------------------------------------------------------------
(* A chunk on the wire: its size, then that many bytes.                    *)
Chunk(c) == <<<<c, "size", 1>>, <<c, "size", 2>>>> \o
            [i \in 1 .. bsizes[c] |-> <<c, "body", i>>]
Wire == FlattenSeq([c \in DOMAIN bsizes |-> Chunk(c)])

ReaderInit ==
    /\ breader \in {"chunk", "auth"}
    /\ bsizes \in UNION {[1 .. n -> ChunkSizes] : n \in 1 .. BufChunks}
    /\ bsrc = Wire /\ bpc = "start" /\ bneed = 0 /\ bacc = <<>>
    /\ bcached = 0 /\ bsoft = FALSE /\ bout = <<>>

(* One read of the connection: a SingleReader returns one buffer, a        *)
(* ReadVReader goes on to the next one when a buffer is full.              *)
Split(bytes) == IF Len(bytes) <= BufSize THEN <<bytes>>
                ELSE <<SubSeq(bytes, 1, BufSize), SubSeq(bytes, BufSize + 1, Len(bytes))>>
Received(bufs) ==
    \/ bsrc = <<>> /\ bufs = <<>> /\ UNCHANGED bsrc
    \/ \E n \in 1 .. Min({BufReads, Len(bsrc)}) :
          /\ bufs = Split(SubSeq(bsrc, 1, n)) /\ bsrc' = SubSeq(bsrc, n + 1, Len(bsrc))
Batches == {<<>>} \cup {Split(SubSeq(bsrc, 1, n)) : n \in 1 .. Min({BufReads, Len(bsrc)})}

(* BufferedReader::read, as the loops of read_exact and read_buffer call   *)
(* it until they have bneed bytes; 0 bytes end them with an error.         *)
ReadSome ==
    /\ bpc \in {"size", "body"} /\ Len(bacc) < bneed
    /\ \E bufs \in IF bmb # <<>> THEN {bmb} ELSE Batches :
          LET r == ReadInto(bufs, bneed - Len(bacc), <<>>)
          IN  /\ IF bmb # <<>> THEN UNCHANGED bsrc ELSE Received(bufs)
              /\ bmb' = r.left /\ bacc' = bacc \o r.got
              /\ bpc' = IF r.dead THEN "dead" ELSE IF bufs = <<>> THEN "failed" ELSE bpc
    /\ UNCHANGED <<bneed, bcached, bsoft, bout, breader, bsizes>>

Goes(pc, need) == bpc' = pc /\ bneed' = need /\ bacc' = <<>>

(* decode: the two bytes are a size only where a chunk starts.             *)
Framed == bacc[1][2] = "size" /\ bacc[1][3] = 1
Decoded == bsizes[bacc[1][1]]

-----------------------------------------------------------------------------
(* ChunkStreamReader::read_multi_buffer.                                   *)
ChunkStart == /\ breader = "chunk" /\ bpc = "start" /\ Goes("size", 2)
              /\ UNCHANGED <<bmb, bsrc, bcached, bsoft, bout, breader, bsizes>>

ChunkSize == /\ breader = "chunk" /\ bpc = "size" /\ Len(bacc) = 2
             /\ IF ~Framed THEN Goes("misframed", 0)
                ELSE IF Decoded = 0 THEN Goes("ended", 0) ELSE Goes("at most", Decoded)
             /\ UNCHANGED <<bmb, bsrc, bcached, bsoft, bout, breader, bsizes>>

(* read_at_most: when less than the chunk is buffered, one more read is    *)
(* appended and all that is not returned of it is dropped.                 *)
read_at_most ==
    /\ breader = "chunk" /\ bpc = "at most"
    /\ \E more \in IF Size(bmb) >= bneed THEN {<<>>} ELSE Batches :
         LET cut == cut_front(bmb \o more, bneed)
             got == Flat(cut.taken)
         IN  /\ IF Size(bmb) >= bneed THEN UNCHANGED bsrc /\ bmb' = cut.left
                ELSE Received(more) /\ bmb' = <<>>
             /\ bout' = bout \o got
             /\ IF got = <<>> THEN Goes("failed", 0)
                ELSE IF Len(got) = bneed THEN Goes("start", 0)
                ELSE Goes("at most", bneed - Len(got))
    /\ UNCHANGED <<bcached, bsoft, breader, bsizes>>

-----------------------------------------------------------------------------
(* AuthenticationReader.  A call makes one hard read_internal and then     *)
(* soft ones, which never wait: they stop at what is buffered.             *)
AuthStart ==
    /\ breader = "auth" /\ bpc = "start"
    /\ IF bsoft /\ Size(bmb) < 2 THEN bsoft' = FALSE /\ UNCHANGED <<bpc, bneed, bacc, bcached>>
       ELSE IF bcached # 0 THEN bcached' = 0 /\ Goes("sized", bcached) /\ UNCHANGED bsoft
       ELSE Goes("size", 2) /\ UNCHANGED <<bsoft, bcached>>
    /\ UNCHANGED <<bmb, bsrc, bout, breader, bsizes>>

AuthSize ==
    /\ breader = "auth" /\ bpc = "size" /\ Len(bacc) = 2
    /\ IF Framed THEN Goes("sized", Decoded) ELSE Goes("misframed", 0)
    /\ UNCHANGED <<bmb, bsrc, bcached, bsoft, bout, breader, bsizes>>

KeepsSize == /\ Goes("start", 0) /\ bsoft' = FALSE /\ bcached' = bneed

(* The empty chunk ends the stream; a soft read keeps the size of a chunk  *)
(* that has not arrived; a chunk of more than SIZE is read apart.          *)
read_internal ==
    /\ breader = "auth" /\ bpc = "sized"
    /\ IF bneed = Overhead THEN Goes("ended", 0) /\ UNCHANGED <<bsoft, bcached>>
       ELSE IF bsoft /\ bneed > Size(bmb) THEN KeepsSize
       ELSE Goes("body", bneed) /\ UNCHANGED <<bsoft, bcached>>
    /\ UNCHANGED <<bmb, bsrc, bout, breader, bsizes>>

(* open() succeeds on exactly the next sealed chunk, as both ends count    *)
(* nonces.  read_buffer then extends the buffer by the plaintext behind    *)
(* the ciphertext, which panics when both do not fit.                      *)
read_buffer ==
    /\ breader = "auth" /\ bpc = "body" /\ Len(bacc) = bneed
    /\ LET c == Len(bout) + 1
           genuine == c \in DOMAIN bsizes /\ bacc = SubSeq(Chunk(c), 3, Len(Chunk(c)))
       IN  IF ~genuine THEN Goes("forged", 0) /\ UNCHANGED <<bout, bsoft>>
           ELSE IF bneed <= BufSize /\ 2 * bneed - Overhead > BufSize
                THEN Goes("dead", 0) /\ UNCHANGED <<bout, bsoft>>
           ELSE Goes("start", 0) /\ bout' = Append(bout, c) /\ bsoft' \in BOOLEAN
    /\ UNCHANGED <<bmb, bsrc, bcached, breader, bsizes>>

ReaderNext == /\ \/ ReadSome \/ ChunkStart \/ ChunkSize \/ read_at_most
                 \/ AuthStart \/ AuthSize \/ read_internal \/ read_buffer
              /\ UNCHANGED <<btotal, bgiven, btaken, bdead>>

(* Soft reads that give up half way, sizes kept for the next call and      *)
(* chunks that span reads leave the AuthenticationReader in step with its  *)
(* peer: it reads a size only where a chunk starts and opens every chunk   *)
(* in turn.                                                                *)
AuthReaderInStep == bpc \notin {"misframed", "forged"} \/ breader = "chunk"
=============================================================================
