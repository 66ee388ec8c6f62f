--------------------------- MODULE SplitHttpProofs ---------------------------
(***************************************************************************)
(* splithttp keeps both directions of a session whole, whatever becomes of *)
(* its POSTs, for every upload size, queue and channel capacity.           *)
(***************************************************************************)
EXTENDS SplitHttp, Counting

(* The download.  Nothing is lost between the tasks while both ends and    *)
(* the connection are there, and the end follows the last chunk.           *)
Level == 0 .. ChanCap
Downs == [wrote : Nat, wt : Level, dl : Level, net : Nat, cl : Level, got : Nat,
          pump : BOOLEAN, stream : BOOLEAN, reader : BOOLEAN, end : BOOLEAN, broken : BOOLEAN]

Flows(w, o) ==
    /\ ~w.pump => w.wt = 0
    /\ ~w.stream => w.dl = 0 /\ (~w.pump \/ w.broken \/ ~w.reader)
    /\ w.end => ~w.stream /\ ~w.pump
    /\ w.reader /\ ~w.broken => w.wrote = w.wt + w.dl + w.net + w.cl + w.got
    /\ ~w.reader /\ ~w.broken /\ o => w.end /\ w.wrote = w.cl + w.got

(* What a step of the download's tasks does to w, field by field.          *)
Moves(w, v, o) ==
    \/ w.pump /\ w.wt < ChanCap
       /\ v = [w EXCEPT !.wrote = @ + 1, !.wt = @ + 1]
    \/ w.wt > 0 /\ w.stream /\ w.dl < ChanCap
       /\ v = [w EXCEPT !.wt = @ - 1, !.dl = @ + 1]
    \/ w.pump /\ w.wt > 0 /\ ~w.stream
       /\ v = [w EXCEPT !.wt = 0, !.pump = FALSE]
    \/ w.wt = 0
       /\ v = [w EXCEPT !.pump = FALSE]
    \/ w.stream /\ w.dl > 0
       /\ v = [w EXCEPT !.dl = @ - 1, !.net = IF w.broken \/ ~w.reader THEN @ ELSE @ + 1]
    \/ w.stream /\ (w.broken \/ ~w.reader)
       /\ v = [w EXCEPT !.dl = 0, !.stream = FALSE]
    \/ w.stream /\ w.dl = 0 /\ ~w.pump
       /\ v = [w EXCEPT !.stream = FALSE, !.end = ~(w.broken \/ ~w.reader)]
    \/ w.reader /\ w.net > 0 /\ w.cl < ChanCap
       /\ v = [w EXCEPT !.net = @ - 1, !.cl = @ + 1]
    \/ ~o
       /\ v = [w EXCEPT !.net = 0, !.reader = FALSE]
    \/ w.reader /\ (w.end \/ w.broken) /\ w.net = 0
       /\ v = [w EXCEPT !.reader = FALSE]
    \/ w.cl > 0
       /\ v = [w EXCEPT !.cl = @ - 1, !.got = @ + 1]
    \/ w.reader
       /\ v = [w EXCEPT !.broken = TRUE, !.net = 0]

LEMMA DownTyped ==
  ASSUME NEW w \in Downs
  PROVE  /\ w.wrote \in Nat /\ w.wt \in Nat /\ w.dl \in Nat /\ w.net \in Nat /\ w.cl \in Nat /\ w.got \in Nat
         /\ w.wt <= ChanCap /\ w.dl <= ChanCap /\ w.cl <= ChanCap
         /\ w.pump \in BOOLEAN /\ w.stream \in BOOLEAN /\ w.reader \in BOOLEAN
         /\ w.end \in BOOLEAN /\ w.broken \in BOOLEAN
  <1>1. /\ w.wrote \in Nat /\ w.wt \in Level /\ w.dl \in Level /\ w.net \in Nat /\ w.cl \in Level /\ w.got \in Nat
        /\ w.pump \in BOOLEAN /\ w.stream \in BOOLEAN /\ w.reader \in BOOLEAN
        /\ w.end \in BOOLEAN /\ w.broken \in BOOLEAN
    BY Zenon DEF Downs
  <1> QED BY <1>1, SplitConstants DEF Level

LEMMA DownMoves ==
  ASSUME NEW w \in Downs, NEW v, NEW o \in BOOLEAN, Flows(w, o), Moves(w, v, o)
  PROVE  v \in Downs /\ Flows(v, o)
  <1>1. CASE w.pump /\ w.wt < ChanCap /\ v = [w EXCEPT !.wrote = @ + 1, !.wt = @ + 1]
    <2>1. PICK x, y : x = w.wrote + 1 /\ x \in Nat /\ y = w.wt + 1 /\ y \in Level
      BY <1>1, DownTyped, SplitConstants DEF Level
    <2>2. v = [w EXCEPT !.wrote = x, !.wt = y]
      BY <1>1, <2>1, Zenon
    <2>3. v \in Downs
      BY <2>2, <2>1 DEF Downs
    <2>4. /\ v.wrote = x /\ v.wt = y /\ v.dl = w.dl /\ v.net = w.net /\ v.cl = w.cl /\ v.got = w.got
          /\ v.pump = w.pump /\ v.stream = w.stream /\ v.reader = w.reader /\ v.end = w.end /\ v.broken = w.broken
      BY <2>2 DEF Downs
    <2>5. Flows(v, o)
      BY <1>1, <2>1, <2>4, DownTyped DEF Flows
    <2> QED BY <2>3, <2>5
  <1>2. CASE w.wt > 0 /\ w.stream /\ w.dl < ChanCap /\ v = [w EXCEPT !.wt = @ - 1, !.dl = @ + 1]
    <2>1. PICK x, y : x = w.wt - 1 /\ x \in Level /\ y = w.dl + 1 /\ y \in Level
      BY <1>2, DownTyped, SplitConstants DEF Level
    <2>2. v = [w EXCEPT !.wt = x, !.dl = y]
      BY <1>2, <2>1, Zenon
    <2>3. v \in Downs
      BY <2>2, <2>1 DEF Downs
    <2>4. /\ v.wrote = w.wrote /\ v.wt = x /\ v.dl = y /\ v.net = w.net /\ v.cl = w.cl /\ v.got = w.got
          /\ v.pump = w.pump /\ v.stream = w.stream /\ v.reader = w.reader /\ v.end = w.end /\ v.broken = w.broken
      BY <2>2 DEF Downs
    <2>5. Flows(v, o)
      BY <1>2, <2>1, <2>4, DownTyped DEF Flows
    <2> QED BY <2>3, <2>5
  <1>3. CASE w.pump /\ w.wt > 0 /\ ~w.stream /\ v = [w EXCEPT !.wt = 0, !.pump = FALSE]
    <2>1. PICK x : x = 0 /\ x \in Level
      BY <1>3, DownTyped, SplitConstants DEF Level
    <2>2. v = [w EXCEPT !.wt = x, !.pump = FALSE]
      BY <1>3, <2>1, Zenon
    <2>3. v \in Downs
      BY <2>2, <2>1 DEF Downs
    <2>4. /\ v.wrote = w.wrote /\ v.wt = x /\ v.dl = w.dl /\ v.net = w.net /\ v.cl = w.cl /\ v.got = w.got
          /\ v.pump = FALSE /\ v.stream = w.stream /\ v.reader = w.reader /\ v.end = w.end /\ v.broken = w.broken
      BY <2>2 DEF Downs
    <2>5. Flows(v, o)
      BY <1>3, <2>1, <2>4, DownTyped DEF Flows
    <2> QED BY <2>3, <2>5
  <1>4. CASE w.wt = 0 /\ v = [w EXCEPT !.pump = FALSE]
    <2>2. v = [w EXCEPT !.pump = FALSE]
      BY <1>4, Zenon
    <2>3. v \in Downs
      BY <2>2 DEF Downs
    <2>4. /\ v.wrote = w.wrote /\ v.wt = w.wt /\ v.dl = w.dl /\ v.net = w.net /\ v.cl = w.cl /\ v.got = w.got
          /\ v.pump = FALSE /\ v.stream = w.stream /\ v.reader = w.reader /\ v.end = w.end /\ v.broken = w.broken
      BY <2>2 DEF Downs
    <2>5. Flows(v, o)
      BY <1>4, <2>4, DownTyped DEF Flows
    <2> QED BY <2>3, <2>5
  <1>5. CASE w.stream /\ w.dl > 0 /\ v = [w EXCEPT !.dl = @ - 1, !.net = IF w.broken \/ ~w.reader THEN @ ELSE @ + 1]
    <2>1. PICK x, y : x = w.dl - 1 /\ x \in Level /\ y = (IF w.broken \/ ~w.reader THEN w.net ELSE w.net + 1) /\ y \in Nat
      BY <1>5, DownTyped, SplitConstants DEF Level
    <2>2. v = [w EXCEPT !.dl = x, !.net = y]
      BY <1>5, <2>1, Zenon
    <2>3. v \in Downs
      BY <2>2, <2>1 DEF Downs
    <2>4. /\ v.wrote = w.wrote /\ v.wt = w.wt /\ v.dl = x /\ v.net = y /\ v.cl = w.cl /\ v.got = w.got
          /\ v.pump = w.pump /\ v.stream = w.stream /\ v.reader = w.reader /\ v.end = w.end /\ v.broken = w.broken
      BY <2>2 DEF Downs
    <2>5. Flows(v, o)
      BY <1>5, <2>1, <2>4, DownTyped DEF Flows
    <2> QED BY <2>3, <2>5
  <1>6. CASE w.stream /\ (w.broken \/ ~w.reader) /\ v = [w EXCEPT !.dl = 0, !.stream = FALSE]
    <2>1. PICK x : x = 0 /\ x \in Level
      BY <1>6, DownTyped, SplitConstants DEF Level
    <2>2. v = [w EXCEPT !.dl = x, !.stream = FALSE]
      BY <1>6, <2>1, Zenon
    <2>3. v \in Downs
      BY <2>2, <2>1 DEF Downs
    <2>4. /\ v.wrote = w.wrote /\ v.wt = w.wt /\ v.dl = x /\ v.net = w.net /\ v.cl = w.cl /\ v.got = w.got
          /\ v.pump = w.pump /\ v.stream = FALSE /\ v.reader = w.reader /\ v.end = w.end /\ v.broken = w.broken
      BY <2>2 DEF Downs
    <2>5. Flows(v, o)
      BY <1>6, <2>1, <2>4, DownTyped DEF Flows
    <2> QED BY <2>3, <2>5
  <1>7. CASE w.stream /\ w.dl = 0 /\ ~w.pump /\ v = [w EXCEPT !.stream = FALSE, !.end = ~(w.broken \/ ~w.reader)]
    <2>1. PICK z : z = ~(w.broken \/ ~w.reader) /\ z \in BOOLEAN
      BY <1>7, DownTyped, SplitConstants DEF Level
    <2>2. v = [w EXCEPT !.stream = FALSE, !.end = z]
      BY <1>7, <2>1, Zenon
    <2>3. v \in Downs
      BY <2>2, <2>1 DEF Downs
    <2>4. /\ v.wrote = w.wrote /\ v.wt = w.wt /\ v.dl = w.dl /\ v.net = w.net /\ v.cl = w.cl /\ v.got = w.got
          /\ v.pump = w.pump /\ v.stream = FALSE /\ v.reader = w.reader /\ v.end = z /\ v.broken = w.broken
      BY <2>2 DEF Downs
    <2>5. Flows(v, o)
      BY <1>7, <2>1, <2>4, DownTyped DEF Flows
    <2> QED BY <2>3, <2>5
  <1>8. CASE w.reader /\ w.net > 0 /\ w.cl < ChanCap /\ v = [w EXCEPT !.net = @ - 1, !.cl = @ + 1]
    <2>1. PICK x, y : x = w.net - 1 /\ x \in Nat /\ y = w.cl + 1 /\ y \in Level
      BY <1>8, DownTyped, SplitConstants DEF Level
    <2>2. v = [w EXCEPT !.net = x, !.cl = y]
      BY <1>8, <2>1, Zenon
    <2>3. v \in Downs
      BY <2>2, <2>1 DEF Downs
    <2>4. /\ v.wrote = w.wrote /\ v.wt = w.wt /\ v.dl = w.dl /\ v.net = x /\ v.cl = y /\ v.got = w.got
          /\ v.pump = w.pump /\ v.stream = w.stream /\ v.reader = w.reader /\ v.end = w.end /\ v.broken = w.broken
      BY <2>2 DEF Downs
    <2>5. Flows(v, o)
      BY <1>8, <2>1, <2>4, DownTyped DEF Flows
    <2> QED BY <2>3, <2>5
  <1>9. CASE ~o /\ v = [w EXCEPT !.net = 0, !.reader = FALSE]
    <2>1. PICK x : x = 0 /\ x \in Nat
      BY <1>9, DownTyped, SplitConstants DEF Level
    <2>2. v = [w EXCEPT !.net = x, !.reader = FALSE]
      BY <1>9, <2>1, Zenon
    <2>3. v \in Downs
      BY <2>2, <2>1 DEF Downs
    <2>4. /\ v.wrote = w.wrote /\ v.wt = w.wt /\ v.dl = w.dl /\ v.net = x /\ v.cl = w.cl /\ v.got = w.got
          /\ v.pump = w.pump /\ v.stream = w.stream /\ v.reader = FALSE /\ v.end = w.end /\ v.broken = w.broken
      BY <2>2 DEF Downs
    <2>5. Flows(v, o)
      BY <1>9, <2>1, <2>4, DownTyped DEF Flows
    <2> QED BY <2>3, <2>5
  <1>10. CASE w.reader /\ (w.end \/ w.broken) /\ w.net = 0 /\ v = [w EXCEPT !.reader = FALSE]
    <2>2. v = [w EXCEPT !.reader = FALSE]
      BY <1>10, Zenon
    <2>3. v \in Downs
      BY <2>2 DEF Downs
    <2>4. /\ v.wrote = w.wrote /\ v.wt = w.wt /\ v.dl = w.dl /\ v.net = w.net /\ v.cl = w.cl /\ v.got = w.got
          /\ v.pump = w.pump /\ v.stream = w.stream /\ v.reader = FALSE /\ v.end = w.end /\ v.broken = w.broken
      BY <2>2 DEF Downs
    <2>5. Flows(v, o)
      BY <1>10, <2>4, DownTyped DEF Flows
    <2> QED BY <2>3, <2>5
  <1>11. CASE w.cl > 0 /\ v = [w EXCEPT !.cl = @ - 1, !.got = @ + 1]
    <2>1. PICK x, y : x = w.cl - 1 /\ x \in Level /\ y = w.got + 1 /\ y \in Nat
      BY <1>11, DownTyped, SplitConstants DEF Level
    <2>2. v = [w EXCEPT !.cl = x, !.got = y]
      BY <1>11, <2>1, Zenon
    <2>3. v \in Downs
      BY <2>2, <2>1 DEF Downs
    <2>4. /\ v.wrote = w.wrote /\ v.wt = w.wt /\ v.dl = w.dl /\ v.net = w.net /\ v.cl = x /\ v.got = y
          /\ v.pump = w.pump /\ v.stream = w.stream /\ v.reader = w.reader /\ v.end = w.end /\ v.broken = w.broken
      BY <2>2 DEF Downs
    <2>5. Flows(v, o)
      BY <1>11, <2>1, <2>4, DownTyped DEF Flows, Level
    <2> QED BY <2>3, <2>5
  <1>12. CASE w.reader /\ v = [w EXCEPT !.broken = TRUE, !.net = 0]
    <2>1. PICK x : x = 0 /\ x \in Nat
      BY <1>12, DownTyped, SplitConstants DEF Level
    <2>2. v = [w EXCEPT !.broken = TRUE, !.net = x]
      BY <1>12, <2>1, Zenon
    <2>3. v \in Downs
      BY <2>2, <2>1 DEF Downs
    <2>4. /\ v.wrote = w.wrote /\ v.wt = w.wt /\ v.dl = w.dl /\ v.net = x /\ v.cl = w.cl /\ v.got = w.got
          /\ v.pump = w.pump /\ v.stream = w.stream /\ v.reader = w.reader /\ v.end = w.end /\ v.broken = TRUE
      BY <2>2 DEF Downs
    <2>5. Flows(v, o)
      BY <1>12, <2>1, <2>4, DownTyped DEF Flows
    <2> QED BY <2>3, <2>5
  <1> QED BY <1>1, <1>2, <1>3, <1>4, <1>5, <1>6, <1>7, <1>8, <1>9, <1>10, <1>11, <1>12, Zenon DEF Moves

(* Where packet k begins.                                                  *)
Off(k) == k * MaxUpload

LEMMA OffNext ==
  ASSUME NEW k \in Nat
  PROVE  Off(k) \in Nat /\ Off(k + 1) \in Nat /\ Off(k + 1) = Off(k) + MaxUpload
  BY SplitConstants DEF Off

LEMMA BytesRun ==
  ASSUME NEW w \in Nat, NEW n \in Nat
  PROVE  Run(Bytes(w + 1, n), w, w + n)
  BY DEF Run, Bytes

(* The upload loop: its buffer follows the bytes sent, its channel follows *)
(* the buffer, and what was sent is a whole number of packets until the    *)
(* last one.                                                               *)
Ups == [pc : {"recv", "send", "await", "done"}, buf : Seq(Nat), seq : Nat, sent : Nat]

Cut(u, w, q, e) ==
    Run(u.buf, u.sent, e) /\ e <= w /\ (u.pc # "done" => Runs(q, e, w))

Aligned(u) ==
    /\ u.pc \in {"recv", "send"} => u.sent = Off(u.seq)
    /\ u.pc = "await" => u.sent = Off(u.seq + 1)
    /\ u.pc = "recv" => Len(u.buf) < MaxUpload
    /\ u.pc = "send" => Len(u.buf) >= MaxUpload

UpState(u, w, q) ==
    /\ u \in Ups /\ w \in Nat /\ w <= MaxBytes
    /\ q \in Seq(Seq(Nat)) /\ Len(q) <= ChanCap
    /\ \E e \in Nat : Cut(u, w, q, e)
    /\ Aligned(u)

LEMMA UpTyped ==
  ASSUME NEW u \in Ups
  PROVE  /\ u.pc \in {"recv", "send", "await", "done"} /\ u.buf \in Seq(Nat)
         /\ u.seq \in Nat /\ u.sent \in Nat /\ Len(u.buf) \in Nat
  BY DEF Ups

LEMMA AfterPosts ==
  ASSUME NEW d, Len(d) \in Nat
  PROVE  /\ AfterPost(d) \in {"recv", "send"} /\ AfterPost(d) # "done"
         /\ AfterPost(d) = "recv" => Len(d) < MaxUpload
         /\ AfterPost(d) = "send" => Len(d) >= MaxUpload
  BY SplitConstants DEF AfterPost

LEMMA UpWrite ==
  ASSUME NEW u, NEW w, NEW q, UpState(u, w, q), NEW n \in Nat,
         u.pc # "done", Len(q) < ChanCap, w + n <= MaxBytes
  PROVE  UpState(u, w + n, Append(q, Bytes(w + 1, n)))
  <1>1. u \in Ups /\ w \in Nat /\ q \in Seq(Seq(Nat)) /\ Aligned(u)
    BY Zenon DEF UpState
  <1>2. PICK e \in Nat : Cut(u, w, q, e)
    BY Zenon DEF UpState
  <1>3. PICK d : d = Bytes(w + 1, n) /\ Run(d, w, w + n)
    BY <1>1, BytesRun
  <1>4. d \in Seq(Nat)
    BY <1>3, RunLen, Zenon
  <1>5. Runs(Append(q, d), e, w + n)
    BY <1>1, <1>2, <1>3, <1>4, RunsAppend, Zenon DEF Cut
  <1>6. Append(q, d) \in Seq(Seq(Nat)) /\ Len(Append(q, d)) <= ChanCap
    BY <1>1, <1>4, SplitConstants
  <1>7. w + n \in Nat /\ e <= w + n
    BY <1>1, <1>2 DEF Cut
  <1>8. Cut(u, w + n, Append(q, d), e)
    BY <1>2, <1>5, <1>7, Zenon DEF Cut
  <1> QED BY <1>1, <1>3, <1>6, <1>7, <1>8, Zenon DEF UpState

TakesChunk(u, q, d, v) ==
    /\ u.pc = "recv" /\ q # <<>> /\ d = u.buf \o Head(q)
    /\ v = [u EXCEPT !.buf = d, !.pc = AfterPost(d)]

LEMMA UpRecv ==
  ASSUME NEW u, NEW w, NEW q, UpState(u, w, q), NEW d, NEW v, TakesChunk(u, q, d, v)
  PROVE  UpState(v, w, Tail(q)) /\ v.seq = u.seq
  <1>0. /\ u.pc = "recv" /\ q # <<>> /\ d = u.buf \o Head(q)
        /\ v = [u EXCEPT !.buf = d, !.pc = AfterPost(d)]
    BY Zenon DEF TakesChunk
  <1>1. u \in Ups /\ w \in Nat /\ q \in Seq(Seq(Nat)) /\ Len(q) <= ChanCap /\ w <= MaxBytes /\ Aligned(u)
    BY Zenon DEF UpState
  <1>2. PICK e \in Nat : Cut(u, w, q, e)
    BY Zenon DEF UpState
  <1>3. Len(q) # 0 /\ Tail(q) \in Seq(Seq(Nat)) /\ Len(Tail(q)) <= ChanCap
    BY <1>0, <1>1, SplitConstants
  <1>4. PICK c : Run(Head(q), e, c) /\ Runs(Tail(q), c, w)
    BY <1>0, <1>1, <1>2, <1>3, RunsHead, Zenon DEF Cut
  <1>5. Run(d, u.sent, c)
    BY <1>0, <1>2, <1>4, RunJoin, Zenon DEF Cut
  <1>6. c \in Nat /\ c <= w
    BY <1>4, RunsOrder, Zenon
  <1>7. d \in Seq(Nat) /\ Len(d) \in Nat
    BY <1>5, RunLen, Zenon
  <1>8. PICK p : p = AfterPost(d) /\ p \in {"recv", "send"} /\ (p = "recv" => Len(d) < MaxUpload)
                 /\ (p = "send" => Len(d) >= MaxUpload)
    BY <1>7, AfterPosts, Zenon
  <1>9. v = [u EXCEPT !.buf = d, !.pc = p]
    BY <1>0, <1>8, Zenon
  <1>10. v \in Ups /\ v.pc = p /\ v.buf = d /\ v.sent = u.sent /\ v.seq = u.seq
    BY <1>1, <1>7, <1>8, <1>9 DEF Ups
  <1>11. Cut(v, w, Tail(q), c)
    BY <1>4, <1>5, <1>6, <1>10, Zenon DEF Cut
  <1>12. Aligned(v)
    BY <1>0, <1>1, <1>8, <1>10 DEF Aligned
  <1> QED BY <1>1, <1>3, <1>6, <1>10, <1>11, <1>12, Zenon DEF UpState

PacketGoes(u, q, ok, v, r) ==
    /\ u.pc = "send"
    /\ v = [u EXCEPT !.buf = Suffix(@, MaxUpload), !.sent = @ + MaxUpload,
                     !.pc = IF ok THEN "await" ELSE "done"]
    /\ r = IF ok THEN q ELSE <<>>

LEMMA UpSend ==
  ASSUME NEW u, NEW w, NEW q, UpState(u, w, q), NEW ok \in BOOLEAN, NEW v, NEW r, PacketGoes(u, q, ok, v, r)
  PROVE  /\ UpState(v, w, r) /\ v.seq = u.seq /\ v.pc \in {"await", "done"}
         /\ Run(Prefix(u.buf, MaxUpload), Off(u.seq), Off(u.seq + 1))
  <1>0. /\ u.pc = "send" /\ r = IF ok THEN q ELSE <<>>
        /\ v = [u EXCEPT !.buf = Suffix(@, MaxUpload), !.sent = @ + MaxUpload,
                         !.pc = IF ok THEN "await" ELSE "done"]
    BY Zenon DEF PacketGoes
  <1>1. u \in Ups /\ w \in Nat /\ q \in Seq(Seq(Nat)) /\ Len(q) <= ChanCap /\ w <= MaxBytes /\ Aligned(u)
    BY Zenon DEF UpState
  <1>2. PICK e \in Nat : Cut(u, w, q, e)
    BY Zenon DEF UpState
  <1>3. u.sent = Off(u.seq) /\ Len(u.buf) >= MaxUpload
    BY <1>0, <1>1 DEF Aligned
  <1>4. PICK s : s = u.sent + MaxUpload /\ s \in Nat /\ s = Off(u.seq + 1)
    <2>1. u.seq \in Nat /\ Off(u.seq) \in Nat /\ Off(u.seq + 1) = Off(u.seq) + MaxUpload
      BY <1>1, UpTyped, OffNext, Zenon
    <2> QED BY <1>3, <2>1, SplitConstants
  <1>5. Run(u.buf, u.sent, e) /\ Len(u.buf) = e - u.sent
    BY <1>2, RunLen, Zenon DEF Cut
  <1>6. MaxUpload \in 0 .. e - u.sent
    BY <1>1, <1>2, <1>3, <1>5, UpTyped, SplitConstants
  <1>7. PICK d : d = Suffix(u.buf, MaxUpload)
    BY Zenon
  <1>8. Run(Prefix(u.buf, MaxUpload), u.sent, s) /\ Run(d, s, e)
    BY <1>4, <1>5, <1>6, <1>7, RunCut, Zenon DEF Prefix, Suffix
  <1>9. d \in Seq(Nat)
    BY <1>8, RunLen, Zenon
  <1>10. PICK p : p = (IF ok THEN "await" ELSE "done")
    BY Zenon
  <1>11. p \in {"await", "done"} /\ (p = "await" => ok)
    BY <1>10
  <1>12. v = [u EXCEPT !.buf = d, !.sent = s, !.pc = p]
    BY <1>0, <1>4, <1>7, <1>10, Zenon
  <1>13. v \in Ups /\ v.pc = p /\ v.buf = d /\ v.sent = s /\ v.seq = u.seq
    BY <1>1, <1>4, <1>9, <1>11, <1>12 DEF Ups
  <1>14. v.pc # "done" => Runs(r, e, w)
    BY <1>0, <1>2, <1>11, <1>13 DEF Cut
  <1>15. Cut(v, w, r, e)
    BY <1>2, <1>8, <1>13, <1>14, Zenon DEF Cut
  <1>16. Aligned(v)
    BY <1>4, <1>11, <1>13 DEF Aligned
  <1>17. r \in Seq(Seq(Nat)) /\ Len(r) <= ChanCap
    BY <1>0, <1>1, SplitConstants
  <1>18. UpState(v, w, r)
    BY <1>1, <1>2, <1>13, <1>15, <1>16, <1>17, Zenon DEF UpState
  <1> QED BY <1>3, <1>4, <1>8, <1>11, <1>13, <1>18, Zenon

LEMMA UpAnswered ==
  ASSUME NEW u, NEW w, NEW q, UpState(u, w, q), u.pc = "await",
         NEW v, v = [u EXCEPT !.pc = AfterPost(u.buf), !.seq = @ + 1]
  PROVE  UpState(v, w, q) /\ v.seq = u.seq + 1 /\ v.pc # "done"
  <1>1. u \in Ups /\ w \in Nat /\ q \in Seq(Seq(Nat)) /\ Len(q) <= ChanCap /\ w <= MaxBytes /\ Aligned(u)
    BY Zenon DEF UpState
  <1>2. PICK e \in Nat : Cut(u, w, q, e)
    BY Zenon DEF UpState
  <1>3. PICK k : k = u.seq + 1 /\ k \in Nat
    BY <1>1, UpTyped
  <1>4. PICK p : p = AfterPost(u.buf) /\ p # "done" /\ p \in {"recv", "send"} /\ (p = "recv" => Len(u.buf) < MaxUpload)
                 /\ (p = "send" => Len(u.buf) >= MaxUpload)
    BY <1>1, UpTyped, AfterPosts, Zenon
  <1>5. v = [u EXCEPT !.pc = p, !.seq = k]
    BY <1>3, <1>4, Zenon
  <1>6. v \in Ups /\ v.pc = p /\ v.buf = u.buf /\ v.sent = u.sent /\ v.seq = k
    BY <1>1, <1>3, <1>4, <1>5 DEF Ups
  <1>7. Cut(v, w, q, e)
    BY <1>2, <1>6, Zenon DEF Cut
  <1>8. Aligned(v)
    BY <1>1, <1>3, <1>4, <1>6 DEF Aligned
  <1>9. p # "done"
    BY <1>4
  <1> QED BY <1>1, <1>3, <1>6, <1>7, <1>8, <1>9, Zenon DEF UpState

LEMMA UpEnd ==
  ASSUME NEW u, NEW w, NEW q, UpState(u, w, q), u.pc = "recv",
         NEW v, v = [u EXCEPT !.buf = <<>>, !.pc = "done", !.sent = @ + Len(u.buf)]
  PROVE  /\ UpState(v, w, q) /\ v.seq = u.seq /\ v.pc = "done"
         /\ \E e \in Nat : Run(u.buf, Off(u.seq), e) /\ e < Off(u.seq + 1)
                           /\ (u.buf # <<>> => Off(u.seq) < e)
  <1>1. u \in Ups /\ w \in Nat /\ q \in Seq(Seq(Nat)) /\ Len(q) <= ChanCap /\ w <= MaxBytes /\ Aligned(u)
    BY Zenon DEF UpState
  <1>2. PICK e \in Nat : Cut(u, w, q, e)
    BY Zenon DEF UpState
  <1>3. u.sent = Off(u.seq) /\ Len(u.buf) < MaxUpload
    BY <1>1 DEF Aligned
  <1>4. Run(u.buf, u.sent, e) /\ Len(u.buf) = e - u.sent /\ Len(u.buf) \in Nat
    BY <1>2, RunLen, Zenon DEF Cut
  <1>5. u.sent + Len(u.buf) = e
    BY <1>1, <1>2, <1>4, UpTyped
  <1>z. PICK z : z = <<>> /\ z \in Seq(Nat)
    BY NoBytes, Zenon
  <1>6. v = [u EXCEPT !.buf = z, !.pc = "done", !.sent = e]
    BY <1>5, <1>z, Zenon
  <1>7. v \in Ups /\ v.pc = "done" /\ v.buf = z /\ v.sent = e /\ v.seq = u.seq
    BY <1>1, <1>z, <1>6 DEF Ups
  <1>8. Run(v.buf, v.sent, e)
    BY <1>7, <1>z, RunEmpty, Zenon
  <1>9. Cut(v, w, q, e)
    BY <1>2, <1>7, <1>8, Zenon DEF Cut
  <1>10. Aligned(v)
    BY <1>7 DEF Aligned
  <1>11. u.seq \in Nat /\ u.buf \in Seq(Nat) /\ u.sent \in Nat
    BY <1>1, UpTyped, Zenon
  <1>12. e < Off(u.seq + 1)
    BY <1>2, <1>3, <1>4, <1>11, OffNext, SplitConstants
  <1>13. u.buf # <<>> => Len(u.buf) # 0
    BY <1>11
  <1>14. u.buf # <<>> => Off(u.seq) < e
    BY <1>2, <1>3, <1>4, <1>11, <1>13
  <1>15. UpState(v, w, q)
    BY <1>1, <1>2, <1>7, <1>9, <1>10, Zenon DEF UpState
  <1>16. Run(u.buf, Off(u.seq), e)
    BY <1>3, <1>4, Zenon
  <1> QED BY <1>7, <1>12, <1>14, <1>15, <1>16, Zenon

(* Packet k, or the short packet that ends the upload.                     *)
Spans(u, k, d, b) ==
    /\ Run(d, Off(k), b) /\ Off(k) < b /\ b <= Off(k + 1)
    /\ b < Off(k + 1) => u.pc = "done" /\ k = u.seq

Piece(u, k, d) == k \in Nat /\ k <= u.seq /\ \E b \in Nat : Spans(u, k, d, b)

(* The upload loop goes on, never back.                                    *)
Later(u, v) ==
    /\ v.seq \in Nat
    /\ \/ v.seq = u.seq /\ u.pc # "done"
       \/ v.seq = u.seq + 1 /\ u.pc # "done"
       \/ v = u

LEMMA PieceLater ==
  ASSUME NEW u \in Ups, NEW v, Later(u, v), NEW k, NEW d, Piece(u, k, d)
  PROVE  Piece(v, k, d)
  <1>1. PICK b \in Nat : Spans(u, k, d, b)
    BY Zenon DEF Piece
  <1>2. CASE v = u
    BY <1>2, Zenon
  <1>3. CASE u.pc # "done" /\ (v.seq = u.seq \/ v.seq = u.seq + 1)
    <2>1. ~(b < Off(k + 1))
      BY <1>1, <1>3, Zenon DEF Spans
    <2>2. Spans(v, k, d, b)
      BY <1>1, <2>1, Zenon DEF Spans
    <2>3. k \in Nat /\ k <= v.seq
      BY <1>3, UpTyped DEF Piece
    <2> QED BY <1>1, <2>2, <2>3, Zenon DEF Piece
  <1> QED BY <1>2, <1>3, Zenon DEF Later

LEMMA WholePiece ==
  ASSUME NEW u \in Ups, NEW v, v.seq = u.seq, NEW d, Run(d, Off(u.seq), Off(u.seq + 1))
  PROVE  Piece(v, u.seq, d)
  <1>1. /\ u.seq \in Nat /\ u.seq <= v.seq /\ Off(u.seq + 1) \in Nat
        /\ Off(u.seq) < Off(u.seq + 1) /\ Off(u.seq + 1) <= Off(u.seq + 1) /\ ~(Off(u.seq + 1) < Off(u.seq + 1))
    <2>1. u.seq \in Nat
      BY UpTyped
    <2> QED BY <2>1, OffNext, SplitConstants
  <1>2. Spans(v, u.seq, d, Off(u.seq + 1))
    BY <1>1, Zenon DEF Spans
  <1> QED BY <1>1, <1>2, Zenon DEF Piece

LEMMA LastPiece ==
  ASSUME NEW u \in Ups, NEW v, v.seq = u.seq, v.pc = "done",
         NEW d, NEW e \in Nat, Run(d, Off(u.seq), e), e < Off(u.seq + 1), Off(u.seq) < e
  PROVE  Piece(v, u.seq, d)
  <1>1. u.seq \in Nat /\ u.seq <= v.seq /\ e <= Off(u.seq + 1)
    <2>1. u.seq \in Nat
      BY UpTyped
    <2> QED BY <2>1, OffNext, SplitConstants
  <1>2. Spans(v, u.seq, d, e)
    BY <1>1, Zenon DEF Spans
  <1> QED BY <1>1, <1>2, Zenon DEF Piece

LEMMA PieceData ==
  ASSUME NEW u, NEW k, NEW d, Piece(u, k, d)
  PROVE  d \in Seq(Nat) /\ d # <<>>
  <1>1. PICK b \in Nat : Spans(u, k, d, b)
    BY Zenon DEF Piece
  <1>2. d \in Seq(Nat) /\ Len(d) = b - Off(k) /\ Off(k) < b
    BY <1>1, RunLen, Zenon DEF Spans
  <1>3. k \in Nat /\ Off(k) \in Nat
    BY OffNext, Zenon DEF Piece
  <1>4. Len(d) # 0
    BY <1>2, <1>3
  <1> QED BY <1>2, <1>4

(* The packets under way.                                                  *)
Packets == [seq : Nat, data : Seq(Nat), copy : Nat, session : {"none", "live", "zombie"}]

GoodPacket(u, p) == p \in Packets /\ Piece(u, p.seq, p.data)

LEMMA PacketLater ==
  ASSUME NEW u \in Ups, NEW v, Later(u, v), NEW p, GoodPacket(u, p)
  PROVE  GoodPacket(v, p)
  BY PieceLater, Zenon DEF GoodPacket

LEMMA PacketMade ==
  ASSUME NEW u, NEW k \in Nat, NEW d, Piece(u, k, d),
         NEW p, p = [seq |-> k, data |-> d, copy |-> 0, session |-> "none"]
  PROVE  GoodPacket(u, p)
  <1>1. d \in Seq(Nat)
    BY PieceData, Zenon
  <1>2. p \in Packets /\ p.seq = k /\ p.data = d
    BY <1>1 DEF Packets
  <1> QED BY <1>2, Zenon DEF GoodPacket

LEMMA PacketCopied ==
  ASSUME NEW u, NEW p, GoodPacket(u, p), NEW n \in Nat, NEW r, r = [p EXCEPT !.copy = n]
  PROVE  GoodPacket(u, r)
  <1>1. p \in Packets /\ Piece(u, p.seq, p.data)
    BY Zenon DEF GoodPacket
  <1>2. r \in Packets /\ r.seq = p.seq /\ r.data = p.data
    BY <1>1 DEF Packets
  <1> QED BY <1>1, <1>2, Zenon DEF GoodPacket

LEMMA PacketMoved ==
  ASSUME NEW u, NEW p, GoodPacket(u, p), NEW s \in {"none", "live", "zombie"},
         NEW r, r = [p EXCEPT !.session = s]
  PROVE  GoodPacket(u, r)
  <1>1. p \in Packets /\ Piece(u, p.seq, p.data)
    BY Zenon DEF GoodPacket
  <1>2. r \in Packets /\ r.seq = p.seq /\ r.data = p.data
    BY <1>1 DEF Packets
  <1> QED BY <1>1, <1>2, Zenon DEF GoodPacket

(* What the server has read, and what it will: a prefix of the stream, up  *)
(* to the packet the queue waits for.                                      *)
Feeders == [pc : {"pop", "send", "gone"}, data : Seq(Nat)]

Feeds(u, f, n, b) ==
    /\ f.pc = "send" => n > 0 /\ b = Off(n - 1) /\ Piece(u, n - 1, f.data)
    /\ f.pc = "pop" => b = Off(n) \/ (u.pc = "done" /\ n = u.seq + 1)

Reads(u, f, rc, dl, n, so, a) ==
    Run(dl, 0, a) /\ (so => \E b \in Nat : Runs(rc, a, b) /\ Feeds(u, f, n, b))

Fed(u, f, rc, dl, n, so) ==
    /\ f \in Feeders /\ rc \in Seq(Seq(Nat)) /\ Len(rc) <= ChanCap
    /\ n \in Nat /\ n <= u.seq + 1
    /\ \E a \in Nat : Reads(u, f, rc, dl, n, so, a)

LEMMA FeedsLater ==
  ASSUME NEW u \in Ups, NEW v, Later(u, v), NEW f, NEW n \in Nat, NEW b, Feeds(u, f, n, b)
  PROVE  Feeds(v, f, n, b)
  <1>1. f.pc = "send" => n > 0 /\ b = Off(n - 1) /\ Piece(v, n - 1, f.data)
    BY PieceLater, Zenon DEF Feeds
  <1>2. f.pc = "pop" => b = Off(n) \/ (v.pc = "done" /\ n = v.seq + 1)
    BY DEF Feeds, Later
  <1> QED BY <1>1, <1>2, Zenon DEF Feeds

LEMMA FedLater ==
  ASSUME NEW u \in Ups, NEW v, Later(u, v), NEW f, NEW rc, NEW dl, NEW n, NEW so, Fed(u, f, rc, dl, n, so)
  PROVE  Fed(v, f, rc, dl, n, so)
  <1>1. n \in Nat /\ n <= v.seq + 1
    BY UpTyped DEF Fed, Later
  <1>2. PICK a \in Nat : Reads(u, f, rc, dl, n, so, a)
    BY Zenon DEF Fed
  <1>3. Reads(v, f, rc, dl, n, so, a)
    BY <1>1, <1>2, FeedsLater, Zenon DEF Reads
  <1> QED BY <1>1, <1>2, <1>3, Zenon DEF Fed

LEMMA FedPop ==
  ASSUME NEW u \in Ups, NEW f, NEW rc, NEW dl, NEW n, NEW so, Fed(u, f, rc, dl, n, so), f.pc = "pop",
         NEW p, GoodPacket(u, p), p.seq = n, NEW g, g = [pc |-> "send", data |-> p.data]
  PROVE  Fed(u, g, rc, dl, n + 1, so)
  <1>1. n \in Nat /\ rc \in Seq(Seq(Nat)) /\ Len(rc) <= ChanCap
    BY Zenon DEF Fed
  <1>2. PICK d : d = p.data /\ Piece(u, n, d)
    BY Zenon DEF GoodPacket
  <1>3. n <= u.seq /\ d \in Seq(Nat)
    BY <1>2, PieceData, Zenon DEF Piece
  <1>4. g \in Feeders /\ g.pc = "send" /\ g.data = d
    <2>1. g = [pc |-> "send", data |-> d]
      BY <1>2, Zenon
    <2> QED BY <2>1, <1>3 DEF Feeders
  <1>5. PICK m : m = n + 1 /\ m \in Nat /\ m <= u.seq + 1 /\ m > 0 /\ m - 1 = n
    BY <1>1, <1>3, UpTyped
  <1>6. PICK a \in Nat : Reads(u, f, rc, dl, n, so, a)
    BY Zenon DEF Fed
  <1>7. ASSUME NEW b \in Nat, Feeds(u, f, n, b) PROVE Feeds(u, g, m, b)
    <2>1. b = Off(n) \/ n = u.seq + 1
      BY <1>7, Zenon DEF Feeds
    <2>2. n # u.seq + 1
      BY <1>1, <1>3, UpTyped
    <2>3. g.pc # "pop"
      BY <1>4
    <2> QED BY <1>2, <1>4, <1>5, <2>1, <2>2, <2>3, Zenon DEF Feeds
  <1>8. Reads(u, g, rc, dl, m, so, a)
    BY <1>6, <1>7, Zenon DEF Reads
  <1>9. Fed(u, g, rc, dl, m, so)
    BY <1>1, <1>4, <1>5, <1>6, <1>8, Zenon DEF Fed
  <1> QED BY <1>5, <1>9, Zenon

LEMMA FedSend ==
  ASSUME NEW u \in Ups, NEW f, NEW rc, NEW dl, NEW n, NEW so, Fed(u, f, rc, dl, n, so),
         f.pc = "send", so, Len(rc) < ChanCap,
         NEW g, g = [pc |-> "pop", data |-> <<>>]
  PROVE  Fed(u, g, Append(rc, f.data), dl, n, so)
  <1>1. n \in Nat /\ n <= u.seq + 1 /\ rc \in Seq(Seq(Nat))
    BY Zenon DEF Fed
  <1>2. PICK a \in Nat : Reads(u, f, rc, dl, n, so, a)
    BY Zenon DEF Fed
  <1>3. PICK b \in Nat : Runs(rc, a, b) /\ Feeds(u, f, n, b)
    BY <1>2, Zenon DEF Reads
  <1>4. PICK d : d = f.data
    BY Zenon
  <1>5. n > 0 /\ b = Off(n - 1) /\ Piece(u, n - 1, d)
    BY <1>3, <1>4, Zenon DEF Feeds
  <1>6. PICK c \in Nat : Spans(u, n - 1, d, c)
    BY <1>5, Zenon DEF Piece
  <1>7. Run(d, b, c)
    BY <1>5, <1>6, Zenon DEF Spans
  <1>8. d \in Seq(Nat)
    BY <1>5, PieceData, Zenon
  <1>9. Runs(Append(rc, d), a, c)
    BY <1>1, <1>3, <1>7, <1>8, RunsAppend, Zenon
  <1>10. Append(rc, d) \in Seq(Seq(Nat)) /\ Len(Append(rc, d)) <= ChanCap
    BY <1>1, <1>8, SplitConstants
  <1>11. g \in Feeders /\ g.pc = "pop" /\ g.pc # "send"
    <2>1. PICK z : z = <<>> /\ z \in Seq(Nat)
      BY NoBytes, Zenon
    <2>2. g = [pc |-> "pop", data |-> z]
      BY <2>1, Zenon
    <2> QED BY <2>1, <2>2 DEF Feeders
  <1>12. c = Off(n) \/ (u.pc = "done" /\ n = u.seq + 1)
    <2>1. PICK k \in Nat : k = n - 1 /\ k + 1 = n
      BY <1>1, <1>5
    <2>2. c <= Off(k + 1) /\ (c < Off(k + 1) => u.pc = "done" /\ k = u.seq)
      BY <1>6, <2>1, Zenon DEF Spans
    <2>3. Off(k + 1) \in Nat
      BY OffNext
    <2>4. c = Off(k + 1) \/ c < Off(k + 1)
      BY <2>2, <2>3
    <2> QED BY <2>1, <2>2, <2>4, Zenon
  <1>13. Feeds(u, g, n, c)
    BY <1>11, <1>12, Zenon DEF Feeds
  <1>14. Reads(u, g, Append(rc, d), dl, n, so, a)
    BY <1>2, <1>9, <1>13, Zenon DEF Reads
  <1>15. Fed(u, g, Append(rc, d), dl, n, so)
    BY <1>1, <1>2, <1>10, <1>11, <1>14, Zenon DEF Fed
  <1> QED BY <1>4, <1>15, Zenon

LEMMA FedGone ==
  ASSUME NEW u, NEW f, NEW rc, NEW dl, NEW n, NEW so, Fed(u, f, rc, dl, n, so), ~so,
         NEW g, g = [pc |-> "gone", data |-> <<>>]
  PROVE  Fed(u, g, rc, dl, n, so)
  <1>1. g \in Feeders
    <2>1. PICK z : z = <<>> /\ z \in Seq(Nat)
      BY NoBytes, Zenon
    <2>2. g = [pc |-> "gone", data |-> z]
      BY <2>1, Zenon
    <2> QED BY <2>1, <2>2 DEF Feeders
  <1> QED BY <1>1, Zenon DEF Fed, Reads

LEMMA FedRead ==
  ASSUME NEW u, NEW f, NEW rc, NEW dl, NEW n, NEW so, Fed(u, f, rc, dl, n, so), so, rc # <<>>
  PROVE  Fed(u, f, Tail(rc), dl \o Head(rc), n, so)
  <1>1. f \in Feeders /\ n \in Nat /\ n <= u.seq + 1 /\ rc \in Seq(Seq(Nat)) /\ Len(rc) <= ChanCap
    BY Zenon DEF Fed
  <1>2. PICK a \in Nat : Reads(u, f, rc, dl, n, so, a)
    BY Zenon DEF Fed
  <1>3. PICK b \in Nat : Runs(rc, a, b) /\ Feeds(u, f, n, b)
    BY <1>2, Zenon DEF Reads
  <1>4. Len(rc) # 0 /\ Tail(rc) \in Seq(Seq(Nat)) /\ Len(Tail(rc)) <= ChanCap
    BY <1>1, SplitConstants
  <1>5. PICK c : Run(Head(rc), a, c) /\ Runs(Tail(rc), c, b)
    BY <1>1, <1>3, <1>4, RunsHead, Zenon
  <1>6. Run(dl \o Head(rc), 0, c)
    BY <1>2, <1>5, RunJoin, Zenon DEF Reads
  <1>7. c \in Nat
    BY <1>5, RunsOrder, Zenon
  <1>8. Reads(u, f, Tail(rc), dl \o Head(rc), n, so, c)
    BY <1>3, <1>5, <1>6, Zenon DEF Reads
  <1> QED BY <1>1, <1>4, <1>7, <1>8, Zenon DEF Fed

LEMMA FedClosed ==
  ASSUME NEW u, NEW f, NEW rc, NEW dl, NEW n, NEW so, Fed(u, f, rc, dl, n, so)
  PROVE  Fed(u, f, <<>>, dl, n, FALSE)
  <1>1. <<>> \in Seq(Seq(Nat)) /\ Len(<<>>) <= ChanCap
    BY SplitConstants
  <1> QED BY <1>1, Zenon DEF Fed, Reads

-----------------------------------------------------------------------------
(* The inductive invariant: what is in the upload loop's channel and       *)
(* buffer is the stream from the last packet sent on; a packet, wherever   *)
(* it is, holds the bytes its number stands for; what the server has read, *)
(* and then its channel, is the stream up to the packet the queue releases *)
(* next; and nothing of the download is missing.                           *)
Flags ==
    /\ clientOpen \in BOOLEAN /\ serverOpen \in BOOLEAN /\ lost \in BOOLEAN
    /\ copies \in Nat /\ copies <= MaxCopies
    /\ map \in {"live", "zombie", "none"}
UpInv == UpState(up, written, upChan)
PostInv == \A p \in posts : GoodPacket(up, p)
QueueInv ==
    /\ IsFiniteSet(queue) /\ Cardinality(queue) <= QueueCap
    /\ \A p \in queue : GoodPacket(up, p)
FeedInv == Fed(up, feeder, readChan, delivered, next_seq, serverOpen)
DownInv == down \in Downs /\ Flows(down, clientOpen)
SplitInv == Flags /\ UpInv /\ PostInv /\ QueueInv /\ FeedInv /\ DownInv

LEMMA SplitInvInit == ASSUME SplitInit PROVE SplitInv
  <1>1. Flags
    <2>1. clientOpen = TRUE /\ serverOpen = TRUE /\ lost = FALSE /\ copies = 0 /\ map = "live"
      BY Zenon DEF SplitInit
    <2>2. 0 \in Nat /\ 0 <= MaxCopies
      BY SplitConstants
    <2> QED BY <2>1, <2>2, Zenon DEF Flags
  <1>2. UpInv
    <2>1. PICK u : u = [pc |-> "recv", buf |-> <<>>, seq |-> 0, sent |-> 0]
      BY Zenon
    <2>2. u \in Ups /\ u.pc = "recv" /\ u.buf = <<>> /\ u.seq = 0 /\ u.sent = 0
      <3>1. PICK z : z = <<>> /\ z \in Seq(Nat)
        BY NoBytes, Zenon
      <3>2. u = [pc |-> "recv", buf |-> z, seq |-> 0, sent |-> 0]
        BY <2>1, <3>1, Zenon
      <3> QED BY <3>1, <3>2 DEF Ups
    <2>3. Cut(u, 0, <<>>, 0)
      <3>1. Run(<<>>, 0, 0) /\ Runs(<<>>, 0, 0) /\ 0 <= 0
        BY RunEmpty, RunsEmpty
      <3> QED BY <2>2, <3>1, Zenon DEF Cut
    <2>4. Aligned(u)
      <3>1. Off(0) = 0 /\ Len(<<>>) < MaxUpload
        BY SplitConstants DEF Off
      <3>2. u.pc # "send" /\ u.pc # "await"
        BY <2>2
      <3> QED BY <2>2, <3>1, <3>2, Zenon DEF Aligned
    <2>5. <<>> \in Seq(Seq(Nat)) /\ Len(<<>>) <= ChanCap /\ 0 \in Nat /\ 0 <= MaxBytes
      BY SplitConstants
    <2>6. UpState(u, 0, <<>>)
      BY <2>2, <2>3, <2>4, <2>5, Zenon DEF UpState
    <2> QED BY <2>1, <2>6, Zenon DEF SplitInit, UpInv
  <1>3. PostInv
    BY Zenon DEF SplitInit, PostInv
  <1>4. QueueInv
    <2>1. IsFiniteSet({}) /\ Cardinality({}) = 0
      BY FS_EmptySet
    <2>2. queue = {}
      BY Zenon DEF SplitInit
    <2>3. Cardinality(queue) <= QueueCap
      BY <2>1, <2>2, SplitConstants
    <2> QED BY <2>1, <2>2, <2>3, Zenon DEF QueueInv
  <1>5. FeedInv
    <2>1. PICK f : f = [pc |-> "pop", data |-> <<>>]
      BY Zenon
    <2>2. f \in Feeders /\ f.pc = "pop" /\ f.pc # "send"
      <3>1. PICK z : z = <<>> /\ z \in Seq(Nat)
        BY NoBytes, Zenon
      <3>2. f = [pc |-> "pop", data |-> z]
        BY <2>1, <3>1, Zenon
      <3> QED BY <3>1, <3>2 DEF Feeders
    <2>3. up.seq = 0
      BY DEF SplitInit
    <2>4. Off(0) = 0
      BY SplitConstants DEF Off
    <2>5. Feeds(up, f, 0, 0)
      BY <2>2, <2>4, Zenon DEF Feeds
    <2>6. Run(<<>>, 0, 0) /\ Runs(<<>>, 0, 0) /\ 0 \in Nat /\ 0 <= up.seq + 1
      BY <2>3, RunEmpty, RunsEmpty
    <2>7. Reads(up, f, <<>>, <<>>, 0, TRUE, 0)
      BY <2>5, <2>6, Zenon DEF Reads
    <2>8. <<>> \in Seq(Seq(Nat)) /\ Len(<<>>) <= ChanCap
      BY SplitConstants
    <2>9. Fed(up, f, <<>>, <<>>, 0, TRUE)
      BY <2>2, <2>6, <2>7, <2>8, Zenon DEF Fed
    <2> QED BY <2>1, <2>9, Zenon DEF SplitInit, FeedInv
  <1>6. DownInv
    <2>1. PICK w : w = DownInit
      BY Zenon
    <2>2. 0 \in Level
      BY SplitConstants DEF Level
    <2>3. w \in Downs
      BY <2>1, <2>2 DEF DownInit, Downs
    <2>4. Flows(w, TRUE)
      BY <2>1 DEF DownInit, Flows
    <2> QED BY <2>1, <2>3, <2>4, Zenon DEF SplitInit, DownInv
  <1> QED BY <1>1, <1>2, <1>3, <1>4, <1>5, <1>6, Zenon DEF SplitInv

(* Steps of the upload loop.                                               *)
LEMMA UpStep ==
  ASSUME SplitInv, UpInv', Later(up, up'), lost' \in BOOLEAN,
         \A p \in posts' : p \in posts \/ GoodPacket(up', p),
         UNCHANGED <<clientOpen, copies, map, queueVars, serverOpen, down>>
  PROVE  SplitInv'
  <1>u. UNCHANGED <<clientOpen, copies, map, queue, next_seq, feeder, readChan, delivered, serverOpen, down>>
    BY Zenon DEF queueVars
  <1>1. Flags'
    BY <1>u, Zenon DEF SplitInv, Flags
  <1>0. up \in Ups
    BY Zenon DEF SplitInv, UpInv, UpState
  <1>3. PostInv'
    BY <1>0, PacketLater, Zenon DEF SplitInv, PostInv
  <1>4. QueueInv'
    BY <1>u, <1>0, PacketLater, Zenon DEF SplitInv, QueueInv
  <1>5. FeedInv'
    BY <1>u, <1>0, FedLater, Zenon DEF SplitInv, FeedInv
  <1>6. DownInv'
    BY <1>u, Zenon DEF SplitInv, DownInv
  <1> QED BY <1>1, <1>3, <1>4, <1>5, <1>6, Zenon DEF SplitInv

LEMMA SameUp ==
  ASSUME UpInv PROVE Later(up, up)
  <1>1. up.seq \in Nat
    BY UpTyped, Zenon DEF UpInv, UpState
  <1> QED BY <1>1, Zenon DEF Later

LEMMA ClientWriteKeeps == ASSUME SplitInv, NEW n \in WriteSizes, ClientWrite(n) PROVE SplitInv'
  <1>1. n \in Nat
    BY SplitConstants
  <1>2. UpInv /\ Flags
    BY Zenon DEF SplitInv
  <1>3. UpInv'
    BY <1>1, <1>2, UpWrite, Zenon DEF UpInv, ClientWrite
  <1>4. Later(up, up')
    BY <1>2, SameUp, Zenon DEF ClientWrite
  <1>5. /\ UNCHANGED <<clientOpen, copies, map, queueVars, serverOpen, down>>
        /\ posts' = posts /\ lost' = lost
    BY Zenon DEF ClientWrite
  <1> QED BY <1>2, <1>3, <1>4, <1>5, UpStep, Zenon DEF Flags

LEMMA UploadRecvKeeps == ASSUME SplitInv, UploadRecv PROVE SplitInv'
  <1>2. UpInv /\ Flags /\ up.seq \in Nat
    BY UpTyped, Zenon DEF SplitInv, UpInv, UpState
  <1>3. PICK d, v : d = up.buf \o Head(upChan) /\ v = up'
    BY Zenon
  <1>4. up.pc = "recv" /\ upChan # <<>> /\ v = [up EXCEPT !.buf = d, !.pc = AfterPost(d)] /\ upChan' = Tail(upChan)
        /\ written' = written
    BY <1>3, Zenon DEF UploadRecv
  <1>5. UpState(v, written, Tail(upChan)) /\ v.seq = up.seq
    <2>1. TakesChunk(up, upChan, d, v)
      BY <1>3, <1>4, Zenon DEF TakesChunk
    <2> QED BY <1>2, <2>1, UpRecv, Zenon DEF UpInv
  <1>6. up.pc # "done"
    BY <1>4
  <1>7. UpInv' /\ Later(up, up')
    <2>1. Later(up, v)
      BY <1>2, <1>5, <1>6, Zenon DEF Later
    <2> QED BY <1>3, <1>4, <1>5, <2>1, Zenon DEF UpInv
  <1>8. /\ UNCHANGED <<clientOpen, copies, map, queueVars, serverOpen, down>>
        /\ posts' = posts /\ lost' = lost
    BY Zenon DEF UploadRecv
  <1> QED BY <1>2, <1>7, <1>8, UpStep, Zenon DEF Flags

LEMMA PostAnsweredKeeps == ASSUME SplitInv, PostAnswered PROVE SplitInv'
  <1>2. UpInv /\ Flags /\ up.seq \in Nat
    BY UpTyped, Zenon DEF SplitInv, UpInv, UpState
  <1>3. PICK v : v = up'
    BY Zenon
  <1>4. up.pc = "await" /\ v = [up EXCEPT !.pc = AfterPost(up.buf), !.seq = @ + 1]
        /\ upChan' = upChan /\ written' = written
    BY <1>3, Zenon DEF PostAnswered, NextSeq
  <1>5. UpState(v, written, upChan) /\ v.seq = up.seq + 1
    BY <1>2, <1>4, UpAnswered, Zenon DEF UpInv
  <1>6. up.pc # "done"
    BY <1>4
  <1>9. v.seq \in Nat
    BY <1>2, <1>5
  <1>7. UpInv' /\ Later(up, up')
    <2>1. Later(up, v)
      BY <1>5, <1>6, <1>9, Zenon DEF Later
    <2> QED BY <1>3, <1>4, <1>5, <2>1, Zenon DEF UpInv
  <1>8. /\ UNCHANGED <<clientOpen, copies, map, queueVars, serverOpen, down>>
        /\ posts' = posts /\ lost' = lost
    BY Zenon DEF PostAnswered
  <1> QED BY <1>2, <1>7, <1>8, UpStep, Zenon DEF Flags

LEMMA SendPostKeeps ==
  ASSUME SplitInv, NEW ok \in BOOLEAN, NEW arrives \in BOOLEAN, SendPost(ok, arrives) PROVE SplitInv'
  <1>2. UpInv /\ Flags /\ up \in Ups /\ up.seq \in Nat
    BY UpTyped, Zenon DEF SplitInv, UpInv, UpState
  <1>3. PICK v, r : v = up' /\ r = upChan'
    BY Zenon
  <1>4. up.pc = "send" /\ written' = written
        /\ v = [up EXCEPT !.buf = Suffix(@, MaxUpload), !.sent = @ + MaxUpload,
                          !.pc = IF ok THEN "await" ELSE "done"]
        /\ r = IF ok THEN upChan ELSE <<>>
    BY <1>3, Zenon DEF SendPost
  <1>5. /\ UpState(v, written, r) /\ v.seq = up.seq
        /\ Run(Prefix(up.buf, MaxUpload), Off(up.seq), Off(up.seq + 1))
    <2>1. PacketGoes(up, upChan, ok, v, r)
      BY <1>4, Zenon DEF PacketGoes
    <2>2. UpState(up, written, upChan)
      BY <1>2, Zenon DEF UpInv
    <2> QED BY <2>1, <2>2, UpSend
  <1>6. up.pc # "done"
    BY <1>4
  <1>7. UpInv' /\ Later(up, up')
    <2>1. Later(up, v)
      BY <1>2, <1>5, <1>6, Zenon DEF Later
    <2> QED BY <1>3, <1>4, <1>5, <2>1, Zenon DEF UpInv
  <1>8. UNCHANGED <<clientOpen, copies, map, queueVars, serverOpen, down>>
    BY Zenon DEF SendPost
  <1>9. lost' \in BOOLEAN
    BY Zenon DEF SendPost
  <1>10. PICK p : p = Packet(Prefix(up.buf, MaxUpload))
    BY Zenon
  <1>11. GoodPacket(v, p)
    BY <1>2, <1>5, <1>10, WholePiece, PacketMade, Zenon DEF Packet
  <1>12. posts' = posts \/ posts' = posts \cup {p}
    BY <1>10, Zenon DEF SendPost
  <1>13. \A x \in posts' : x \in posts \/ GoodPacket(up', x)
    BY <1>3, <1>11, <1>12, Zenon
  <1> QED BY <1>7, <1>8, <1>9, <1>13, UpStep, Zenon

LEMMA UploadEndKeeps ==
  ASSUME SplitInv, NEW arrives \in BOOLEAN, UploadEnd(arrives) PROVE SplitInv'
  <1>2. UpInv /\ Flags /\ up \in Ups /\ up.seq \in Nat
    BY UpTyped, Zenon DEF SplitInv, UpInv, UpState
  <1>3. PICK v : v = up'
    BY Zenon
  <1>4. up.pc = "recv" /\ written' = written /\ upChan' = upChan
        /\ v = [up EXCEPT !.buf = <<>>, !.pc = "done", !.sent = @ + Len(up.buf)]
    BY <1>3, Zenon DEF UploadEnd
  <1>5. /\ UpState(v, written, upChan) /\ v.seq = up.seq /\ v.pc = "done"
        /\ \E e \in Nat : Run(up.buf, Off(up.seq), e) /\ e < Off(up.seq + 1)
                          /\ (up.buf # <<>> => Off(up.seq) < e)
    BY <1>2, <1>4, UpEnd, Zenon DEF UpInv
  <1>6. up.pc # "done"
    BY <1>4
  <1>7. UpInv' /\ Later(up, up')
    <2>1. Later(up, v)
      BY <1>2, <1>5, <1>6, Zenon DEF Later
    <2> QED BY <1>3, <1>4, <1>5, <2>1, Zenon DEF UpInv
  <1>8. UNCHANGED <<clientOpen, copies, map, queueVars, serverOpen, down>>
    BY Zenon DEF UploadEnd
  <1>9. lost' \in BOOLEAN
    BY Zenon DEF UploadEnd
  <1>10. PICK p : p = Packet(up.buf)
    BY Zenon
  <1>11. up.buf # <<>> => GoodPacket(v, p)
    BY <1>2, <1>5, <1>10, LastPiece, PacketMade, Zenon DEF Packet
  <1>12. posts' = posts \/ (up.buf # <<>> /\ posts' = posts \cup {p})
    BY <1>10, Zenon DEF UploadEnd
  <1>13. \A x \in posts' : x \in posts \/ GoodPacket(up', x)
    BY <1>3, <1>11, <1>12, Zenon
  <1> QED BY <1>7, <1>8, <1>9, <1>13, UpStep, Zenon

(* Steps of the network and of the listener's handlers.                    *)
LEMMA PostStep ==
  ASSUME SplitInv, Flags', \A p \in posts' : p \in posts \/ GoodPacket(up, p),
         QueueInv', UNCHANGED <<upVars, next_seq, feeder, readChan, delivered, serverOpen, down>>
  PROVE  SplitInv'
  <1>u. UNCHANGED <<clientOpen, written, upChan, up, next_seq, feeder, readChan, delivered, serverOpen, down>>
    BY Zenon DEF upVars
  <1>2. UpInv'
    BY <1>u, Zenon DEF SplitInv, UpInv
  <1>3. PostInv'
    BY <1>u, Zenon DEF SplitInv, PostInv
  <1>5. FeedInv'
    BY <1>u, Zenon DEF SplitInv, FeedInv
  <1>6. DownInv'
    BY <1>u, Zenon DEF SplitInv, DownInv
  <1> QED BY <1>2, <1>3, <1>5, <1>6, Zenon DEF SplitInv

LEMMA SameQueue ==
  ASSUME SplitInv, UNCHANGED <<up, queue>> PROVE QueueInv'
  BY Zenon DEF SplitInv, QueueInv

LEMMA LosePostKeeps == ASSUME SplitInv, NEW p, LosePost(p) PROVE SplitInv'
  <1>1. UNCHANGED <<clientOpen, up, queue, map, copies>> /\ UNCHANGED <<upVars, next_seq, feeder, readChan, delivered, serverOpen, down>>
    BY Zenon DEF LosePost, upVars, queueVars
  <1>2. Flags'
    BY <1>1, Zenon DEF SplitInv, Flags, LosePost
  <1>3. \A x \in posts' : x \in posts
    BY Zenon DEF LosePost
  <1> QED BY <1>1, <1>2, <1>3, PostStep, SameQueue, Zenon

LEMMA RepeatPostKeeps == ASSUME SplitInv, NEW p, RepeatPost(p) PROVE SplitInv'
  <1>1. UNCHANGED <<clientOpen, up, queue, map, lost>> /\ UNCHANGED <<upVars, next_seq, feeder, readChan, delivered, serverOpen, down>>
    BY Zenon DEF RepeatPost, upVars, queueVars
  <1>c. PICK c : c = copies + 1
    BY Zenon
  <1>4. c \in Nat /\ c <= MaxCopies
    <2>1. copies \in Nat /\ copies < MaxCopies
      BY Zenon DEF SplitInv, Flags, RepeatPost
    <2> QED BY <1>c, <2>1, SplitConstants
  <1>2. Flags'
    BY <1>1, <1>c, <1>4, Zenon DEF SplitInv, Flags, RepeatPost
  <1>5. PICK r : r = [p EXCEPT !.copy = c]
    BY Zenon
  <1>6. GoodPacket(up, p) /\ posts' = posts \cup {r}
    BY <1>c, <1>5, Zenon DEF SplitInv, PostInv, RepeatPost
  <1>7. GoodPacket(up, r)
    BY <1>4, <1>5, <1>6, PacketCopied, Zenon
  <1>3. \A x \in posts' : x \in posts \/ GoodPacket(up, x)
    BY <1>6, <1>7, Zenon
  <1> QED BY <1>1, <1>2, <1>3, PostStep, SameQueue, Zenon

LEMMA HandlePostKeeps == ASSUME SplitInv, NEW p, HandlePost(p) PROVE SplitInv'
  <1>1. UNCHANGED <<clientOpen, up, queue, copies, lost>> /\ UNCHANGED <<upVars, next_seq, feeder, readChan, delivered, serverOpen, down>>
    BY Zenon DEF HandlePost, upVars, queueVars
  <1>s. PICK s : s = (IF map = "live" THEN "live" ELSE "zombie")
    BY Zenon
  <1>4. s \in {"none", "live", "zombie"} /\ s \in {"live", "zombie", "none"}
    BY <1>s
  <1>5. PICK r : r = [p EXCEPT !.session = s]
    BY Zenon
  <1>6. GoodPacket(up, p) /\ posts' = (posts \ {p}) \cup {r} /\ map' = s
    BY <1>s, <1>5, Zenon DEF SplitInv, PostInv, HandlePost
  <1>2. Flags'
    BY <1>1, <1>4, <1>6, Zenon DEF SplitInv, Flags
  <1>7. GoodPacket(up, r)
    BY <1>4, <1>5, <1>6, PacketMoved, Zenon
  <1>3. \A x \in posts' : x \in posts \/ GoodPacket(up, x)
    BY <1>6, <1>7, Zenon
  <1> QED BY <1>1, <1>2, <1>3, PostStep, SameQueue, Zenon

LEMMA PushPostKeeps == ASSUME SplitInv, NEW p, PushPost(p) PROVE SplitInv'
  <1>1. UNCHANGED <<clientOpen, up, map, copies>> /\ UNCHANGED <<upVars, next_seq, feeder, readChan, delivered, serverOpen, down>>
    BY Zenon DEF PushPost, upVars
  <1>2. Flags'
    BY <1>1, Zenon DEF SplitInv, Flags, PushPost
  <1>3. \A x \in posts' : x \in posts
    BY Zenon DEF PushPost
  <1>4. PICK r : r = [p EXCEPT !.session = "none"]
    BY Zenon
  <1>5. GoodPacket(up, p) /\ (queue' = queue \/ (Cardinality(queue) < QueueCap /\ queue' = queue \cup {r}))
    BY <1>4, Zenon DEF SplitInv, PostInv, PushPost, Accepts
  <1>6. GoodPacket(up, r)
    BY <1>4, <1>5, PacketMoved, Zenon
  <1>7. IsFiniteSet(queue) /\ Cardinality(queue) <= QueueCap /\ \A x \in queue : GoodPacket(up, x)
    BY Zenon DEF SplitInv, QueueInv
  <1>8. CASE queue' = queue
    BY <1>1, <1>2, <1>3, <1>8, PostStep, SameQueue, Zenon
  <1>9. CASE Cardinality(queue) < QueueCap /\ queue' = queue \cup {r}
    <2>1. IsFiniteSet(queue') /\ Cardinality(queue') <= Cardinality(queue) + 1 /\ Cardinality(queue) \in Nat
          /\ Cardinality(queue') \in Nat
      BY <1>7, <1>9, FS_AddElement, FS_CardinalityType
    <2>2. Cardinality(queue') <= QueueCap
      BY <1>9, <2>1, SplitConstants
    <2>3. QueueInv'
      BY <1>1, <1>6, <1>7, <1>9, <2>1, <2>2, Zenon DEF QueueInv
    <2> QED BY <1>1, <1>2, <1>3, <2>3, PostStep, Zenon
  <1> QED BY <1>5, <1>8, <1>9, Zenon

(* Steps of the queue's reader and of the server.                          *)
LEMMA FeedStep ==
  ASSUME SplitInv, Flags', QueueInv', FeedInv', UNCHANGED <<upVars, posts, down>>
  PROVE  SplitInv'
  <1>u. UNCHANGED <<clientOpen, written, upChan, up, posts, down>>
    BY Zenon DEF upVars
  <1>2. UpInv' /\ PostInv' /\ DownInv'
    BY <1>u, Zenon DEF SplitInv, UpInv, PostInv, DownInv
  <1> QED BY <1>2, Zenon DEF SplitInv

LEMMA PopKeeps == ASSUME SplitInv, Pop PROVE SplitInv'
  <1>1. UNCHANGED <<clientOpen, up, readChan, delivered, serverOpen, copies, map, lost>> /\ UNCHANGED <<upVars, posts, down>>
    BY Zenon DEF Pop, upVars
  <1>2. PICK p \in Due : queue' = queue \ {p} /\ next_seq' = next_seq + 1
                         /\ feeder' = [pc |-> "send", data |-> p.data] /\ feeder.pc = "pop"
    BY Zenon DEF Pop
  <1>3. p \in queue /\ p.seq = next_seq
    BY Zenon DEF Due
  <1>4. IsFiniteSet(queue) /\ Cardinality(queue) <= QueueCap /\ \A x \in queue : GoodPacket(up, x)
    BY Zenon DEF SplitInv, QueueInv
  <1>5. Flags'
    BY <1>1, Zenon DEF SplitInv, Flags
  <1>6. QueueInv'
    <2>1. IsFiniteSet(queue') /\ Cardinality(queue') <= Cardinality(queue)
          /\ Cardinality(queue) \in Nat /\ Cardinality(queue') \in Nat
      <3>1. queue' \subseteq queue
        BY <1>2, Zenon
      <3> QED BY <1>4, <3>1, FS_Subset, FS_CardinalityType
    <2>2. Cardinality(queue') <= QueueCap
      BY <1>4, <2>1, SplitConstants
    <2> QED BY <1>1, <1>2, <1>4, <2>1, <2>2, Zenon DEF QueueInv
  <1>7. FeedInv'
    <2>1. up \in Ups /\ Fed(up, feeder, readChan, delivered, next_seq, serverOpen)
      BY Zenon DEF SplitInv, UpInv, UpState, FeedInv
    <2>2. PICK g : g = [pc |-> "send", data |-> p.data]
      BY Zenon
    <2>3. Fed(up, g, readChan, delivered, next_seq + 1, serverOpen)
      BY <1>2, <1>3, <1>4, <2>1, <2>2, FedPop, Zenon
    <2> QED BY <1>1, <1>2, <2>2, <2>3, Zenon DEF FeedInv
  <1> QED BY <1>1, <1>5, <1>6, <1>7, FeedStep, Zenon

LEMMA FeedKeeps == ASSUME SplitInv, Feed PROVE SplitInv'
  <1>1. UNCHANGED <<clientOpen, up, queue, next_seq, delivered, serverOpen, copies, lost>> /\ UNCHANGED <<upVars, posts, down>>
    BY Zenon DEF Feed, upVars
  <1>2. QueueInv'
    BY <1>1, SameQueue, Zenon
  <1>3. up \in Ups /\ Fed(up, feeder, readChan, delivered, next_seq, serverOpen) /\ feeder.pc = "send"
    BY Zenon DEF SplitInv, UpInv, UpState, FeedInv, Feed
  <1>4. CASE /\ serverOpen /\ Len(readChan) < ChanCap
             /\ readChan' = Append(readChan, feeder.data)
             /\ feeder' = [pc |-> "pop", data |-> <<>>]
             /\ UNCHANGED map
    <2>1. PICK g : g = [pc |-> "pop", data |-> <<>>]
      BY Zenon
    <2>2. Fed(up, g, Append(readChan, feeder.data), delivered, next_seq, serverOpen)
      BY <1>3, <1>4, <2>1, FedSend, Zenon
    <2>3. FeedInv'
      BY <1>1, <1>4, <2>1, <2>2, Zenon DEF FeedInv
    <2>4. Flags'
      BY <1>1, <1>4, Zenon DEF SplitInv, Flags
    <2> QED BY <1>1, <1>2, <2>3, <2>4, FeedStep, Zenon
  <1>5. CASE /\ ~serverOpen
             /\ feeder' = [pc |-> "gone", data |-> <<>>]
             /\ map' = "none"
             /\ UNCHANGED readChan
    <2>1. PICK g : g = [pc |-> "gone", data |-> <<>>]
      BY Zenon
    <2>2. Fed(up, g, readChan, delivered, next_seq, serverOpen)
      BY <1>3, <1>5, <2>1, FedGone, Zenon
    <2>3. FeedInv'
      BY <1>1, <1>5, <2>1, <2>2, Zenon DEF FeedInv
    <2>4. Flags'
      BY <1>1, <1>5, Zenon DEF SplitInv, Flags
    <2> QED BY <1>1, <1>2, <2>3, <2>4, FeedStep, Zenon
  <1> QED BY <1>4, <1>5, Zenon DEF Feed

LEMMA ServerReadKeeps == ASSUME SplitInv, ServerRead PROVE SplitInv'
  <1>1. UNCHANGED <<clientOpen, up, queue, next_seq, feeder, serverOpen, copies, lost, map>> /\ UNCHANGED <<upVars, posts, down>>
    BY Zenon DEF ServerRead, upVars
  <1>2. QueueInv' /\ Flags'
    BY <1>1, SameQueue, Zenon DEF SplitInv, Flags
  <1>3. Fed(up, feeder, Tail(readChan), delivered \o Head(readChan), next_seq, serverOpen)
    BY FedRead, Zenon DEF SplitInv, FeedInv, ServerRead
  <1>4. FeedInv'
    BY <1>1, <1>3, Zenon DEF FeedInv, ServerRead
  <1> QED BY <1>1, <1>2, <1>4, FeedStep, Zenon

LEMMA ServerCloseKeeps == ASSUME SplitInv, ServerClose PROVE SplitInv'
  <1>1. UNCHANGED <<clientOpen, up, queue, next_seq, feeder, delivered, copies, lost, map>> /\ UNCHANGED <<upVars, posts, down>>
        /\ readChan' = <<>> /\ serverOpen' = FALSE
    BY Zenon DEF ServerClose, upVars
  <1>2. QueueInv' /\ Flags'
    BY <1>1, SameQueue, Zenon DEF SplitInv, Flags
  <1>3. Fed(up, feeder, <<>>, delivered, next_seq, FALSE)
    BY FedClosed, Zenon DEF SplitInv, FeedInv
  <1>4. FeedInv'
    BY <1>1, <1>3, Zenon DEF FeedInv
  <1> QED BY <1>1, <1>2, <1>4, FeedStep, Zenon

LEMMA ClientCloseKeeps == ASSUME SplitInv, ClientClose PROVE SplitInv'
  <1>1. UNCHANGED <<written, upChan, up, posts, copies, map, queue, next_seq, feeder, readChan, delivered, serverOpen, lost, down>>
        /\ clientOpen' = FALSE
    BY Zenon DEF ClientClose, queueVars
  <1>2. UpInv' /\ PostInv' /\ QueueInv' /\ FeedInv' /\ Flags'
    BY <1>1, Zenon DEF SplitInv, UpInv, PostInv, QueueInv, FeedInv, Flags
  <1>3. DownInv'
    BY <1>1, Zenon DEF SplitInv, DownInv, Flows
  <1> QED BY <1>2, <1>3, Zenon DEF SplitInv

(* Steps of the download.                                                  *)
LEMMA DownStep ==
  ASSUME SplitInv, Moves(down, down', clientOpen), map' \in {"live", "zombie", "none"},
         UNCHANGED <<upSide, serverOpen>>
  PROVE  SplitInv'
  <1>1. UNCHANGED <<clientOpen, written, upChan, up, posts, copies, queue, next_seq, feeder, readChan, delivered, serverOpen, lost>>
    BY Zenon DEF upSide, upVars, queueVars
  <1>2. UpInv' /\ PostInv' /\ QueueInv' /\ FeedInv' /\ Flags'
    BY <1>1, Zenon DEF SplitInv, UpInv, PostInv, QueueInv, FeedInv, Flags
  <1>3. down \in Downs /\ clientOpen \in BOOLEAN /\ Flows(down, clientOpen)
    BY Zenon DEF SplitInv, DownInv, Flags
  <1>5. PICK v : v = down'
    BY Zenon
  <1>6. v \in Downs /\ Flows(v, clientOpen)
    <2>1. Moves(down, v, clientOpen)
      BY <1>5, Zenon
    <2> QED BY <1>3, <2>1, DownMoves, Zenon
  <1>4. DownInv'
    BY <1>1, <1>5, <1>6, Zenon DEF DownInv
  <1> QED BY <1>2, <1>4, Zenon DEF SplitInv

LEMMA DownloadingKeeps ==
  ASSUME SplitInv, Downloading \/ ServerWrite \/ Break
  PROVE  SplitInv'
  <1>0. map \in {"live", "zombie", "none"} /\ "none" \in {"live", "zombie", "none"}
    BY Zenon DEF SplitInv, Flags
  <1>1. CASE ServerWrite
    <2>1. UNCHANGED <<upSide, serverOpen>> /\ map' = map
      BY <1>1, Zenon DEF ServerWrite
    <2>2. Moves(down, down', clientOpen)
      BY <1>1, Zenon DEF ServerWrite, Moves
    <2> QED BY <1>0, <2>1, <2>2, DownStep, Zenon
  <1>2. CASE Break
    <2>1. UNCHANGED <<upSide, serverOpen>> /\ map' = map
      BY <1>2, Zenon DEF Break
    <2>2. Moves(down, down', clientOpen)
      BY <1>2, Zenon DEF Break, Moves
    <2> QED BY <1>0, <2>1, <2>2, DownStep, Zenon
  <1>3. CASE Pump
    <2>1. UNCHANGED <<upSide, serverOpen>> /\ map' = map
      BY <1>3, Zenon DEF Pump
    <2>2. Moves(down, down', clientOpen)
      BY <1>3, Zenon DEF Pump, Moves
    <2> QED BY <1>0, <2>1, <2>2, DownStep, Zenon
  <1>4. CASE StreamDown
    <2>1. UNCHANGED <<upSide, serverOpen>> /\ (map' = map \/ map' = "none")
      BY <1>4, Zenon DEF StreamDown
    <2>2. Moves(down, down', clientOpen)
      BY <1>4, Zenon DEF StreamDown, PeerGone, Moves
    <2> QED BY <1>0, <2>1, <2>2, DownStep, Zenon
  <1>5. CASE StreamEnd
    <2>1. UNCHANGED <<upSide, serverOpen>> /\ map' = "none"
      BY <1>5, Zenon DEF StreamEnd
    <2>2. Moves(down, down', clientOpen)
      BY <1>5, Zenon DEF StreamEnd, SendersGone, PeerGone, Moves
    <2> QED BY <1>0, <2>1, <2>2, DownStep, Zenon
  <1>6. CASE DownloadRead
    <2>1. UNCHANGED <<upSide, serverOpen>> /\ map' = map
      BY <1>6, Zenon DEF DownloadRead
    <2>2. Moves(down, down', clientOpen)
      BY <1>6, Zenon DEF DownloadRead, Moves
    <2> QED BY <1>0, <2>1, <2>2, DownStep, Zenon
  <1>7. CASE ClientRead
    <2>1. UNCHANGED <<upSide, serverOpen>> /\ map' = map
      BY <1>7, Zenon DEF ClientRead
    <2>2. Moves(down, down', clientOpen)
      BY <1>7, Zenon DEF ClientRead, Moves
    <2> QED BY <1>0, <2>1, <2>2, DownStep, Zenon
  <1> QED BY <1>1, <1>2, <1>3, <1>4, <1>5, <1>6, <1>7, Zenon DEF Downloading

LEMMA SplitInvNext == ASSUME SplitInv, [SplitNext]_splitVars PROVE SplitInv'
  <1>1. CASE \E n \in WriteSizes : ClientWrite(n)
    BY <1>1, ClientWriteKeeps, Zenon
  <1>2. CASE ClientClose \/ ServerClose
    BY <1>2, ClientCloseKeeps, ServerCloseKeeps, Zenon
  <1>3. CASE ServerWrite \/ Break \/ Downloading
    BY <1>3, DownloadingKeeps, Zenon
  <1>4. CASE UploadLoop
    BY <1>4, UploadRecvKeeps, PostAnsweredKeeps, SendPostKeeps, UploadEndKeeps, Zenon DEF UploadLoop
  <1>5. CASE Listener
    BY <1>5, HandlePostKeeps, PushPostKeeps, Zenon DEF Listener
  <1>6. CASE \E p \in posts : LosePost(p) \/ RepeatPost(p)
    BY <1>6, LosePostKeeps, RepeatPostKeeps, Zenon
  <1>7. CASE Pop \/ Feed \/ ServerRead
    BY <1>7, PopKeeps, FeedKeeps, ServerReadKeeps, Zenon
  <1>8. CASE UNCHANGED splitVars
    <2>1. UNCHANGED <<clientOpen, written, upChan, up, posts, copies, map, queue, next_seq, feeder,
                      readChan, delivered, serverOpen, lost, down>>
      BY <1>8, Zenon DEF splitVars, upVars, queueVars
    <2> QED BY <2>1, Zenon DEF SplitInv, Flags, UpInv, PostInv, QueueInv, FeedInv, DownInv
  <1> QED BY <1>1, <1>2, <1>3, <1>4, <1>5, <1>6, <1>7, <1>8, Zenon DEF SplitNext

(* The invariant gives the property.                                       *)
LEMMA SplitInvIntact == ASSUME SplitInv PROVE SplitIntact
  <1>1. up \in Ups /\ written \in Nat /\ written <= MaxBytes /\ upChan \in Seq(Seq(Nat)) /\ Len(upChan) <= ChanCap /\ Aligned(up)
    BY Zenon DEF SplitInv, UpInv, UpState
  <1>2. PICK e \in Nat : Cut(up, written, upChan, e)
    BY Zenon DEF SplitInv, UpInv, UpState
  <1>3. up.pc \in {"recv", "send", "await", "done"} /\ up.seq \in Nat /\ up.sent \in Nat /\ up.sent <= e /\ e <= written
    BY <1>1, <1>2, UpTyped, Zenon DEF Cut, Run
  <1>4. written \in 0 .. MaxBytes /\ up.sent \in 0 .. written
    BY <1>1, <1>3, SplitConstants
  <1>5. \A p \in queue \cup posts : p.data # <<>> /\ p.seq \in 0 .. up.seq
    <2>1. ASSUME NEW p \in queue \cup posts PROVE p.data # <<>> /\ p.seq \in Nat /\ p.seq <= up.seq
      <3>1. Piece(up, p.seq, p.data)
        BY Zenon DEF SplitInv, PostInv, QueueInv, GoodPacket
      <3> QED BY <3>1, PieceData, Zenon DEF Piece
    <2> QED BY <1>3, <2>1
  <1>6. feeder \in Feeders /\ readChan \in Seq(Seq(Nat)) /\ Len(readChan) <= ChanCap /\ next_seq \in Nat /\ next_seq <= up.seq + 1
    BY Zenon DEF SplitInv, FeedInv, Fed
  <1>7. feeder.pc \in {"pop", "send", "gone"}
    BY <1>6, Zenon DEF Feeders
  <1>8. next_seq \in 0 .. up.seq + 1
    BY <1>3, <1>6
  <1>9. /\ clientOpen \in BOOLEAN /\ serverOpen \in BOOLEAN /\ lost \in BOOLEAN
        /\ copies \in Nat /\ copies <= MaxCopies /\ map \in {"live", "zombie", "none"}
    BY Zenon DEF SplitInv, Flags
  <1>10. copies \in 0 .. MaxCopies
    BY <1>9, SplitConstants
  <1>11. down \in Downs /\ Flows(down, clientOpen)
    BY Zenon DEF SplitInv, DownInv
  <1>12. /\ down.wt <= ChanCap /\ down.dl <= ChanCap /\ down.cl <= ChanCap
         /\ down.got \in Nat /\ down.wrote \in Nat
    BY <1>11, DownTyped, Zenon
  <1>13. {clientOpen, serverOpen, lost} \subseteq BOOLEAN
    BY <1>9, Zenon
  <1>14. Cardinality(queue) <= QueueCap
    BY Zenon DEF SplitInv, QueueInv
  <1>15. up.pc = "send" => Len(up.buf) >= MaxUpload
    BY <1>1, Zenon DEF Aligned
  <1>16. SplitTypeOK
    BY <1>1, <1>3, <1>4, <1>5, <1>6, <1>7, <1>8, <1>9, <1>10, <1>12, <1>13, <1>14, <1>15, Zenon DEF SplitTypeOK
  <1>17. UploadIsPrefix
    <2>1. PICK a \in Nat : Run(delivered, 0, a)
      BY Zenon DEF SplitInv, FeedInv, Fed, Reads
    <2>2. Len(delivered) = a
      BY <2>1, RunLen
    <2>3. delivered = [i \in 1 .. a |-> i]
      BY <2>1 DEF Run
    <2>4. Bytes(1, a) = [i \in 1 .. a |-> i]
      BY DEF Bytes
    <2> QED BY <2>2, <2>3, <2>4, Zenon DEF UploadIsPrefix
  <1>18. DownloadEndIsComplete
    <2>1. ASSUME clientOpen, ~down.reader, down.cl = 0, ~down.broken PROVE down.got = down.wrote
      <3>1. down.wrote = down.cl + down.got
        BY <1>11, <2>1, Zenon DEF Flows
      <3> QED BY <1>12, <2>1, <3>1
    <2> QED BY <2>1, Zenon DEF DownloadEndIsComplete
  <1> QED BY <1>16, <1>17, <1>18, Zenon DEF SplitIntact

(* splithttp keeps both directions of a session whole, for every upload    *)
(* size, queue and channel capacity: whatever POSTs are lost, repeated,    *)
(* overtaken or refused by a full UploadQueue, the listener's SplitConn    *)
(* reads a prefix of what the dialer's SplitConn was given; a client that  *)
(* sees the end of the chunked download has read all of it, unless its     *)
(* connection broke; and every queue and channel keeps within its bound.   *)
THEOREM SplitStaysIntact == SplitSpec => []SplitIntact
  <1>1. SplitInit => SplitInv
    BY SplitInvInit
  <1>2. SplitInv /\ [SplitNext]_splitVars => SplitInv'
    BY SplitInvNext
  <1>3. SplitInv => SplitIntact
    BY SplitInvIntact
  <1> QED BY <1>1, <1>2, <1>3, PTL DEF SplitSpec
=============================================================================
