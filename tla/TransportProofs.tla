--------------------------- MODULE TransportProofs ---------------------------
(***************************************************************************)
(* The transports keep the stream they carry, for every number of bytes    *)
(* and every window, buffer and message size: the mKCP core implements a   *)
(* reliable stream (the safety half of Stream!Spec), QuicPool shares one   *)
(* Hysteria connection among its calls, and the stream transports' ends    *)
(* deliver in order and end after the last byte.                           *)
(***************************************************************************)
EXTENDS Kcp, Hysteria, StreamTransports, Counting

-----------------------------------------------------------------------------
(* mKCP.                                                                   *)

(* A window holds, under each number, the chunk pushed under it.           *)
Holds(win) == /\ DOMAIN win \subseteq 0 .. Len(kput) - 1
              /\ \A n \in DOMAIN win : win[n] = kput[n + 1]

(* What is under way is what was put: every payload in the sending window, *)
(* in a datagram or in the receiving window is the one pushed under its    *)
(* number, and what was read is the beginning of what was pushed.          *)
KcpInv ==
    /\ kput \in Seq(KChunks)
    /\ transmitted \subseteq DOMAIN swin
    /\ Holds(swin)
    /\ Holds(rwin)
    /\ \A p \in dataNet : /\ p.number \in 0 .. Len(kput) - 1
                          /\ p.payload = kput[p.number + 1]
    /\ rnext \in 0 .. Len(kput)
    /\ kgot \in Seq(KChunks) /\ Len(kgot) = rnext
    /\ \A i \in 1 .. rnext : kgot[i] = kput[i]

LEMMA KcpInitInv == KcpInit => KcpInv
  <1> SUFFICES ASSUME KcpInit PROVE KcpInv
    OBVIOUS
  <1>1. DOMAIN swin = {} /\ DOMAIN rwin = {} /\ Len(kput) = 0 /\ Len(kgot) = 0
    BY DEF KcpInit
  <1>2. kput \in Seq(KChunks) /\ kgot \in Seq(KChunks)
    BY DEF KcpInit
  <1>3. Holds(swin) /\ Holds(rwin)
    BY <1>1 DEF Holds
  <1> QED BY <1>1, <1>2, <1>3 DEF KcpInit, KcpInv

(* Pushing a chunk is a Write.                                             *)
LEMMA KcpPush == ASSUME KcpInv, NEW c \in KChunks, Push(c) PROVE KcpInv' /\ Stream!Write
  <1> DEFINE N == Len(kput)
  <1>1. /\ kput' = Append(kput, c) /\ kput' \in Seq(KChunks)
        /\ Len(kput') = N + 1 /\ N \in Nat
        /\ \A i \in 1 .. N : kput'[i] = kput[i]
        /\ kput'[N + 1] = c
    BY DEF KcpInv, Push
  <1>2. Holds(swin)' /\ transmitted' \subseteq DOMAIN swin'
    BY <1>1 DEF KcpInv, Holds, Push, WithChunk, NextNumber
  <1>3. Holds(rwin)'
    BY <1>1 DEF KcpInv, Holds, Push, recvVars
  <1>4. \A p \in dataNet' : /\ p.number \in 0 .. Len(kput') - 1
                            /\ p.payload = kput'[p.number + 1]
    BY <1>1 DEF KcpInv, Push
  <1>5. /\ rnext' \in 0 .. Len(kput')
        /\ kgot' \in Seq(KChunks) /\ Len(kgot') = rnext'
        /\ \A i \in 1 .. rnext' : kgot'[i] = kput'[i]
    BY <1>1 DEF KcpInv, Push, recvVars
  <1>6. Stream!Write
    BY DEF Push, Stream!Write
  <1> QED BY <1>1, <1>2, <1>3, <1>4, <1>5, <1>6 DEF KcpInv

(* Taking the run of segments at next_number is a Read.                    *)
LEMMA KcpRead == ASSUME KcpInv, ReadChunks PROVE KcpInv' /\ Stream!Read
  <1> DEFINE N == Len(kput)
  <1>1. PICK k \in 1 .. KRecvWindow :
          /\ rnext .. rnext + k - 1 \subseteq DOMAIN rwin
          /\ kgot' = [i \in 1 .. Len(kgot) + k |->
                        IF i <= Len(kgot) THEN kgot[i]
                        ELSE rwin[rnext + i - Len(kgot) - 1]]
          /\ rwin' = [n \in DOMAIN rwin \ (rnext .. rnext + k - 1) |-> rwin[n]]
          /\ rnext' = rnext + k
    BY DEF ReadChunks, Keep
  <1>2. UNCHANGED <<kput, swin, transmitted, kclosed, dataNet>>
    BY DEF ReadChunks, sendVars
  <1>3. k \in Nat /\ k >= 1 /\ Len(kgot) = rnext /\ rnext \in Nat /\ N \in Nat
    BY <1>1, KcpAssumption DEF KcpInv
  <1>4. rnext + k <= N
    <2>1. rnext + k - 1 \in DOMAIN rwin
      BY <1>1, <1>3
    <2>2. rnext + k - 1 \in 0 .. N - 1
      BY <2>1 DEF KcpInv, Holds
    <2> QED BY <2>2, <1>3
  <1>5. \A i \in 1 .. rnext + k : kgot'[i] = kput[i]
    <2> SUFFICES ASSUME NEW i \in 1 .. rnext + k PROVE kgot'[i] = kput[i]
      OBVIOUS
    <2>1. CASE i <= rnext
      BY <1>1, <1>3, <2>1 DEF KcpInv
    <2>2. CASE i > rnext
      <3>1. i - 1 \in rnext .. rnext + k - 1 /\ rnext + i - Len(kgot) - 1 = i - 1
        BY <1>3, <2>2
      <3>2. rwin[i - 1] = kput[i]
        BY <1>1, <1>3, <3>1 DEF KcpInv, Holds
      <3> QED BY <1>1, <1>3, <2>2, <3>1, <3>2
    <2> QED BY <1>3, <2>1, <2>2
  <1>6. kgot' = [i \in 1 .. rnext + k |-> kput[i]]
    BY <1>1, <1>3, <1>5
  <1>7. kgot' \in Seq(KChunks) /\ Len(kgot') = rnext + k
    <2>1. \A i \in 1 .. rnext + k : kput[i] \in KChunks
      BY <1>3, <1>4 DEF KcpInv
    <2> QED BY <1>3, <1>6, <2>1
  <1>8. kgot' = SubSeq(kput, 1, rnext + k)
    BY <1>3, <1>4, <1>6 DEF KcpInv
  <1>9. Holds(rwin)' /\ Holds(swin)'
    BY <1>1, <1>2 DEF KcpInv, Holds
  <1>10. Stream!Read
    BY <1>2, <1>3, <1>4, <1>8 DEF Stream!Read
  <1> QED BY <1>1, <1>2, <1>3, <1>4, <1>5, <1>7, <1>9, <1>10 DEF KcpInv

(* What FlushData puts under way comes out of the sending window.          *)
LEMMA KcpFlush == ASSUME KcpInv, FlushData PROVE KcpInv' /\ UNCHANGED Stream!vars
  <1>1. PICK late \in SUBSET transmitted :
          LET sent == Chosen((DOMAIN swin \ transmitted) \cup late) IN
          /\ \E out \in SUBSET sent :
               dataNet' = dataNet \cup {DataSegment(n) : n \in out}
          /\ transmitted' = transmitted \cup sent
    BY DEF FlushData, FlushDataFor
  <1>2. Chosen((DOMAIN swin \ transmitted) \cup late) \subseteq DOMAIN swin
    BY DEF Chosen, KcpInv
  <1>3. PICK out \in SUBSET DOMAIN swin :
          dataNet' = dataNet \cup {DataSegment(n) : n \in out}
    BY <1>1, <1>2
  <1>4. UNCHANGED <<kput, swin, kclosed, rwin, rnext, kgot>>
    BY DEF FlushData, FlushDataFor, recvVars
  <1>5. \A p \in dataNet' : /\ p.number \in 0 .. Len(kput) - 1
                            /\ p.payload = kput[p.number + 1]
    <2>1. \A n \in out : /\ DataSegment(n).number = n
                         /\ DataSegment(n).payload = swin[n]
      BY DEF DataSegment
    <2>2. \A n \in out : n \in 0 .. Len(kput) - 1 /\ swin[n] = kput[n + 1]
      BY DEF KcpInv, Holds
    <2> QED BY <1>3, <2>1, <2>2 DEF KcpInv
  <1>6. transmitted' \subseteq DOMAIN swin'
    BY <1>1, <1>2, <1>4 DEF KcpInv
  <1> QED BY <1>4, <1>5, <1>6 DEF KcpInv, Holds, Stream!vars

(* A data segment that arrives is stored under its own number.             *)
LEMMA KcpData == ASSUME KcpInv, DataArrives PROVE KcpInv' /\ UNCHANGED Stream!vars
  <1>1. PICK p \in dataNet : ProcessData(p) /\ dataNet' \in {dataNet, dataNet \ {p}}
    BY DEF DataArrives
  <1>2. UNCHANGED <<kput, swin, transmitted, kclosed, rnext, kgot>>
    BY <1>1 DEF ProcessData, sendVars
  <1>3. rwin' = rwin \/ rwin' = WithChunk(rwin, p.number, p.payload)
    BY <1>1 DEF ProcessData
  <1>4. p.number \in 0 .. Len(kput) - 1 /\ p.payload = kput[p.number + 1]
    BY <1>1 DEF KcpInv
  <1>5. Holds(rwin)'
    BY <1>2, <1>3, <1>4 DEF KcpInv, Holds, WithChunk
  <1> QED BY <1>1, <1>2, <1>5 DEF KcpInv, Holds, Stream!vars

(* An acknowledgement only takes segments out of the sending window.       *)
LEMMA KcpAck == ASSUME KcpInv, AckArrives PROVE KcpInv' /\ UNCHANGED Stream!vars
  <1>1. PICK p \in ackNet : ProcessAck(p)
    BY DEF AckArrives
  <1>2. UNCHANGED <<kput, kclosed, rwin, rnext, dataNet, kgot>>
    BY <1>1 DEF ProcessAck, recvVars
  <1>3. /\ swin' = [n \in Unacked(p) |-> swin[n]] /\ Unacked(p) \subseteq DOMAIN swin
        /\ transmitted' = transmitted \cap Unacked(p)
    BY <1>1 DEF ProcessAck, Keep, Unacked
  <1> QED BY <1>2, <1>3 DEF KcpInv, Holds, Stream!vars

LEMMA KcpStep == KcpInv /\ [KcpNext]_kcpVars => KcpInv' /\ [Stream!Next]_(Stream!vars)
  <1> SUFFICES ASSUME KcpInv, [KcpNext]_kcpVars
               PROVE  KcpInv' /\ [Stream!Next]_(Stream!vars)
    OBVIOUS
  <1>1. CASE \E c \in KChunks : Push(c)
    BY <1>1, KcpPush DEF Stream!Next
  <1>2. CASE ReadChunks
    BY <1>2, KcpRead DEF Stream!Next
  <1>3. CASE FlushData
    BY <1>3, KcpFlush
  <1>4. CASE FlushAcks
    <2>1. UNCHANGED <<kput, swin, transmitted, kclosed, rwin, rnext, dataNet, kgot>>
      BY <1>4 DEF FlushAcks, sendVars, recvVars
    <2> QED BY <2>1 DEF KcpInv, Holds, Stream!vars
  <1>5. CASE DataArrives
    BY <1>5, KcpData
  <1>6. CASE AckArrives
    BY <1>6, KcpAck
  <1>7. CASE NetLoses
    <2>1. /\ UNCHANGED <<kput, swin, transmitted, kclosed, rwin, rnext, kgot>>
          /\ dataNet' \subseteq dataNet
      BY <1>7 DEF NetLoses, sendVars, recvVars
    <2> QED BY <2>1 DEF KcpInv, Holds, Stream!vars
  <1>8. CASE CloseWrite
    <2>1. /\ UNCHANGED <<kput, rwin, rnext, dataNet, kgot>>
          /\ DOMAIN swin' = {} /\ transmitted' = {}
      BY <1>8 DEF CloseWrite, recvVars
    <2>2. Stream!Close
      BY <1>8 DEF CloseWrite, Stream!Close
    <2> QED BY <2>1, <2>2 DEF KcpInv, Holds, Stream!Next
  <1>9. CASE UNCHANGED kcpVars
    BY <1>9 DEF kcpVars, sendVars, recvVars, KcpInv, Holds, Stream!vars
  <1> QED BY <1>1, <1>2, <1>3, <1>4, <1>5, <1>6, <1>7, <1>8, <1>9 DEF KcpNext

(* The mKCP workers implement the reliable stream: whatever the network    *)
(* does, each step of SendingWorker and ReceivingWorker is a write, an     *)
(* in-order read of pushed chunks, a close, or invisible to the user.      *)
THEOREM KcpImplementsStream == KcpSafety => Stream!SafeSpec
  <1>1. KcpInit => KcpInv /\ Stream!Init
    BY KcpInitInv DEF KcpInit, Stream!Init
  <1> QED BY <1>1, KcpStep, PTL DEF KcpSafety, Stream!SafeSpec

-----------------------------------------------------------------------------
(* Hysteria.                                                               *)

PoolSpec == PoolInit /\ [][PoolNext]_poolVars

(* A call is inside get_or_create, between locking the pool and returning. *)
Creating(p) == hpc[p] \in {"look", "dial", "auth"}

Live == {i \in DOMAIN dialled : dialled[i] # "closed"}

PoolTypeOK ==
    /\ hpc \in [HProcs -> {"start", "look", "dial", "auth", "opens", "stream", "failed"}]
    /\ hcon \in [HProcs -> Nat]
    /\ dialled \in Seq({"auth", "open", "closed"})
    /\ pool \in {NoConn} \cup DOMAIN dialled

(* The call inside get_or_create holds the lock; while it dials, the       *)
(* pooled connection is closed; and a live connection is either the pooled *)
(* one or the one that call is authenticating.                             *)
PoolInv ==
    /\ PoolTypeOK
    /\ \A p \in HProcs : Creating(p) => lock = {p}
    /\ pool # NoConn => dialled[pool] # "auth"
    /\ \A p \in HProcs : hpc[p] \in {"dial", "auth"} => pool \notin Live
    /\ \A i \in Live : i = pool \/ \E p \in HProcs : hpc[p] = "auth" /\ hcon[p] = i
    /\ \A p \in HProcs : hpc[p] = "auth" => hcon[p] \in DOMAIN dialled /\ hcon[p] # pool

-----------------------------------------------------------------------------
LEMMA PoolInitInv == PoolInit => PoolInv
  <1> SUFFICES ASSUME PoolInit PROVE PoolInv
    OBVIOUS
  <1>1. DOMAIN dialled = {} /\ dialled \in Seq({"auth", "open", "closed"})
    BY DEF PoolInit
  <1> QED BY <1>1 DEF PoolInit, PoolInv, PoolTypeOK, Creating, Live, NoConn

(* Only the holder of the lock is inside get_or_create.                    *)
LEMMA OneCreates ==
  ASSUME PoolInv, NEW p \in HProcs, Creating(p), NEW q \in HProcs, Creating(q)
  PROVE  p = q
  <1>1. lock = {p} /\ lock = {q}
    BY DEF PoolInv
  <1>2. q \in {p}
    BY <1>1
  <1> QED BY <1>2

(* Steps of a call that dial nothing leave the connections alone.          *)
LEMMA PoolCallInv ==
  ASSUME PoolInv, NEW p \in HProcs,
         PoolLocks(p) \/ PoolLooks(p) \/ DialFails(p) \/ OpenBi(p) \/ ProcessDone(p)
  PROVE  PoolInv'
  <1> USE DEF PoolInv, PoolTypeOK, Creating, Live, HGoes, NoConn
  <1>1. CASE PoolLocks(p)
    BY <1>1 DEF PoolLocks
  <1>2. CASE PoolLooks(p)
    <2>1. CASE pool # NoConn /\ dialled[pool] = "open"
      <3>1. /\ hpc' = [hpc EXCEPT ![p] = "opens"] /\ hcon' = [hcon EXCEPT ![p] = pool]
            /\ hpc[p] = "look" /\ lock' = {} /\ UNCHANGED <<pool, dialled>>
        BY <1>2, <2>1 DEF PoolLooks
      <3>2. pool \in Nat
        BY <2>1
      <3>3. \A q \in HProcs : Creating(q) => q = p
        BY <3>1, OneCreates
      <3> QED BY <3>1, <3>2, <3>3
    <2>2. CASE ~(pool # NoConn /\ dialled[pool] = "open")
      <3>1. pool \notin Live
        BY <2>2
      <3> QED BY <1>2, <2>2, <3>1 DEF PoolLooks
    <2> QED BY <2>1, <2>2
  <1>3. CASE DialFails(p)
    <2>1. /\ hpc' = [hpc EXCEPT ![p] = "failed"] /\ hpc[p] = "dial"
          /\ lock' = {} /\ UNCHANGED <<hcon, pool, dialled>>
      BY <1>3 DEF DialFails
    <2>2. \A q \in HProcs : Creating(q) => q = p
      BY <2>1, OneCreates
    <2> QED BY <2>1, <2>2
  <1>4. CASE OpenBi(p)
    BY <1>4 DEF OpenBi
  <1>5. CASE ProcessDone(p)
    BY <1>5 DEF ProcessDone
  <1> QED BY <1>1, <1>2, <1>3, <1>4, <1>5

LEMMA PoolDialInv ==
  ASSUME PoolInv, NEW p \in HProcs, DialQuic(p) PROVE PoolInv'
  <1> USE DEF PoolInv, PoolTypeOK, Creating, Live, HGoes, NoConn
  <1> DEFINE n == Len(dialled) + 1
  <1>1. /\ dialled' \in Seq({"auth", "open", "closed"})
        /\ DOMAIN dialled' = DOMAIN dialled \cup {n} /\ n \in Nat \ {0} /\ n \notin DOMAIN dialled
        /\ dialled'[n] = "auth" /\ \A i \in DOMAIN dialled : dialled'[i] = dialled[i]
    BY DEF DialQuic
  <1>2. /\ hpc' = [hpc EXCEPT ![p] = "auth"] /\ hcon' = [hcon EXCEPT ![p] = n]
        /\ UNCHANGED <<lock, pool>> /\ hpc[p] = "dial"
    BY DEF DialQuic
  <1>3. \A q \in HProcs : hpc[q] = "auth" => FALSE
    BY <1>2, OneCreates
  <1> HIDE DEF n
  <1> QED BY <1>1, <1>2, <1>3

LEMMA PoolAnswerInv ==
  ASSUME PoolInv, NEW p \in HProcs, AuthAnswered(p) PROVE PoolInv'
  <1> USE DEF PoolInv, PoolTypeOK, Creating, Live, HGoes, NoConn
  <1>1. /\ hpc[p] = "auth" /\ lock = {p} /\ hcon[p] \in DOMAIN dialled
        /\ UNCHANGED <<hcon, dialled>> /\ lock' = {}
        /\ \A q \in HProcs : Creating(q) => q = p
    BY OneCreates DEF AuthAnswered
  <1>2. CASE dialled[hcon[p]] = "open"
    BY <1>1, <1>2 DEF AuthAnswered
  <1>3. CASE dialled[hcon[p]] = "closed"
    BY <1>1, <1>3 DEF AuthAnswered
  <1> QED BY <1>1, <1>2, <1>3 DEF AuthAnswered

LEMMA PoolConnInv ==
  ASSUME PoolInv, NEW i \in DOMAIN dialled,
         ConnCloses(i) \/ \E ok \in BOOLEAN : AuthFirstStream(i, ok)
  PROVE  PoolInv'
  <1> USE DEF PoolInv, PoolTypeOK, Creating, Live, NoConn
  <1>1. PICK s \in {"open", "closed"} :
          /\ dialled[i] # "closed" /\ (s = "open" => dialled[i] = "auth")
          /\ dialled' = [dialled EXCEPT ![i] = s] /\ UNCHANGED <<hpc, hcon, lock, pool>>
    BY DEF ConnCloses, AuthFirstStream
  <1>2. /\ dialled' \in Seq({"auth", "open", "closed"}) /\ DOMAIN dialled' = DOMAIN dialled
        /\ dialled'[i] = s /\ \A j \in DOMAIN dialled : j # i => dialled'[j] = dialled[j]
    BY <1>1
  <1>3. Live' \subseteq Live
    BY <1>1, <1>2
  <1> QED BY <1>1, <1>2, <1>3

LEMMA PoolStep == PoolInv /\ [PoolNext]_poolVars => PoolInv'
  <1> SUFFICES ASSUME PoolInv, [PoolNext]_poolVars PROVE PoolInv'
    OBVIOUS
  <1>1. CASE PoolNext
    BY <1>1, PoolCallInv, PoolDialInv, PoolAnswerInv, PoolConnInv DEF PoolNext
  <1>2. CASE UNCHANGED poolVars
    BY <1>2 DEF poolVars, PoolInv, PoolTypeOK, Creating, Live
  <1> QED BY <1>1, <1>2

(* Two live connections would be the pooled one and one being              *)
(* authenticated, or two that one call is authenticating.                  *)
LEMMA PoolInvOne == PoolInv => OneLiveConnection
  <1> SUFFICES ASSUME PoolInv PROVE Cardinality(Live) <= 1
    BY DEF OneLiveConnection, Live
  <1>1. ASSUME NEW i \in Live, NEW j \in Live PROVE i = j
    <2>1. CASE pool \in Live
      BY <2>1 DEF PoolInv
    <2>2. CASE pool \notin Live
      <3>1. PICK p \in HProcs : hpc[p] = "auth" /\ hcon[p] = i
        BY <2>2 DEF PoolInv
      <3>2. PICK q \in HProcs : hpc[q] = "auth" /\ hcon[q] = j
        BY <2>2 DEF PoolInv
      <3> QED BY <3>1, <3>2, OneCreates DEF Creating
    <2> QED BY <2>1, <2>2
  <1>2. CASE Live = {}
    BY <1>2, FS_EmptySet
  <1>3. CASE Live # {}
    <2>1. PICK i : i \in Live
      BY <1>3
    <2>2. Live = {i}
      BY <1>1, <2>1
    <2>3. Cardinality({i}) = 1
      BY FS_Singleton
    <2> QED BY <2>2, <2>3
  <1> QED BY <1>2, <1>3

(* However many calls process() and process_udp() there are, and whatever  *)
(* fails or closes meanwhile, get_or_create never leaves two connections   *)
(* open at once.                                                           *)
THEOREM PoolHasOneConnection == PoolSpec => []OneLiveConnection
  <1> QED BY PoolInitInv, PoolStep, PoolInvOne, PTL DEF PoolSpec

-----------------------------------------------------------------------------
(* The stream transports.                                                  *)

(* Messages, and the bytes a list of them carries: a control frame carries *)
(* none.                                                                   *)
Payloads == [k : {"bin", "ping", "close"}, d : Seq(Nat)]
Messages == {m \in Payloads : m.k # "bin" => m.d = <<>>}
Datas(q) == [i \in 1 .. Len(q) |-> q[i].d]
Carries(q, a, b) == Runs(Datas(q), a, b)

LEMMA MessageTyped ==
  ASSUME NEW m \in Messages
  PROVE  m \in Payloads /\ m.d \in Seq(Nat) /\ (m.k # "bin" => m.d = <<>>)
  BY DEF Messages, Payloads

LEMMA DatasSeq ==
  ASSUME NEW q \in Seq(Messages)
  PROVE  Datas(q) \in Seq(Seq(Nat)) /\ Len(Datas(q)) = Len(q) /\ \A i \in 1 .. Len(q) : Datas(q)[i] = q[i].d
  <1>1. \A i \in 1 .. Len(q) : q[i] \in Messages
    OBVIOUS
  <1>2. \A i \in 1 .. Len(q) : q[i].d \in Seq(Nat)
    BY <1>1, MessageTyped, Zenon
  <1>3. PICK n \in Nat : n = Len(q)
    OBVIOUS
  <1>4. PICK f : f = Datas(q)
    BY Zenon
  <1>5. f = [i \in 1 .. n |-> q[i].d]
    BY <1>3, <1>4, Zenon DEF Datas
  <1>6. f \in Seq(Seq(Nat)) /\ Len(f) = n
    BY <1>2, <1>3, <1>5
  <1> QED BY <1>3, <1>4, <1>5, <1>6, Zenon

LEMMA DatasOne ==
  ASSUME NEW m
  PROVE  Datas(<<m>>) = <<m.d>>
  BY DEF Datas

LEMMA DatasEmpty == Datas(<<>>) = <<>>
  BY DEF Datas

LEMMA DatasHead ==
  ASSUME NEW q \in Seq(Messages), Len(q) # 0
  PROVE  /\ Head(q) \in Messages /\ Tail(q) \in Seq(Messages)
         /\ Head(Datas(q)) = Head(q).d /\ Datas(Tail(q)) = Tail(Datas(q))
  <1>1. Head(q) \in Messages /\ Tail(q) \in Seq(Messages) /\ Len(Tail(q)) = Len(q) - 1 /\ Len(q) \in Nat
        /\ Head(q) = q[1]
    OBVIOUS
  <1>2. Datas(q) \in Seq(Seq(Nat)) /\ Len(Datas(q)) = Len(q) /\ \A i \in 1 .. Len(q) : Datas(q)[i] = q[i].d
    BY DatasSeq
  <1>3. 1 \in 1 .. Len(q)
    BY <1>1
  <1>4. Head(Datas(q)) = Datas(q)[1]
    BY <1>2
  <1>5. Head(Datas(q)) = Head(q).d
    BY <1>1, <1>2, <1>3, <1>4, Zenon
  <1>6. PICK f, g, t, n : f = Datas(q) /\ g = Tail(f) /\ t = Tail(q) /\ n = Len(q) - 1
    BY Zenon
  <1>7. n \in Nat /\ Len(q) = n + 1 /\ Len(t) = n
    BY <1>1, <1>6
  <1>8. g \in Seq(Seq(Nat)) /\ Len(g) = n
    BY <1>2, <1>6, <1>7
  <1>9. \A i \in 1 .. n : g[i] = t[i].d
    <2>1. ASSUME NEW i \in 1 .. n PROVE g[i] = t[i].d
      <3>1. i + 1 \in 1 .. Len(q)
        BY <1>7
      <3>2. t[i] = q[i + 1]
        BY <1>6, <1>7
      <3>3. g[i] = f[i + 1]
        BY <1>2, <1>6, <1>7
      <3> QED BY <1>2, <1>6, <3>1, <3>2, <3>3, Zenon
    <2> QED BY <2>1
  <1>10. g = [i \in 1 .. n |-> g[i]]
    BY <1>8, SeqIsFunction, Zenon
  <1>11. g = [i \in 1 .. n |-> t[i].d]
    BY <1>9, <1>10
  <1>12. Datas(t) = g
    BY <1>7, <1>11, Zenon DEF Datas
  <1> QED BY <1>1, <1>5, <1>6, <1>12, Zenon

LEMMA DatasConcat ==
  ASSUME NEW p \in Seq(Messages), NEW q \in Seq(Messages)
  PROVE  Datas(p \o q) = Datas(p) \o Datas(q)
  <1>1. PICK r, m, n : r = p \o q /\ m = Len(p) /\ n = Len(q)
    BY Zenon
  <1>2. m \in Nat /\ n \in Nat /\ Len(r) = m + n
        /\ (\A i \in 1 .. m : r[i] = p[i]) /\ (\A i \in m + 1 .. m + n : r[i] = q[i - m])
    <2>1. Concats(p \o q, p, q, Len(p), Len(q))
      BY Concat, Zenon
    <2> QED BY <1>1, <2>1, Zenon DEF Concats
  <1>3. PICK f, g, h : f = Datas(p) /\ g = Datas(q) /\ h = f \o g
    BY Zenon
  <1>4. /\ f \in Seq(Seq(Nat)) /\ Len(f) = m /\ \A i \in 1 .. m : f[i] = p[i].d
        /\ g \in Seq(Seq(Nat)) /\ Len(g) = n /\ \A i \in 1 .. n : g[i] = q[i].d
    BY <1>1, <1>3, DatasSeq, Zenon
  <1>5. /\ h = [i \in 1 .. m + n |-> h[i]]
        /\ (\A i \in 1 .. m : h[i] = f[i]) /\ (\A i \in m + 1 .. m + n : h[i] = g[i - m])
    <2>1. Concats(f \o g, f, g, Len(f), Len(g))
      BY <1>4, Concat, Zenon
    <2>2. Concats(h, f, g, m, n)
      BY <1>3, <1>4, <2>1, Zenon
    <2> QED BY <2>2, Zenon DEF Concats
  <1>6. ASSUME NEW i \in 1 .. m + n PROVE h[i] = r[i].d
    <2>1. CASE i \in 1 .. m
      <3>1. h[i] = f[i] /\ r[i] = p[i] /\ f[i] = p[i].d
        BY <1>2, <1>4, <1>5, <2>1, Zenon
      <3> QED BY <3>1, Zenon
    <2>2. CASE i \in m + 1 .. m + n /\ i - m \in 1 .. n
      <3>1. h[i] = g[i - m] /\ r[i] = q[i - m]
        BY <1>2, <1>5, <2>2, Zenon
      <3>2. g[i - m] = q[i - m].d
        BY <1>4, <2>2, Zenon
      <3> QED BY <3>1, <3>2, Zenon
    <2> QED BY <1>2, <2>1, <2>2
  <1>7. h = [i \in 1 .. m + n |-> r[i].d]
    <2>1. [i \in 1 .. m + n |-> h[i]] = [i \in 1 .. m + n |-> r[i].d]
      BY <1>6, Zenon
    <2> QED BY <1>5, <2>1, Zenon
  <1>8. Datas(r) = h
    BY <1>2, <1>7, Zenon DEF Datas
  <1> QED BY <1>1, <1>3, <1>8, Zenon

LEMMA CarriesNothing ==
  ASSUME NEW a, NEW b, Carries(<<>>, a, b)
  PROVE  a = b
  <1>1. Runs(<<>>, a, b)
    BY DatasEmpty, Zenon DEF Carries
  <1>2. Len(<<>>) = 0
    OBVIOUS
  <1> QED BY <1>1, <1>2, RunsNothing, Zenon

LEMMA CarriesEmpty ==
  ASSUME NEW a \in Nat
  PROVE  Carries(<<>>, a, a)
  BY DatasEmpty, RunsEmpty, Zenon DEF Carries

LEMMA CarriesOne ==
  ASSUME NEW m, NEW a, NEW b, Run(m.d, a, b)
  PROVE  Carries(<<m>>, a, b)
  BY DatasOne, RunsOne, Zenon DEF Carries

LEMMA CarriesConcat ==
  ASSUME NEW p \in Seq(Messages), NEW q \in Seq(Messages), NEW a, NEW b, NEW c,
         Carries(p, a, b), Carries(q, b, c)
  PROVE  Carries(p \o q, a, c)
  <1>1. Datas(p) \in Seq(Seq(Nat)) /\ Datas(q) \in Seq(Seq(Nat))
    BY DatasSeq, Zenon
  <1>2. Runs(Datas(p) \o Datas(q), a, c)
    BY <1>1, RunsConcat, Zenon DEF Carries
  <1> QED BY <1>2, DatasConcat, Zenon DEF Carries

LEMMA CarriesAppend ==
  ASSUME NEW q \in Seq(Messages), NEW m \in Messages, NEW a, NEW b, NEW c,
         Carries(q, a, b), Run(m.d, b, c)
  PROVE  Carries(Append(q, m), a, c)
  <1>1. Append(q, m) = q \o <<m>> /\ <<m>> \in Seq(Messages)
    OBVIOUS
  <1>2. Carries(<<m>>, b, c)
    BY CarriesOne, Zenon
  <1> QED BY <1>1, <1>2, CarriesConcat, Zenon

LEMMA CarriesHead ==
  ASSUME NEW q \in Seq(Messages), q # <<>>, NEW a, NEW b, Carries(q, a, b)
  PROVE  /\ Head(q) \in Messages /\ Tail(q) \in Seq(Messages)
         /\ \E c \in Nat : Run(Head(q).d, a, c) /\ Carries(Tail(q), c, b)
  <1>1. Len(q) # 0
    OBVIOUS
  <1>2. /\ Head(q) \in Messages /\ Tail(q) \in Seq(Messages)
        /\ Head(Datas(q)) = Head(q).d /\ Datas(Tail(q)) = Tail(Datas(q))
    BY <1>1, DatasHead, Zenon
  <1>3. Datas(q) \in Seq(Seq(Nat)) /\ Len(Datas(q)) # 0
    BY <1>1, DatasSeq, Zenon
  <1>4. PICK c : Run(Head(Datas(q)), a, c) /\ Runs(Tail(Datas(q)), c, b)
    BY <1>3, RunsHead, Zenon DEF Carries
  <1>5. c \in Nat
    BY <1>4, RunsOrder, Zenon
  <1> QED BY <1>2, <1>4, <1>5, Zenon DEF Carries

(* What was read, what the last message left over, and the messages of the *)
(* three queues hold the bytes 1 to f, one after the other.                *)
Links(g, rb, rq, tn, ob, f, a, b, c, e) ==
    Run(g, 0, a) /\ Run(rb, a, b) /\ Carries(rq, b, c) /\ Carries(tn, c, e) /\ Carries(ob, e, f)

Chain(g, rb, rq, tn, ob, f) ==
    f \in Nat /\ \E a, b, c, e \in Nat : Links(g, rb, rq, tn, ob, f, a, b, c, e)

LEMMA ChainLinks ==
  ASSUME NEW g, NEW rb, NEW rq, NEW tn, NEW ob, NEW f, NEW a \in Nat, NEW b \in Nat, NEW c \in Nat,
         NEW e \in Nat, f \in Nat, Run(g, 0, a), Run(rb, a, b), Carries(rq, b, c), Carries(tn, c, e),
         Carries(ob, e, f)
  PROVE  Chain(g, rb, rq, tn, ob, f)
  BY Zenon DEF Chain, Links

LEMMA RunOrder ==
  ASSUME NEW d, NEW a, NEW b, Run(d, a, b)
  PROVE  a \in Nat /\ b \in Nat /\ a <= b
  BY Zenon DEF Run

LEMMA CarriesOrder ==
  ASSUME NEW q, NEW a, NEW b, Carries(q, a, b)
  PROVE  a \in Nat /\ b \in Nat /\ a <= b
  BY RunsOrder, Zenon DEF Carries

LEMMA RunNothing ==
  ASSUME NEW a, NEW b, Run(<<>>, a, b)
  PROVE  a = b
  <1>1. Len(<<>>) = b - a /\ a \in Nat /\ b \in Nat
    BY RunLen, RunOrder, Zenon
  <1> QED BY <1>1

LEMMA ChainHold ==
  ASSUME NEW g, NEW rb, NEW rq, NEW tn, NEW ob \in Seq(Messages), NEW f, Chain(g, rb, rq, tn, ob, f),
         NEW m \in Messages, NEW h, Run(m.d, f, h)
  PROVE  Chain(g, rb, rq, tn, Append(ob, m), h)
  <1>1. PICK a, b, c, e \in Nat : Links(g, rb, rq, tn, ob, f, a, b, c, e)
    BY Zenon DEF Chain
  <1>2. Carries(Append(ob, m), e, h)
    BY <1>1, CarriesAppend, Zenon DEF Links
  <1>3. h \in Nat
    BY RunOrder, Zenon
  <1> QED BY <1>1, <1>2, <1>3, ChainLinks, Zenon DEF Links

LEMMA ChainSent ==
  ASSUME NEW g, NEW rb, NEW rq, NEW tn \in Seq(Messages), NEW f, Chain(g, rb, rq, tn, <<>>, f),
         NEW m \in Messages, NEW h, Run(m.d, f, h)
  PROVE  Chain(g, rb, rq, Append(tn, m), <<>>, h)
  <1>1. PICK a, b, c, e \in Nat : Links(g, rb, rq, tn, <<>>, f, a, b, c, e)
    BY Zenon DEF Chain
  <1>2. e = f
    BY <1>1, CarriesNothing, Zenon DEF Links
  <1>3. Carries(Append(tn, m), c, h)
    BY <1>1, <1>2, CarriesAppend, Zenon DEF Links
  <1>4. h \in Nat /\ Carries(<<>>, h, h)
    BY RunOrder, CarriesEmpty, Zenon
  <1> QED BY <1>1, <1>3, <1>4, ChainLinks, Zenon DEF Links

LEMMA ChainFlush ==
  ASSUME NEW g, NEW rb, NEW rq, NEW tn \in Seq(Messages), NEW ob \in Seq(Messages), NEW f,
         Chain(g, rb, rq, tn, ob, f)
  PROVE  Chain(g, rb, rq, tn \o ob, <<>>, f)
  <1>1. PICK a, b, c, e \in Nat : Links(g, rb, rq, tn, ob, f, a, b, c, e)
    BY Zenon DEF Chain
  <1>2. Carries(tn \o ob, c, f)
    BY <1>1, CarriesConcat, Zenon DEF Links
  <1>3. f \in Nat /\ Carries(<<>>, f, f)
    BY CarriesEmpty, Zenon DEF Chain
  <1> QED BY <1>1, <1>2, <1>3, ChainLinks, Zenon DEF Links

LEMMA ChainPing ==
  ASSUME NEW g, NEW rb, NEW rq, NEW tn \in Seq(Messages), NEW ob, NEW f, Chain(g, rb, rq, tn, ob, f),
         NEW m \in Messages, m.d = <<>>
  PROVE  Chain(g, rb, rq, Append(tn, m), ob, f)
  <1>1. PICK a, b, c, e \in Nat : Links(g, rb, rq, tn, ob, f, a, b, c, e)
    BY Zenon DEF Chain
  <1>2. Run(m.d, e, e)
    BY RunEmpty, Zenon
  <1>3. Carries(Append(tn, m), c, e)
    BY <1>1, <1>2, CarriesAppend, Zenon DEF Links
  <1>4. f \in Nat
    BY Zenon DEF Chain
  <1> QED BY <1>1, <1>3, <1>4, ChainLinks, Zenon DEF Links

LEMMA ChainTook ==
  ASSUME NEW g, NEW rb, NEW rq, NEW tn, NEW ob, NEW f, Chain(g, rb, rq, tn, ob, f),
         NEW n \in Nat, n <= Len(rb)
  PROVE  Chain(g \o SubSeq(rb, 1, n), LeftOver(rb, n), rq, tn, ob, f)
  <1>1. PICK a, b, c, e \in Nat : Links(g, rb, rq, tn, ob, f, a, b, c, e)
    BY Zenon DEF Chain
  <1>2. Run(g, 0, a) /\ Run(rb, a, b)
    BY <1>1, Zenon DEF Links
  <1>3. Len(rb) = b - a
    BY <1>2, RunLen, Zenon
  <1>4. n \in 0 .. b - a /\ a + n \in Nat
    BY <1>3
  <1>5. Run(SubSeq(rb, 1, n), a, a + n) /\ Run(LeftOver(rb, n), a + n, b)
    BY <1>2, <1>4, RunCut, Zenon DEF LeftOver
  <1>6. Run(g \o SubSeq(rb, 1, n), 0, a + n)
    BY <1>2, <1>5, RunJoin, Zenon
  <1>7. f \in Nat
    BY Zenon DEF Chain
  <1> QED BY <1>1, <1>4, <1>5, <1>6, <1>7, ChainLinks, Zenon DEF Links

LEMMA ChainHead ==
  ASSUME NEW g, NEW tn \in Seq(Messages), NEW ob, NEW f, Chain(g, <<>>, <<>>, tn, ob, f), tn # <<>>
  PROVE  Chain(g, Head(tn).d, <<>>, Tail(tn), ob, f)
  <1>1. PICK a, b, c, e \in Nat : Links(g, <<>>, <<>>, tn, ob, f, a, b, c, e)
    BY Zenon DEF Chain
  <1>2. a = b /\ b = c
    BY <1>1, RunNothing, CarriesNothing, Zenon DEF Links
  <1>3. PICK i \in Nat : Run(Head(tn).d, c, i) /\ Carries(Tail(tn), i, e)
    BY <1>1, CarriesHead, Zenon DEF Links
  <1>4. f \in Nat /\ Carries(<<>>, i, i)
    BY CarriesEmpty, Zenon DEF Chain
  <1>5. Run(g, 0, a) /\ Run(Head(tn).d, a, i) /\ Carries(ob, e, f)
    BY <1>1, <1>2, <1>3, Zenon DEF Links
  <1> QED BY <1>3, <1>4, <1>5, ChainLinks, Zenon

LEMMA ChainQueueHead ==
  ASSUME NEW g, NEW rq \in Seq(Messages), NEW tn, NEW ob, NEW f, Chain(g, <<>>, rq, tn, ob, f), rq # <<>>
  PROVE  Chain(g, Head(rq).d, Tail(rq), tn, ob, f)
  <1>1. PICK a, b, c, e \in Nat : Links(g, <<>>, rq, tn, ob, f, a, b, c, e)
    BY Zenon DEF Chain
  <1>2. a = b
    BY <1>1, RunNothing, Zenon DEF Links
  <1>3. PICK i \in Nat : Run(Head(rq).d, b, i) /\ Carries(Tail(rq), i, c)
    BY <1>1, CarriesHead, Zenon DEF Links
  <1>4. f \in Nat
    BY Zenon DEF Chain
  <1>5. Run(g, 0, a) /\ Run(Head(rq).d, a, i) /\ Carries(tn, c, e) /\ Carries(ob, e, f)
    BY <1>1, <1>2, <1>3, Zenon DEF Links
  <1> QED BY <1>3, <1>4, <1>5, ChainLinks, Zenon

LEMMA ChainForward ==
  ASSUME NEW g, NEW rb, NEW rq, NEW tn \in Seq(Messages), NEW ob \in Seq(Messages), NEW f,
         Chain(g, rb, rq, tn, ob, f), ob # <<>>
  PROVE  Chain(g, rb, rq, Append(tn, Head(ob)), Tail(ob), f)
  <1>1. PICK a, b, c, e \in Nat : Links(g, rb, rq, tn, ob, f, a, b, c, e)
    BY Zenon DEF Chain
  <1>2. PICK i \in Nat : Run(Head(ob).d, e, i) /\ Carries(Tail(ob), i, f) /\ Head(ob) \in Messages
    BY <1>1, CarriesHead, Zenon DEF Links
  <1>3. Carries(Append(tn, Head(ob)), c, i)
    BY <1>1, <1>2, CarriesAppend, Zenon DEF Links
  <1>4. f \in Nat
    BY Zenon DEF Chain
  <1> QED BY <1>1, <1>2, <1>3, <1>4, ChainLinks, Zenon DEF Links

LEMMA ChainMessage ==
  ASSUME NEW g, NEW rb, NEW rq \in Seq(Messages), NEW tn \in Seq(Messages), NEW ob, NEW f,
         Chain(g, rb, rq, tn, ob, f), tn # <<>>
  PROVE  Chain(g, rb, Append(rq, Head(tn)), Tail(tn), ob, f)
  <1>1. PICK a, b, c, e \in Nat : Links(g, rb, rq, tn, ob, f, a, b, c, e)
    BY Zenon DEF Chain
  <1>2. PICK i \in Nat : Run(Head(tn).d, c, i) /\ Carries(Tail(tn), i, e) /\ Head(tn) \in Messages
    BY <1>1, CarriesHead, Zenon DEF Links
  <1>3. Carries(Append(rq, Head(tn)), b, i)
    BY <1>1, <1>2, CarriesAppend, Zenon DEF Links
  <1>4. f \in Nat
    BY Zenon DEF Chain
  <1> QED BY <1>1, <1>2, <1>3, <1>4, ChainLinks, Zenon DEF Links

LEMMA ChainBroken ==
  ASSUME NEW g, NEW rb, NEW rq, NEW tn, NEW ob, NEW f, Chain(g, rb, rq, tn, ob, f)
  PROVE  \E h \in Nat : h <= f /\ Chain(g, rb, rq, <<>>, <<>>, h)
  <1>1. PICK a, b, c, e \in Nat : Links(g, rb, rq, tn, ob, f, a, b, c, e)
    BY Zenon DEF Chain
  <1>2. f \in Nat /\ c <= e /\ e <= f
    BY <1>1, CarriesOrder, Zenon DEF Chain, Links
  <1>3. c <= f
    BY <1>2
  <1>4. Carries(<<>>, c, c)
    BY CarriesEmpty, Zenon
  <1>5. Chain(g, rb, rq, <<>>, <<>>, c)
    BY <1>1, <1>4, ChainLinks, Zenon DEF Links
  <1> QED BY <1>3, <1>5, Zenon

(* What is left of a message goes back to its place.                       *)
LEMMA ChainBack ==
  ASSUME NEW g, NEW m \in Messages, NEW tn \in Seq(Messages), NEW ob, NEW f,
         Chain(g, m.d, <<>>, tn, ob, f)
  PROVE  Chain(g, <<>>, <<>>, <<m>> \o tn, ob, f)
  <1>1. PICK a, b, c, e \in Nat : Links(g, m.d, <<>>, tn, ob, f, a, b, c, e)
    BY Zenon DEF Chain
  <1>2. b = c
    BY <1>1, CarriesNothing, Zenon DEF Links
  <1>3. <<m>> \in Seq(Messages)
    OBVIOUS
  <1>4. Carries(<<m>>, a, b)
    BY <1>1, CarriesOne, Zenon DEF Links
  <1>5. Carries(<<m>> \o tn, a, e)
    BY <1>1, <1>2, <1>3, <1>4, CarriesConcat, Zenon DEF Links
  <1>6. Run(<<>>, a, a) /\ Carries(<<>>, a, a) /\ f \in Nat
    BY RunEmpty, CarriesEmpty, Zenon DEF Chain
  <1> QED BY <1>1, <1>5, <1>6, ChainLinks, Zenon DEF Links

LEMMA ChainAllRead ==
  ASSUME NEW g, NEW f, Chain(g, <<>>, <<>>, <<>>, <<>>, f)
  PROVE  Len(g) = f
  <1>1. PICK a, b, c, e \in Nat : Links(g, <<>>, <<>>, <<>>, <<>>, f, a, b, c, e)
    BY Zenon DEF Chain
  <1>2. a = b /\ b = c /\ c = e /\ e = f
    BY <1>1, RunNothing, CarriesNothing, Zenon DEF Links
  <1>3. Run(g, 0, f)
    BY <1>1, <1>2, Zenon DEF Links
  <1>4. Len(g) = f - 0 /\ f \in Nat
    BY <1>3, RunLen, RunOrder, Zenon
  <1> QED BY <1>4

LEMMA ChainRead ==
  ASSUME NEW g, NEW rb, NEW rq, NEW tn, NEW ob, NEW f, Chain(g, rb, rq, tn, ob, f)
  PROVE  g = [i \in 1 .. Len(g) |-> i]
  <1>1. PICK a, b, c, e \in Nat : Links(g, rb, rq, tn, ob, f, a, b, c, e)
    BY Zenon DEF Chain
  <1>2. Run(g, 0, a)
    BY <1>1, Zenon DEF Links
  <1>3. Len(g) = a - 0
    BY <1>2, RunLen, Zenon
  <1>4. Len(g) = a
    BY <1>3
  <1>5. g = [i \in 1 .. a |-> i]
    BY <1>2 DEF Run
  <1> QED BY <1>4, <1>5, Zenon

(* All bytes written are somewhere on the way, unless the stream broke.    *)
Flow(g, rb, rq, tn, ob, t, w) ==
    \E f \in Nat : Chain(g, rb, rq, tn, ob, f) /\ f <= t /\ (w # "broken" => f = t)

(* Which buffers a transport has, and where a Close may be.                *)
Shape(kd, rb, rq, ob, w) ==
    /\ kd # "grpc" => rq = <<>>
    /\ kd \in {"quic", "httpupgrade", "h2"} => ob = <<>>
    /\ kd \in Through => rb = <<>>
    /\ kd = "ws" /\ w = "shut" => ob = <<>>

NoClose(q) == \A i \in 1 .. Len(q) : q[i].k # "close"
OnlyLast(q) == \A i \in 1 .. Len(q) : q[i].k = "close" => i = Len(q)
Closes(kd, tn, ob, w) ==
    /\ NoClose(ob) /\ OnlyLast(tn)
    /\ ~(kd = "ws" /\ w = "shut") => NoClose(tn)

EndOk(r, w, g, t) ==
    r = "eof" => w \in {"shut", "dropped", "broken"} /\ (w # "broken" => Len(g) = t)

(* The inductive invariant.                                                *)
StTypes == tput \in Nat /\ rxq \in Seq(Messages) /\ tnet \in Seq(Messages) /\ obuf \in Seq(Messages)
FlowInv == Flow(got, rbuf, rxq, tnet, obuf, tput, wst)
ShapeInv == Shape(kind, rbuf, rxq, obuf, wst)
CloseInv == Closes(kind, tnet, obuf, wst)
EndInv == EndOk(rst, wst, got, tput)
HsInv == hs # "done" => tput = 0
Sound == StTypes /\ FlowInv /\ ShapeInv /\ CloseInv /\ EndInv /\ HsInv

-----------------------------------------------------------------------------
(* Messages.                                                               *)
LEMMA NoMessages == <<>> \in Seq(Messages)
  OBVIOUS

LEMMA BinIs ==
  ASSUME NEW t \in Nat, NEW n \in Nat
  PROVE  Bin(t, n) \in Messages /\ Run(Bin(t, n).d, t, t + n) /\ Bin(t, n).k # "close"
  <1>1. PICK d : d = [i \in 1 .. n |-> t + i]
    BY Zenon
  <1>2. d \in Seq(Nat)
    BY <1>1
  <1>3. Run(d, t, t + n)
    BY <1>1 DEF Run
  <1>4. PICK m : m = [k |-> "bin", d |-> d]
    BY Zenon
  <1>5. m \in Payloads /\ m.k = "bin" /\ m.d = d
    BY <1>2, <1>4 DEF Payloads
  <1>6. m \in Messages /\ m.k # "close"
    BY <1>5 DEF Messages
  <1>7. Bin(t, n) = m
    BY <1>1, <1>4, Zenon DEF Bin
  <1> QED BY <1>3, <1>5, <1>6, <1>7, Zenon

LEMMA ControlIs ==
  /\ Ping \in Messages /\ Ping.d = <<>> /\ Ping.k # "close"
  /\ Closing \in Messages /\ Closing.d = <<>>
  <1>1. PICK z : z = <<>> /\ z \in Seq(Nat)
    BY NoBytes, Zenon
  <1>2. PICK p, c : p = [k |-> "ping", d |-> z] /\ c = [k |-> "close", d |-> z]
    BY Zenon
  <1>3. /\ p \in Payloads /\ p.k = "ping" /\ p.d = z
        /\ c \in Payloads /\ c.k = "close" /\ c.d = z
    BY <1>1, <1>2 DEF Payloads
  <1>4. p \in Messages /\ c \in Messages /\ p.k # "close"
    BY <1>1, <1>3 DEF Messages
  <1>5. Ping = p /\ Closing = c
    BY <1>1, <1>2, Zenon DEF Ping, Closing
  <1> QED BY <1>1, <1>3, <1>4, <1>5, Zenon

LEMMA LeftTyped ==
  ASSUME NEW d \in Seq(Nat), NEW n \in Nat
  PROVE  LeftOver(d, n) \in Seq(Nat)
  BY DEF LeftOver

LEMMA RestIs ==
  ASSUME NEW m \in Messages, NEW n \in Nat \ {0}, n <= Len(m.d),
         NEW r, r = [m EXCEPT !.d = SubSeq(@, n + 1, Len(@))]
  PROVE  r \in Messages /\ r.d = LeftOver(m.d, n) /\ r.k = m.k
  <1>1. m \in Payloads /\ m.d \in Seq(Nat) /\ (m.k # "bin" => m.d = <<>>) /\ n \in Nat
    BY MessageTyped
  <1>2. PICK d : d = LeftOver(m.d, n)
    BY Zenon
  <1>3. d \in Seq(Nat)
    BY <1>1, <1>2, LeftTyped, Zenon
  <1>4. r = [m EXCEPT !.d = d]
    BY <1>2, Zenon DEF LeftOver
  <1>5. r \in Payloads /\ r.d = d /\ r.k = m.k
    BY <1>1, <1>3, <1>4 DEF Payloads
  <1>6. m.k = "bin"
    <2>1. m.d # <<>>
      <3>1. SUFFICES ASSUME m.d = <<>> PROVE FALSE
        BY Zenon
      <3>2. Len(m.d) = 0
        BY <3>1
      <3> QED BY <3>2
    <2> QED BY <1>1, <2>1, Zenon
  <1> QED BY <1>2, <1>5, <1>6, Zenon DEF Messages

LEMMA NoCloseEmpty == NoClose(<<>>) /\ OnlyLast(<<>>)
  BY DEF NoClose, OnlyLast

LEMMA NoCloseLast ==
  ASSUME NEW q, NoClose(q) PROVE OnlyLast(q)
  BY Zenon DEF NoClose, OnlyLast

LEMMA NoCloseAppend ==
  ASSUME NEW q \in Seq(Messages), NoClose(q), NEW m \in Messages, m.k # "close"
  PROVE  NoClose(Append(q, m)) /\ Append(q, m) \in Seq(Messages)
  BY DEF NoClose

LEMMA CloseAppend ==
  ASSUME NEW q \in Seq(Messages), NoClose(q), NEW m \in Messages
  PROVE  OnlyLast(Append(q, m)) /\ Append(q, m) \in Seq(Messages)
  BY DEF NoClose, OnlyLast

LEMMA NoCloseConcat ==
  ASSUME NEW p \in Seq(Messages), NEW q \in Seq(Messages), NoClose(p), NoClose(q)
  PROVE  NoClose(p \o q) /\ p \o q \in Seq(Messages)
  BY DEF NoClose

LEMMA NoCloseHead ==
  ASSUME NEW q \in Seq(Messages), q # <<>>, NoClose(q)
  PROVE  NoClose(Tail(q)) /\ Head(q).k # "close"
  BY DEF NoClose

LEMMA OnlyLastTail ==
  ASSUME NEW q \in Seq(Messages), q # <<>>, OnlyLast(q)
  PROVE  OnlyLast(Tail(q)) /\ (Head(q).k = "close" => Tail(q) = <<>>)
  BY DEF OnlyLast

LEMMA HeadTyped ==
  ASSUME NEW q \in Seq(Messages), q # <<>>
  PROVE  Head(q) \in Messages /\ Tail(q) \in Seq(Messages) /\ Head(q).d \in Seq(Nat)
  <1>1. Head(q) \in Messages /\ Tail(q) \in Seq(Messages)
    OBVIOUS
  <1> QED BY <1>1, MessageTyped, Zenon

LEMMA ConsTyped ==
  ASSUME NEW q \in Seq(Messages), NEW m \in Messages
  PROVE  <<m>> \o q \in Seq(Messages) /\ (m.k # "close" /\ NoClose(q) => NoClose(<<m>> \o q))
  BY DEF NoClose

LEMMA TookChain ==
  ASSUME NEW d \in Seq(Nat), NEW n \in Nat, Took(d, n), NEW rq, NEW tn, NEW ob, NEW f,
         Chain(got, d, rq, tn, ob, f)
  PROVE  Chain(got', rbuf', rq, tn, ob, f)
  <1>1. n = (IF Len(d) < n THEN Len(d) ELSE n)
    BY Zenon DEF Took
  <1>2. n <= Len(d)
    <2>1. Len(d) \in Nat
      OBVIOUS
    <2> QED BY <1>1, <2>1
  <1> QED BY <1>2, ChainTook, Zenon DEF Took

Lossless == ~(kind = "httpupgrade" /\ ~dials)

(* Handshakes.                                                             *)
LEMMA HsKeeps ==
  ASSUME Sound, hs # "done", UNCHANGED <<kind, dials, tput, obuf, tnet, rxq, rbuf, got, wst, rst>>
  PROVE  Sound'
  BY Zenon DEF Sound, StTypes, FlowInv, ShapeInv, CloseInv, EndInv, HsInv

LEMMA HandshakesKeep == ASSUME Sound, Handshakes PROVE Sound'
  <1>1. PICK k, to : \E from \in {"start", "asked"} : HsGoes(k, from, to)
    BY Zenon DEF Handshakes, WsDial, WsAccept, GrpcDial, GrpcTun, QuicDial, QuicAccept,
                 H2Dial, H2Accept, UpgradeDial, UpgradeAccept
  <1>2. hs # "done" /\ UNCHANGED <<kind, dials, tput, obuf, tnet, rxq, rbuf, got, wst, rst>>
    BY <1>1, Zenon DEF HsGoes
  <1> QED BY <1>2, HsKeeps, Zenon

LEMMA UpgradeDoneKeeps == ASSUME Sound, Lossless, NEW n, UpgradeDone(n) PROVE Sound'
  <1>1. hs # "done" /\ tput' = 0 /\ UNCHANGED <<kind, dials, obuf, tnet, rxq, rbuf, got, wst, rst>>
    BY Zenon DEF UpgradeDone, Lossless
  <1>2. tput = 0
    BY <1>1, Zenon DEF Sound, HsInv
  <1> QED BY <1>1, <1>2, HsKeeps, Zenon

(* Writes.                                                                 *)
LEMMA OpenNotEof ==
  ASSUME Sound, wst \in {"open", "pending"} PROVE rst # "eof"
  <1>1. wst \notin {"shut", "dropped", "broken"}
    OBVIOUS
  <1> QED BY <1>1, Zenon DEF Sound, EndInv, EndOk

LEMMA OpenFlow ==
  ASSUME Sound, wst # "broken" PROVE Chain(got, rbuf, rxq, tnet, obuf, tput)
  BY Zenon DEF Sound, FlowInv, Flow

LEMMA WholeFlow ==
  ASSUME NEW g, NEW rb, NEW rq, NEW tn, NEW ob, NEW t, NEW w, Chain(g, rb, rq, tn, ob, t)
  PROVE  Flow(g, rb, rq, tn, ob, t, w)
  <1>1. t \in Nat
    BY Zenon DEF Chain
  <1>2. t <= t
    BY <1>1
  <1> QED BY <1>1, <1>2, Zenon DEF Flow

LEMMA HeldKeeps ==
  ASSUME Sound, NEW m \in Nat, Held(m), kind \in {"ws", "grpc"} PROVE Sound'
  <1>1. /\ wst = "open" /\ hs = "done" /\ tput' = tput + m /\ obuf' = Append(obuf, Bin(tput, m))
        /\ UNCHANGED <<kind, dials, hs, rxq, rbuf, got, wst, rst, tnet>>
    BY Zenon DEF Held, Written
  <1>2. /\ tput \in Nat /\ rxq \in Seq(Messages) /\ tnet \in Seq(Messages) /\ obuf \in Seq(Messages)
        /\ NoClose(obuf)
    BY Zenon DEF Sound, StTypes, CloseInv, Closes
  <1>3. wst # "broken" /\ wst # "shut" /\ rst # "eof"
    BY <1>1, OpenNotEof
  <1>4. PICK b, t : b = Bin(tput, m) /\ t = tput + m
    BY Zenon
  <1>5. b \in Messages /\ Run(b.d, tput, t) /\ b.k # "close"
    BY <1>2, <1>4, BinIs, Zenon
  <1>6. t \in Nat
    BY <1>2, <1>4
  <1>7. NoClose(Append(obuf, b)) /\ Append(obuf, b) \in Seq(Messages)
    BY <1>2, <1>5, NoCloseAppend, Zenon
  <1>8. Flow(got, rbuf, rxq, tnet, Append(obuf, b), t, wst)
    BY <1>2, <1>3, <1>5, OpenFlow, ChainHold, WholeFlow, Zenon
  <1>9. StTypes' /\ FlowInv' /\ CloseInv'
    BY <1>1, <1>2, <1>4, <1>6, <1>7, <1>8, Zenon DEF Sound, StTypes, FlowInv, CloseInv, Closes
  <1>10. kind \notin {"quic", "httpupgrade", "h2"}
    OBVIOUS
  <1>11. ShapeInv'
    BY <1>1, <1>3, <1>10, Zenon DEF Sound, ShapeInv, Shape
  <1>12. EndInv' /\ HsInv'
    BY <1>1, <1>3, Zenon DEF EndInv, EndOk, HsInv
  <1> QED BY <1>9, <1>11, <1>12, Zenon DEF Sound

LEMMA SentKeeps ==
  ASSUME Sound, NEW m \in Nat, Sent(m), kind \in {"quic", "httpupgrade", "h2"} PROVE Sound'
  <1>1. /\ wst = "open" /\ hs = "done" /\ tput' = tput + m /\ tnet' = Append(tnet, Bin(tput, m))
        /\ UNCHANGED <<kind, dials, hs, rxq, rbuf, got, wst, rst, obuf>>
    BY Zenon DEF Sent, Written
  <1>2. /\ tput \in Nat /\ rxq \in Seq(Messages) /\ tnet \in Seq(Messages) /\ obuf \in Seq(Messages)
        /\ NoClose(obuf)
    BY Zenon DEF Sound, StTypes, CloseInv, Closes
  <1>3. wst # "broken" /\ wst # "shut" /\ rst # "eof"
    BY <1>1, OpenNotEof
  <1>13. obuf = <<>> /\ NoClose(tnet)
    BY <1>3, Zenon DEF Sound, ShapeInv, Shape, CloseInv, Closes
  <1>4. PICK b, t : b = Bin(tput, m) /\ t = tput + m
    BY Zenon
  <1>5. b \in Messages /\ Run(b.d, tput, t) /\ b.k # "close"
    BY <1>2, <1>4, BinIs, Zenon
  <1>6. t \in Nat
    BY <1>2, <1>4
  <1>7. NoClose(Append(tnet, b)) /\ Append(tnet, b) \in Seq(Messages) /\ OnlyLast(Append(tnet, b))
    BY <1>2, <1>5, <1>13, NoCloseAppend, NoCloseLast, Zenon
  <1>8. Flow(got, rbuf, rxq, Append(tnet, b), <<>>, t, wst)
    <2>1. Chain(got, rbuf, rxq, tnet, <<>>, tput)
      BY <1>3, <1>13, OpenFlow, Zenon
    <2> QED BY <1>2, <1>5, <2>1, ChainSent, WholeFlow, Zenon
  <1>9. StTypes' /\ FlowInv' /\ CloseInv'
    BY <1>1, <1>2, <1>4, <1>6, <1>7, <1>8, <1>13, Zenon DEF Sound, StTypes, FlowInv, CloseInv, Closes
  <1>11. ShapeInv'
    BY <1>1, Zenon DEF Sound, ShapeInv
  <1>12. EndInv' /\ HsInv'
    BY <1>1, <1>3, Zenon DEF EndInv, EndOk, HsInv
  <1> QED BY <1>9, <1>11, <1>12, Zenon DEF Sound

(* The writer's end changes.                                               *)
LEMMA WriterKeeps ==
  ASSUME Sound, wst \in {"open", "pending"}, wst' # "broken", (kind = "ws" => wst' # "shut"),
         UNCHANGED <<kind, dials, hs, tput, obuf, tnet, rxq, rbuf, got, rst>>
  PROVE  Sound'
  <1>1. wst # "broken" /\ wst # "shut" /\ rst # "eof"
    BY OpenNotEof
  <1>2. FlowInv'
    BY <1>1, OpenFlow, WholeFlow, Zenon DEF FlowInv
  <1>3. StTypes' /\ HsInv' /\ ShapeInv'
    BY Zenon DEF Sound, StTypes, HsInv, ShapeInv, Shape
  <1>4. CloseInv'
    BY <1>1, Zenon DEF Sound, CloseInv, Closes
  <1>5. EndInv'
    BY <1>1, Zenon DEF EndInv, EndOk
  <1> QED BY <1>2, <1>3, <1>4, <1>5, Zenon DEF Sound

(* The reader's end changes.                                               *)
LEMMA EndsKeeps ==
  ASSUME Sound, NEW how, Ends(how),
         how = "eof" => /\ wst \in {"shut", "dropped", "broken"}
                        /\ obuf = <<>> /\ tnet = <<>> /\ rxq = <<>>
  PROVE  Sound'
  <1>1. rbuf = <<>> /\ rst' = how /\ UNCHANGED <<kind, dials, hs, tput, obuf, tnet, rxq, rbuf, got, wst>>
    BY Zenon DEF Ends
  <1>2. StTypes' /\ HsInv' /\ ShapeInv' /\ FlowInv' /\ CloseInv'
    BY <1>1, Zenon DEF Sound, StTypes, HsInv, ShapeInv, FlowInv, CloseInv
  <1>3. ASSUME how = "eof", wst # "broken" PROVE Len(got) = tput
    <2>1. Chain(got, <<>>, <<>>, <<>>, <<>>, tput)
      BY <1>1, <1>3, OpenFlow, Zenon
    <2> QED BY <2>1, ChainAllRead, Zenon
  <1>4. EndInv'
    BY <1>1, <1>3, Zenon DEF EndInv, EndOk
  <1> QED BY <1>2, <1>4, Zenon DEF Sound

(* Messages move on, and bytes are read; the two ends stay as they are.    *)
LEMMA MoveKeeps ==
  ASSUME Sound, StTypes', ShapeInv', CloseInv',
         \A f \in Nat : Chain(got, rbuf, rxq, tnet, obuf, f) => Chain(got', rbuf', rxq', tnet', obuf', f),
         UNCHANGED <<kind, dials, hs, tput, wst, rst>>, got' = got \/ rst # "eof"
  PROVE  Sound'
  <1>1. FlowInv'
    BY Zenon DEF Sound, FlowInv, Flow
  <1>2. EndInv' /\ HsInv'
    BY Zenon DEF Sound, EndInv, EndOk, HsInv
  <1> QED BY <1>1, <1>2, Zenon DEF Sound

LEMMA SoundParts ==
  ASSUME Sound
  PROVE  /\ tput \in Nat /\ rxq \in Seq(Messages) /\ tnet \in Seq(Messages) /\ obuf \in Seq(Messages)
         /\ NoClose(obuf) /\ OnlyLast(tnet) /\ (~(kind = "ws" /\ wst = "shut") => NoClose(tnet))
         /\ kind # "grpc" => rxq = <<>>
         /\ kind \in {"quic", "httpupgrade", "h2"} => obuf = <<>>
         /\ kind \in Through => rbuf = <<>>
         /\ kind = "ws" /\ wst = "shut" => obuf = <<>>
  BY Zenon DEF Sound, StTypes, CloseInv, Closes, ShapeInv, Shape

LEMMA ReadsBufferKeeps == ASSUME Sound, NEW n \in Nat, ReadsBuffer(n) PROVE Sound'
  <1>1. /\ rst = "open" /\ Took(rbuf, n) /\ UNCHANGED <<kind, dials, hs, tput, obuf, tnet, rxq, wst, rst>>
        /\ kind \in {"ws", "grpc", "h2"}
    BY Zenon DEF ReadsBuffer, FromBuffer
  <1>2. kind \notin Through /\ rst # "eof"
    BY <1>1 DEF Through
  <1>3. StTypes' /\ CloseInv' /\ ShapeInv'
    BY <1>1, <1>2, Zenon DEF Sound, StTypes, CloseInv, ShapeInv, Shape
  <1>4. ASSUME NEW f \in Nat, Chain(got, rbuf, rxq, tnet, obuf, f)
        PROVE  Chain(got', rbuf', rxq', tnet', obuf', f)
    <2>1. rbuf \in Seq(Nat)
      <3>1. PICK a, b, c, e \in Nat : Links(got, rbuf, rxq, tnet, obuf, f, a, b, c, e)
        BY <1>4, Zenon DEF Chain
      <3> QED BY <3>1, RunLen, Zenon DEF Links
    <2>2. Chain(got', rbuf', rxq, tnet, obuf, f)
      BY <1>1, <1>4, <2>1, TookChain, Zenon
    <2> QED BY <1>1, <2>2, Zenon
  <1> QED BY <1>1, <1>2, <1>3, <1>4, MoveKeeps, Zenon

LEMMA WsFlushKeeps == ASSUME Sound, WsFlush PROVE Sound'
  <1>1. /\ kind = "ws" /\ obuf # <<>> /\ tnet' = tnet \o obuf /\ obuf' = <<>>
        /\ UNCHANGED <<kind, dials, hs, tput, rxq, rbuf, got, wst, rst>>
    BY Zenon DEF WsFlush
  <1>2. tput \in Nat /\ rxq \in Seq(Messages) /\ tnet \in Seq(Messages) /\ obuf \in Seq(Messages) /\ NoClose(obuf)
    BY SoundParts, Zenon
  <1>3. NoClose(tnet)
    BY <1>1, SoundParts, Zenon
  <1>4. NoClose(tnet \o obuf) /\ tnet \o obuf \in Seq(Messages) /\ OnlyLast(tnet \o obuf)
    BY <1>2, <1>3, NoCloseConcat, NoCloseLast, Zenon
  <1>5. StTypes' /\ CloseInv'
    BY <1>1, <1>2, <1>4, NoMessages, NoCloseEmpty, Zenon DEF StTypes, CloseInv, Closes
  <1>6. ShapeInv'
    BY <1>1, Zenon DEF Sound, ShapeInv, Shape
  <1>7. \A f \in Nat : Chain(got, rbuf, rxq, tnet, obuf, f) => Chain(got', rbuf', rxq', tnet', obuf', f)
    BY <1>1, <1>2, ChainFlush, Zenon
  <1> QED BY <1>1, <1>5, <1>6, <1>7, MoveKeeps, Zenon

LEMMA WsPingKeeps == ASSUME Sound, WsPing PROVE Sound'
  <1>1. /\ wst = "open" /\ tnet' = Append(tnet, Ping)
        /\ UNCHANGED <<kind, dials, hs, tput, obuf, rxq, rbuf, got, wst, rst>>
    BY Zenon DEF WsPing
  <1>2. tput \in Nat /\ rxq \in Seq(Messages) /\ tnet \in Seq(Messages) /\ obuf \in Seq(Messages) /\ NoClose(obuf)
    BY SoundParts, Zenon
  <1>3. NoClose(tnet)
    <2>1. wst # "shut"
      BY <1>1
    <2> QED BY <2>1, SoundParts, Zenon
  <1>4. NoClose(Append(tnet, Ping)) /\ Append(tnet, Ping) \in Seq(Messages) /\ OnlyLast(Append(tnet, Ping))
    BY <1>2, <1>3, ControlIs, NoCloseAppend, NoCloseLast, Zenon
  <1>5. StTypes' /\ CloseInv'
    BY <1>1, <1>2, <1>4, Zenon DEF StTypes, CloseInv, Closes
  <1>6. ShapeInv'
    BY <1>1, Zenon DEF Sound, ShapeInv
  <1>7. \A f \in Nat : Chain(got, rbuf, rxq, tnet, obuf, f) => Chain(got', rbuf', rxq', tnet', obuf', f)
    BY <1>1, <1>2, ControlIs, ChainPing, Zenon
  <1> QED BY <1>1, <1>5, <1>6, <1>7, MoveKeeps, Zenon

LEMMA WsShutdownKeeps == ASSUME Sound, WsShutdown PROVE Sound'
  <1>1. /\ kind = "ws" /\ wst = "open" /\ wst' = "shut" /\ tnet' = tnet \o Append(obuf, Closing) /\ obuf' = <<>>
        /\ UNCHANGED <<kind, dials, hs, tput, rxq, rbuf, got, rst>>
    BY Zenon DEF WsShutdown
  <1>2. tput \in Nat /\ rxq \in Seq(Messages) /\ tnet \in Seq(Messages) /\ obuf \in Seq(Messages) /\ NoClose(obuf)
    BY SoundParts, Zenon
  <1>3. wst # "shut" /\ wst # "broken" /\ rst # "eof" /\ kind # "grpc" /\ kind \notin Through
    BY <1>1, OpenNotEof DEF Through
  <1>4. NoClose(tnet)
    BY <1>3, SoundParts, Zenon
  <1>5. PICK q : q = tnet \o Append(obuf, Closing)
    BY Zenon
  <1>6. q = Append(tnet \o obuf, Closing)
    BY <1>2, <1>5, ControlIs
  <1>7. NoClose(tnet \o obuf) /\ tnet \o obuf \in Seq(Messages)
    BY <1>2, <1>4, NoCloseConcat, Zenon
  <1>8. OnlyLast(q) /\ q \in Seq(Messages)
    BY <1>6, <1>7, ControlIs, CloseAppend, Zenon
  <1>9. StTypes' /\ CloseInv'
    BY <1>1, <1>2, <1>5, <1>8, NoMessages, NoCloseEmpty, Zenon DEF StTypes, CloseInv, Closes
  <1>10. ShapeInv'
    BY <1>1, <1>3, SoundParts, Zenon DEF ShapeInv, Shape
  <1>11. Chain(got, rbuf, rxq, tnet \o obuf, <<>>, tput)
    BY <1>2, <1>3, OpenFlow, ChainFlush, Zenon
  <1>12. Chain(got, rbuf, rxq, q, <<>>, tput)
    BY <1>6, <1>7, <1>11, ControlIs, ChainPing, Zenon
  <1>13. FlowInv'
    BY <1>1, <1>5, <1>12, WholeFlow, Zenon DEF FlowInv
  <1>14. EndInv' /\ HsInv'
    BY <1>1, <1>3, Zenon DEF Sound, EndInv, EndOk, HsInv
  <1> QED BY <1>9, <1>10, <1>13, <1>14, Zenon DEF Sound

(* A read takes the next message from the network.                         *)
LEMMA NextMessage ==
  ASSUME Sound, kind # "grpc", rbuf = <<>>, tnet # <<>>,
         NEW f \in Nat, Chain(got, rbuf, rxq, tnet, obuf, f)
  PROVE  Chain(got, Head(tnet).d, rxq, Tail(tnet), obuf, f)
  <1>1. rxq = <<>> /\ tnet \in Seq(Messages)
    BY SoundParts, Zenon
  <1> QED BY <1>1, ChainHead, Zenon

LEMMA TailKeeps ==
  ASSUME Sound, tnet # <<>>, tnet' = Tail(tnet), UNCHANGED <<kind, tput, obuf, rxq, wst>>
  PROVE  StTypes' /\ CloseInv'
  <1>1. Tail(tnet) \in Seq(Messages) /\ OnlyLast(Tail(tnet)) /\ (NoClose(tnet) => NoClose(Tail(tnet)))
    BY SoundParts, HeadTyped, OnlyLastTail, NoCloseHead, Zenon
  <1> QED BY <1>1, SoundParts, Zenon DEF StTypes, CloseInv, Closes

LEMMA TakesMessage ==
  ASSUME Sound, kind \in {"ws", "h2"}, rst = "open", rbuf = <<>>, tnet # <<>>, tnet' = Tail(tnet),
         NEW n \in Nat, Took(Head(tnet).d, n),
         UNCHANGED <<kind, dials, hs, tput, obuf, rxq, wst, rst>>
  PROVE  Sound'
  <1>1. kind # "grpc" /\ kind \notin Through /\ rst # "eof"
    BY DEF Through
  <1>2. StTypes' /\ CloseInv'
    BY TailKeeps, Zenon
  <1>3. ShapeInv'
    BY <1>1, Zenon DEF Sound, ShapeInv, Shape
  <1>4. Head(tnet).d \in Seq(Nat)
    BY SoundParts, HeadTyped, Zenon
  <1>5. ASSUME NEW f \in Nat, Chain(got, rbuf, rxq, tnet, obuf, f)
        PROVE  Chain(got', rbuf', rxq', tnet', obuf', f)
    <2>1. Chain(got, Head(tnet).d, rxq, Tail(tnet), obuf, f)
      BY <1>1, <1>5, NextMessage, Zenon
    <2>2. Chain(got', rbuf', rxq, Tail(tnet), obuf, f)
      BY <1>4, <2>1, TookChain, Zenon
    <2> QED BY <2>2, Zenon
  <1> QED BY <1>1, <1>2, <1>3, <1>5, MoveKeeps, Zenon

LEMMA WsReadKeeps == ASSUME Sound, NEW n \in Nat, WsRead(n) PROVE Sound'
  <1>1. /\ kind = "ws" /\ rst = "open" /\ rbuf = <<>> /\ tnet # <<>> /\ tnet' = Tail(tnet)
        /\ UNCHANGED <<kind, dials, hs, tput, obuf, rxq, wst>>
    BY Zenon DEF WsRead
  <1>2. kind # "grpc" /\ rst # "eof" /\ kind \in {"ws", "h2"}
    BY <1>1
  <1>3. Head(tnet) \in Messages /\ tnet \in Seq(Messages)
    BY <1>1, SoundParts, HeadTyped, Zenon
  <1>4. Head(tnet).k \in {"bin", "ping", "close"} /\ (Head(tnet).k # "bin" => Head(tnet).d = <<>>)
    BY <1>3 DEF Messages, Payloads
  <1>5. StTypes' /\ CloseInv'
    BY <1>1, TailKeeps, Zenon
  <1>6. CASE Head(tnet).k = "bin"
    <2>1. Took(Head(tnet).d, n) /\ UNCHANGED rst
      BY <1>6, Zenon DEF WsRead
    <2> QED BY <1>1, <1>2, <2>1, TakesMessage, Zenon
  <1>7. CASE Head(tnet).k # "bin"
    <2>1. /\ UNCHANGED <<got, rbuf>>
          /\ (Head(tnet).k = "ping" /\ rst' = rst) \/ (Head(tnet).k = "close" /\ rst' = "eof")
      BY <1>4, <1>7 DEF WsRead
    <2>2. ASSUME NEW f \in Nat, Chain(got, rbuf, rxq, tnet, obuf, f)
          PROVE  Chain(got', rbuf', rxq', tnet', obuf', f)
      BY <1>1, <1>2, <1>4, <1>7, <2>1, <2>2, NextMessage, Zenon
    <2>3. ShapeInv'
      BY <1>1, <2>1, Zenon DEF Sound, ShapeInv
    <2>4. CASE rst' = rst
      BY <1>1, <1>5, <2>1, <2>2, <2>3, <2>4, MoveKeeps, Zenon
    <2>5. CASE Head(tnet).k = "close" /\ rst' = "eof"
      <3>1. wst = "shut" /\ obuf = <<>> /\ Tail(tnet) = <<>> /\ rxq = <<>>
        BY <1>1, <1>2, <1>3, <2>5, SoundParts, NoCloseHead, OnlyLastTail, Zenon
      <3>2. wst # "broken" /\ wst \in {"shut", "dropped", "broken"}
        BY <3>1
      <3>3. FlowInv'
        BY <1>1, <2>2, Zenon DEF Sound, FlowInv, Flow
      <3>4. tput \in Nat
        BY SoundParts, Zenon
      <3>5. Chain(got', rbuf', rxq', tnet', obuf', tput)
        BY <2>2, <3>2, <3>4, OpenFlow, Zenon
      <3>6. Len(got) = tput
        BY <1>1, <2>1, <3>1, <3>5, ChainAllRead, Zenon
      <3>7. EndInv' /\ HsInv'
        BY <1>1, <2>1, <3>2, <3>6, Zenon DEF Sound, EndInv, EndOk, HsInv
      <3> QED BY <1>5, <2>3, <3>3, <3>7, Zenon DEF Sound
    <2> QED BY <2>1, <2>4, <2>5, Zenon
  <1> QED BY <1>6, <1>7, Zenon

LEMMA GrpcForwardKeeps == ASSUME Sound, GrpcForward PROVE Sound'
  <1>1. /\ kind = "grpc" /\ obuf # <<>> /\ tnet' = Append(tnet, Head(obuf)) /\ obuf' = Tail(obuf)
        /\ UNCHANGED <<kind, dials, hs, tput, rxq, rbuf, got, wst, rst>>
    BY Zenon DEF GrpcForward
  <1>2. tput \in Nat /\ rxq \in Seq(Messages) /\ tnet \in Seq(Messages) /\ obuf \in Seq(Messages) /\ NoClose(obuf)
    BY SoundParts, Zenon
  <1>3. kind # "ws" /\ kind \notin {"quic", "httpupgrade", "h2"}
    BY <1>1
  <1>4. NoClose(tnet)
    BY <1>3, SoundParts, Zenon
  <1>5. Head(obuf) \in Messages /\ Tail(obuf) \in Seq(Messages) /\ NoClose(Tail(obuf)) /\ Head(obuf).k # "close"
    BY <1>1, <1>2, HeadTyped, NoCloseHead, Zenon
  <1>6. PICK q : q = Append(tnet, Head(obuf))
    BY Zenon
  <1>7. NoClose(q) /\ q \in Seq(Messages) /\ OnlyLast(q)
    BY <1>2, <1>4, <1>5, <1>6, NoCloseAppend, NoCloseLast, Zenon
  <1>8. StTypes' /\ CloseInv'
    BY <1>1, <1>2, <1>5, <1>6, <1>7, Zenon DEF StTypes, CloseInv, Closes
  <1>9. ShapeInv'
    BY <1>1, <1>3, Zenon DEF Sound, ShapeInv, Shape
  <1>10. \A f \in Nat : Chain(got, rbuf, rxq, tnet, obuf, f) => Chain(got', rbuf', rxq', tnet', obuf', f)
    BY <1>1, <1>2, ChainForward, Zenon
  <1> QED BY <1>1, <1>8, <1>9, <1>10, MoveKeeps, Zenon

LEMMA GrpcMessageKeeps == ASSUME Sound, GrpcMessage PROVE Sound'
  <1>1. /\ kind = "grpc" /\ tnet # <<>> /\ tnet' = Tail(tnet) /\ rxq' = Append(rxq, Head(tnet))
        /\ UNCHANGED <<kind, dials, hs, tput, obuf, rbuf, got, wst, rst>>
    BY Zenon DEF GrpcMessage
  <1>2. tput \in Nat /\ rxq \in Seq(Messages) /\ tnet \in Seq(Messages) /\ obuf \in Seq(Messages) /\ NoClose(obuf)
    BY SoundParts, Zenon
  <1>3. Head(tnet) \in Messages /\ Tail(tnet) \in Seq(Messages) /\ OnlyLast(Tail(tnet))
        /\ (NoClose(tnet) => NoClose(Tail(tnet)))
    BY <1>1, SoundParts, HeadTyped, OnlyLastTail, NoCloseHead, Zenon
  <1>4. Append(rxq, Head(tnet)) \in Seq(Messages)
    BY <1>2, <1>3
  <1>5. StTypes' /\ CloseInv'
    BY <1>1, <1>2, <1>3, <1>4, SoundParts, Zenon DEF StTypes, CloseInv, Closes
  <1>6. ShapeInv'
    BY <1>1, Zenon DEF Sound, ShapeInv, Shape
  <1>7. \A f \in Nat : Chain(got, rbuf, rxq, tnet, obuf, f) => Chain(got', rbuf', rxq', tnet', obuf', f)
    BY <1>1, <1>2, ChainMessage, Zenon
  <1> QED BY <1>1, <1>5, <1>6, <1>7, MoveKeeps, Zenon

LEMMA GrpcReadKeeps == ASSUME Sound, NEW n \in Nat, GrpcRead(n) PROVE Sound'
  <1>1. /\ kind = "grpc" /\ rst = "open" /\ rbuf = <<>> /\ rxq # <<>> /\ Took(Head(rxq).d, n) /\ rxq' = Tail(rxq)
        /\ UNCHANGED <<kind, dials, hs, tput, obuf, tnet, wst, rst>>
    BY Zenon DEF GrpcRead
  <1>2. rst # "eof" /\ kind \notin Through
    BY <1>1 DEF Through
  <1>3. Tail(rxq) \in Seq(Messages) /\ Head(rxq).d \in Seq(Nat) /\ rxq \in Seq(Messages)
    BY <1>1, SoundParts, HeadTyped, Zenon
  <1>4. StTypes' /\ CloseInv' /\ ShapeInv'
    BY <1>1, <1>2, <1>3, Zenon DEF Sound, StTypes, CloseInv, ShapeInv, Shape
  <1>5. ASSUME NEW f \in Nat, Chain(got, rbuf, rxq, tnet, obuf, f)
        PROVE  Chain(got', rbuf', rxq', tnet', obuf', f)
    <2>1. Chain(got, Head(rxq).d, Tail(rxq), tnet, obuf, f)
      BY <1>1, <1>3, <1>5, ChainQueueHead, Zenon
    <2>2. Chain(got', rbuf', Tail(rxq), tnet, obuf, f)
      BY <1>1, <1>3, <2>1, TookChain, Zenon
    <2> QED BY <1>1, <2>2, Zenon
  <1> QED BY <1>1, <1>2, <1>4, <1>5, MoveKeeps, Zenon

LEMMA GrpcBrokenKeeps == ASSUME Sound, GrpcBroken PROVE Sound'
  <1>1. /\ kind = "grpc" /\ wst = "open" /\ wst' = "broken" /\ tnet' = <<>> /\ obuf' = <<>>
        /\ UNCHANGED <<kind, dials, hs, tput, rxq, rbuf, got, rst>>
    BY Zenon DEF GrpcBroken
  <1>2. wst # "broken" /\ rst # "eof" /\ kind # "ws"
    BY <1>1, OpenNotEof
  <1>3. StTypes' /\ CloseInv'
    BY <1>1, SoundParts, NoMessages, NoCloseEmpty, Zenon DEF StTypes, CloseInv, Closes
  <1>4. ShapeInv'
    BY <1>1, <1>2, SoundParts, Zenon DEF ShapeInv, Shape
  <1>5. PICK h \in Nat : h <= tput /\ Chain(got, rbuf, rxq, <<>>, <<>>, h)
    BY <1>2, OpenFlow, ChainBroken, Zenon
  <1>6. FlowInv'
    BY <1>1, <1>5, Zenon DEF FlowInv, Flow
  <1>7. EndInv' /\ HsInv'
    BY <1>1, <1>2, Zenon DEF Sound, EndInv, EndOk, HsInv
  <1> QED BY <1>3, <1>4, <1>6, <1>7, Zenon DEF Sound

LEMMA QuicReadKeeps == ASSUME Sound, NEW n \in Nat \ {0}, QuicRead(n) PROVE Sound'
  <1>1. /\ kind \in Through /\ rst = "open" /\ tnet # <<>> /\ n <= Len(Head(tnet).d)
        /\ got' = got \o SubSeq(Head(tnet).d, 1, n)
        /\ tnet' = IF n = Len(Head(tnet).d) THEN Tail(tnet)
                   ELSE <<[Head(tnet) EXCEPT !.d = SubSeq(@, n + 1, Len(@))]>> \o Tail(tnet)
        /\ UNCHANGED <<kind, dials, hs, tput, obuf, rxq, rbuf, wst, rst>>
    BY Zenon DEF QuicRead
  <1>2. rst # "eof" /\ kind # "grpc" /\ kind # "ws" /\ n \in Nat
    BY <1>1 DEF Through
  <1>3. rbuf = <<>> /\ rxq = <<>> /\ tnet \in Seq(Messages) /\ NoClose(tnet)
    BY <1>1, <1>2, SoundParts, Zenon
  <1>4. PICK m, t : m = Head(tnet) /\ t = Tail(tnet)
    BY Zenon
  <1>5. m \in Messages /\ t \in Seq(Messages) /\ m.d \in Seq(Nat) /\ NoClose(t) /\ m.k # "close" /\ n <= Len(m.d)
    BY <1>1, <1>3, <1>4, HeadTyped, NoCloseHead, Zenon
  <1>6. ASSUME NEW f \in Nat, Chain(got, rbuf, rxq, tnet, obuf, f)
        PROVE  Chain(got', LeftOver(m.d, n), <<>>, t, obuf, f)
    <2>1. Chain(got, m.d, <<>>, t, obuf, f)
      BY <1>1, <1>2, <1>3, <1>4, <1>6, NextMessage, Zenon
    <2>2. Chain(got \o SubSeq(m.d, 1, n), LeftOver(m.d, n), <<>>, t, obuf, f)
      BY <1>2, <1>5, <2>1, ChainTook, Zenon
    <2> QED BY <1>1, <1>4, <2>2, Zenon
  <1>7. ShapeInv'
    BY <1>1, Zenon DEF Sound, ShapeInv
  <1>8. CASE n = Len(m.d)
    <2>1. tnet' = t
      BY <1>1, <1>4, <1>8, Zenon
    <2>2. LeftOver(m.d, n) = <<>>
      BY <1>5, <1>8 DEF LeftOver
    <2>3. StTypes' /\ CloseInv'
      BY <1>1, <1>4, <2>1, TailKeeps, Zenon
    <2>4. \A f \in Nat : Chain(got, rbuf, rxq, tnet, obuf, f) => Chain(got', rbuf', rxq', tnet', obuf', f)
      BY <1>1, <1>3, <1>6, <2>1, <2>2, Zenon
    <2> QED BY <1>1, <1>2, <1>7, <2>3, <2>4, MoveKeeps, Zenon
  <1>9. CASE n # Len(m.d)
    <2>1. PICK r : r = [m EXCEPT !.d = SubSeq(@, n + 1, Len(@))]
      BY Zenon
    <2>2. tnet' = <<r>> \o t
      BY <1>1, <1>4, <1>9, <2>1, Zenon
    <2>3. r \in Messages /\ r.d = LeftOver(m.d, n) /\ r.k # "close"
      BY <1>5, <2>1, RestIs, Zenon
    <2>4. <<r>> \o t \in Seq(Messages) /\ NoClose(<<r>> \o t) /\ OnlyLast(<<r>> \o t)
      BY <1>5, <2>3, ConsTyped, NoCloseLast, Zenon
    <2>5. StTypes' /\ CloseInv'
      BY <1>1, <2>2, <2>4, SoundParts, Zenon DEF StTypes, CloseInv, Closes
    <2>6. \A f \in Nat : Chain(got, rbuf, rxq, tnet, obuf, f) => Chain(got', <<>>, <<>>, <<r>> \o t, obuf, f)
      BY <1>5, <1>6, <2>3, ChainBack, Zenon
    <2>7. \A f \in Nat : Chain(got, rbuf, rxq, tnet, obuf, f) => Chain(got', rbuf', rxq', tnet', obuf', f)
      BY <1>1, <1>3, <2>2, <2>6, Zenon
    <2> QED BY <1>1, <1>2, <1>7, <2>5, <2>7, MoveKeeps, Zenon
  <1> QED BY <1>8, <1>9, Zenon

(* Where nothing is given up, the invariant holds.                         *)
StInv == Lossless => Sound

LEMMA StInvInit == ASSUME StInit PROVE StInv
  <1>1. /\ tput = 0 /\ obuf = <<>> /\ tnet = <<>> /\ rxq = <<>> /\ rbuf = <<>> /\ got = <<>>
        /\ rst = "open"
    BY Zenon DEF StInit
  <1>2. Run(<<>>, 0, 0) /\ Carries(<<>>, 0, 0) /\ 0 \in Nat
    BY RunEmpty, CarriesEmpty
  <1>3. Chain(<<>>, <<>>, <<>>, <<>>, <<>>, 0)
    BY <1>2, ChainLinks, Zenon
  <1>4. FlowInv
    BY <1>1, <1>3, WholeFlow, Zenon DEF FlowInv
  <1>5. StTypes /\ ShapeInv /\ CloseInv /\ HsInv
    BY <1>1, <1>2, NoMessages, NoCloseEmpty, Zenon DEF StTypes, ShapeInv, Shape, CloseInv, Closes, HsInv
  <1>6. EndInv
    BY <1>1 DEF EndInv, EndOk
  <1> QED BY <1>4, <1>5, <1>6, Zenon DEF StInv, Sound

LEMMA WritesAndReads ==
  ASSUME Sound, NEW m \in 1 .. StMaxMsg,
         \/ WsWrite(m) \/ GrpcWrite(m) \/ ThroughWrite(m) \/ H2Write(m)
         \/ ReadsBuffer(m) \/ WsRead(m) \/ GrpcRead(m) \/ QuicRead(m) \/ H2Read(m)
  PROVE  Sound'
  <1>1. m \in Nat /\ m \in Nat \ {0}
    BY StConstants
  <1>2. CASE WsWrite(m) \/ GrpcWrite(m)
    <2>1. Held(m) /\ kind \in {"ws", "grpc"}
      BY <1>2, Zenon DEF WsWrite, GrpcWrite
    <2> QED BY <1>1, <2>1, HeldKeeps, Zenon
  <1>3. CASE ThroughWrite(m) \/ H2Write(m)
    <2>1. Sent(m) /\ kind \in {"quic", "httpupgrade", "h2"}
      BY <1>3, Zenon DEF ThroughWrite, H2Write, Through
    <2> QED BY <1>1, <2>1, SentKeeps, Zenon
  <1>4. CASE ReadsBuffer(m) \/ WsRead(m) \/ GrpcRead(m) \/ QuicRead(m)
    BY <1>1, <1>4, ReadsBufferKeeps, WsReadKeeps, GrpcReadKeeps, QuicReadKeeps, Zenon
  <1>5. CASE H2Read(m)
    <2>1. /\ kind \in {"ws", "h2"} /\ rst = "open" /\ rbuf = <<>> /\ tnet # <<>> /\ tnet' = Tail(tnet)
          /\ Took(Head(tnet).d, m) /\ UNCHANGED <<kind, dials, hs, tput, obuf, rxq, wst, rst>>
      BY <1>5, Zenon DEF H2Read
    <2> QED BY <1>1, <2>1, TakesMessage, Zenon
  <1> QED BY <1>2, <1>3, <1>4, <1>5, Zenon

LEMMA WriterEnds ==
  ASSUME Sound, GrpcDrop \/ ThroughShutdown \/ H2WritePends \/ H2Shutdown
  PROVE  Sound'
  <1>1. UNCHANGED <<kind, dials, hs, tput, obuf, tnet, rxq, rbuf, got, rst>>
    BY Zenon DEF GrpcDrop, ThroughShutdown, H2WritePends, H2Shutdown
  <1>2. wst \in {"open", "pending"} /\ wst' \in {"dropped", "shut", "pending"}
    BY Zenon DEF GrpcDrop, ThroughShutdown, H2WritePends, H2Shutdown
  <1>3. kind \in {"grpc", "quic", "httpupgrade", "h2"}
    BY Zenon DEF GrpcDrop, ThroughShutdown, H2WritePends, H2Shutdown, Through
  <1>4. wst' # "broken" /\ kind # "ws"
    BY <1>2, <1>3
  <1> QED BY <1>1, <1>2, <1>4, WriterKeeps, Zenon

LEMMA ReaderEnds ==
  ASSUME Sound, WsBroken \/ GrpcEof \/ QuicEof \/ H2Eof
  PROVE  Sound'
  <1>1. CASE WsBroken
    <2>1. Ends("err") /\ "err" # "eof"
      BY <1>1, Zenon DEF WsBroken
    <2> QED BY <2>1, EndsKeeps, Zenon
  <1>2. CASE GrpcEof
    <2>1. /\ Ends("eof") /\ wst \in {"dropped", "broken"} /\ obuf = <<>> /\ tnet = <<>> /\ rxq = <<>>
      BY <1>2, Zenon DEF GrpcEof
    <2>2. wst \in {"shut", "dropped", "broken"}
      BY <2>1
    <2> QED BY <2>1, <2>2, EndsKeeps, Zenon
  <1>3. CASE QuicEof \/ H2Eof
    <2>1. /\ Ends("eof") /\ wst = "shut" /\ tnet = <<>> /\ kind \in {"quic", "httpupgrade", "h2"}
      BY <1>3, Zenon DEF QuicEof, H2Eof, Through
    <2>2. wst \in {"shut", "dropped", "broken"} /\ kind # "grpc"
      BY <2>1
    <2>3. obuf = <<>> /\ rxq = <<>>
      BY <2>1, <2>2, SoundParts, Zenon
    <2> QED BY <2>1, <2>2, <2>3, EndsKeeps, Zenon
  <1> QED BY <1>1, <1>2, <1>3, Zenon

LEMMA SoundNext == ASSUME Sound, Lossless, StNext PROVE Sound'
  <1>1. CASE Handshakes \/ \E n \in 0 .. 1 : UpgradeDone(n)
    BY <1>1, HandshakesKeep, UpgradeDoneKeeps, Zenon
  <1>2. CASE WsFlush \/ WsShutdown \/ WsPing
    BY <1>2, WsFlushKeeps, WsShutdownKeeps, WsPingKeeps, Zenon
  <1>3. CASE GrpcForward \/ GrpcMessage \/ GrpcBroken
    BY <1>3, GrpcForwardKeeps, GrpcMessageKeeps, GrpcBrokenKeeps, Zenon
  <1>4. CASE GrpcDrop \/ ThroughShutdown \/ H2WritePends \/ H2Shutdown
    BY <1>4, WriterEnds, Zenon
  <1>5. CASE WsBroken \/ GrpcEof \/ QuicEof \/ H2Eof
    BY <1>5, ReaderEnds, Zenon
  <1>6. CASE \E m \in 1 .. StMaxMsg : \/ WsWrite(m) \/ GrpcWrite(m) \/ ThroughWrite(m)
                                      \/ H2Write(m)
                                      \/ ReadsBuffer(m) \/ WsRead(m) \/ GrpcRead(m)
                                      \/ QuicRead(m) \/ H2Read(m)
    BY <1>6, WritesAndReads, Zenon
  <1> QED BY <1>1, <1>2, <1>3, <1>4, <1>5, <1>6, Zenon DEF StNext

LEMMA SameEnds == ASSUME StNext PROVE UNCHANGED <<kind, dials>>
  BY Zenon DEF StNext, Handshakes, WsDial, WsAccept, GrpcDial, GrpcTun, QuicDial, QuicAccept,
     H2Dial, H2Accept, UpgradeDial, UpgradeAccept, HsGoes, UpgradeDone, WsFlush, WsShutdown, WsPing,
     WsBroken, GrpcForward, GrpcMessage, GrpcDrop, GrpcBroken, GrpcEof, ThroughShutdown, QuicEof,
     H2WritePends, H2Shutdown, H2Eof, WsWrite, GrpcWrite, ThroughWrite, H2Write, Held, Sent, Written,
     ReadsBuffer, FromBuffer, WsRead, GrpcRead, QuicRead, H2Read, Ends

LEMMA StInvNext == ASSUME StInv, [StNext]_stVars PROVE StInv'
  <1>1. CASE StNext
    <2>1. UNCHANGED <<kind, dials>>
      BY <1>1, SameEnds, Zenon
    <2>2. Lossless' => Lossless
      BY <2>1, Zenon DEF Lossless
    <2> QED BY <1>1, <2>2, SoundNext, Zenon DEF StInv
  <1>2. CASE UNCHANGED stVars
    <2>1. UNCHANGED <<kind, dials, hs, tput, obuf, tnet, rxq, rbuf, got, wst, rst>>
      BY <1>2, Zenon DEF stVars
    <2> QED BY <2>1, Zenon DEF StInv, Lossless, Sound, StTypes, FlowInv, ShapeInv, CloseInv, EndInv, HsInv
  <1> QED BY <1>1, <1>2, Zenon

LEMMA StInvInOrder == ASSUME StInv PROVE TransportInOrder
  <1>1. ASSUME Sound PROVE got = [i \in 1 .. Len(got) |-> i]
    BY <1>1, ChainRead, Zenon DEF Sound, FlowInv, Flow
  <1> QED BY <1>1, Zenon DEF StInv, Lossless, TransportInOrder, Sound, EndInv, EndOk

(* The connections of the stream transports (WsConnection, HunkConn,       *)
(* QuicStream, H2Stream, the TcpStream behind HttpUpgrade) deliver the     *)
(* bytes written in order from the first, whatever the sizes of writes and *)
(* of the reader's buffers, and report the end of the stream only when     *)
(* every byte was read; the two places where the code gives that up, an    *)
(* accepting HttpUpgrade end that writes ahead and an error of a gRPC      *)
(* stream, are left out by the property itself.                            *)
THEOREM TransportsKeepOrder == StSpec => []TransportInOrder
  <1>1. StInit => StInv
    BY StInvInit
  <1>2. StInv /\ [StNext]_stVars => StInv'
    BY StInvNext
  <1>3. StInv => TransportInOrder
    BY StInvInOrder
  <1> QED BY <1>1, <1>2, <1>3, PTL DEF StSpec
=============================================================================
