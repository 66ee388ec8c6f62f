---------------------------- MODULE MuxDialProofs ----------------------------
(***************************************************************************)
(* Safety of dial_mux for any number of dialers and connections and any    *)
(* max_concurrency: the invariant ClientsRunOut of MuxDial.                *)
(***************************************************************************)
EXTENDS MuxDial, TLAPS

(* A dialer that has made a client keeps it to itself until Publish; it is *)
(* about to insert a session in "opening" and "inserting".                 *)
Private(d) == dialpc[d] \in {"first", "inserting", "publish"}
Holding(d) == Private(d) \/ dialpc[d] = "opening"
Inserting(d) == dialpc[d] \in {"opening", "inserting"}

(* Whoever opens a session on the slot's client holds the lock, and the    *)
(* client is the slot's; nobody else works on a private client, which is   *)
(* empty until its creator inserts the first session.                      *)
SlotInv ==
    /\ \A d \in Dialers : dialpc[d] = "opening" => lock = d /\ cl[d] = mux_client
    /\ \A d \in Dialers : Holding(d) => cl[d] # None
    /\ \A d \in Dialers : Private(d) => cl[d] # mux_client
    /\ \A d, e \in Dialers : Private(d) /\ Holding(e) /\ d # e => cl[d] # cl[e]

(* A dead client's table only grows, by one for every late stream; a       *)
(* closed table is empty as long as a session is still being inserted.     *)
TablesInv ==
    /\ \A c \in Clients : size[c] <= DialConcurrency
    /\ \A c \in Clients : c > made => size[c] = 0
    /\ \A d \in Dialers : dialpc[d] \in {"first", "inserting"} => size[cl[d]] = 0
    /\ \A c \in Clients : late[c] <= size[c] /\ (c \notin dead => late[c] = 0)
    /\ \A c \in tableClosed : size[c] <= 1
    /\ \A d \in Dialers : Inserting(d) /\ cl[d] \in tableClosed => size[cl[d]] = 0

DialInv == DialTypeOK /\ SlotInv /\ TablesInv

LEMMA DialInitInv == DialInit => DialInv
  BY DialConstants DEF DialInit, DialInv, DialTypeOK, SlotInv, TablesInv, PCs, Clients, None,
     Private, Holding, Inserting

(* Nobody else works on a client a session is being inserted into.         *)
LEMMA OnlyInserter ==
  ASSUME DialInv, NEW d \in Dialers, Inserting(d), NEW e \in Dialers, Holding(e), e # d
  PROVE  cl[e] # cl[d]
  BY DEF DialInv, SlotInv, Private, Holding, Inserting

LEMMA Counters ==
  ASSUME DialInv, NEW c \in Clients
  PROVE  size[c] \in Nat /\ late[c] \in 0 .. MaxLateGets /\ made \in 0 .. MaxClients
  BY DEF DialInv, DialTypeOK

(* A session is inserted, under the lock or by the client's creator.       *)
LEMMA SessionInserted ==
  ASSUME DialInv, NEW d \in Dialers, Inserting(d), NEW w \in {"start", "publish"}, Goto(d, w),
         size[cl[d]] < DialConcurrency, size' = [size EXCEPT ![cl[d]] = @ + 1],
         CountLate(cl[d]), UNCHANGED <<cl, made, tableClosed, dead>>
  PROVE  /\ size' \in [Clients -> Nat] /\ late' \in [Clients -> 0 .. MaxLateGets]
         /\ dialpc' \in [Dialers -> PCs] /\ TablesInv'
  <1>1. PICK k \in Clients : k = cl[d] /\ k <= made
    BY DialConstants DEF DialInv, DialTypeOK, SlotInv, Holding, Private, Inserting, Clients, None
  <1>2. /\ size' \in [Clients -> Nat] /\ size'[k] = size[k] + 1
        /\ \A c \in Clients : c # k => size'[c] = size[c]
    BY <1>1 DEF DialInv, DialTypeOK
  <1>3. /\ late' \in [Clients -> 0 .. MaxLateGets]
        /\ late'[k] = IF k \in dead THEN late[k] + 1 ELSE late[k]
        /\ \A c \in Clients : c # k => late'[c] = late[c]
    BY <1>1, Counters, DialConstants DEF CountLate, DialInv, DialTypeOK
  <1>4. dialpc' \in [Dialers -> PCs] /\ dialpc'[d] = w /\ \A e \in Dialers : e # d => dialpc'[e] = dialpc[e]
    BY DEF Goto, DialInv, DialTypeOK, PCs
  <1>5. ASSUME NEW e \in Dialers, Inserting(e)' \/ dialpc'[e] = "first"
        PROVE  e # d /\ cl[e] # k /\ cl[e] \in Clients
    <2>1. e # d /\ Holding(e)
      BY <1>4, <1>5 DEF Holding, Private, Inserting
    <2>2. cl[e] # None /\ cl[e] \in 0 .. made /\ made \in 0 .. MaxClients
      BY <2>1 DEF DialInv, DialTypeOK, SlotInv
    <2>3. cl[e] \in Clients
      BY <2>2, DialConstants DEF Clients, None
    <2> QED BY <1>1, <2>1, <2>3, OnlyInserter
  <1>6. k \in tableClosed => size[k] = 0
    BY <1>1 DEF DialInv, TablesInv
  <1>7. \A c \in Clients : size'[c] <= DialConcurrency /\ (c > made => size'[c] = 0)
    <2>1. ASSUME NEW c \in Clients, c # k PROVE size'[c] <= DialConcurrency /\ (c > made => size'[c] = 0)
      BY <1>2, <2>1 DEF DialInv, TablesInv
    <2>2. size'[k] <= DialConcurrency /\ ~(k > made)
      BY <1>1, <1>2, Counters, DialConstants DEF Clients
    <2> QED BY <2>1, <2>2
  <1>8. \A e \in Dialers : dialpc'[e] \in {"first", "inserting"} => size'[cl[e]] = 0
    BY <1>2, <1>4, <1>5 DEF DialInv, TablesInv, Inserting
  <1>9. \A c \in Clients : late'[c] <= size'[c] /\ (c \notin dead => late'[c] = 0)
    BY <1>2, <1>3, Counters DEF DialInv, TablesInv
  <1>10. \A c \in tableClosed : size'[c] <= 1
    BY <1>2, <1>6 DEF DialInv, DialTypeOK, TablesInv, Clients
  <1>11. \A e \in Dialers : Inserting(e)' /\ cl[e] \in tableClosed => size'[cl[e]] = 0
    BY <1>2, <1>4, <1>5 DEF DialInv, TablesInv, Inserting
  <1> QED BY <1>2, <1>3, <1>4, <1>7, <1>8, <1>9, <1>10, <1>11 DEF TablesInv

LEMMA OpenSessionStep == ASSUME DialInv, NEW d \in Dialers, OpenSession(d) PROVE DialInv'
  <1>1. cl[d] \in Clients
    BY DialConstants DEF OpenSession, DialInv, DialTypeOK, SlotInv, Holding, Clients, None
  <1>2. size[cl[d]] < DialConcurrency
    BY <1>1, Counters, DialConstants DEF OpenSession, ClientFull
  <1>3. /\ size' \in [Clients -> Nat] /\ late' \in [Clients -> 0 .. MaxLateGets]
        /\ dialpc' \in [Dialers -> PCs] /\ TablesInv'
    BY <1>2, SessionInserted DEF OpenSession, Inserting
  <1>4. DialTypeOK'
    BY <1>3 DEF OpenSession, DialInv, DialTypeOK
  <1>5. SlotInv'
    BY DEF OpenSession, Goto, DialInv, DialTypeOK, SlotInv, Private, Holding
  <1> QED BY <1>3, <1>4, <1>5 DEF DialInv

LEMMA FirstSessionStep == ASSUME DialInv, NEW d \in Dialers, FirstSession(d) PROVE DialInv'
  <1>1. size[cl[d]] < DialConcurrency
    BY DialConstants DEF FirstSession, DialInv, TablesInv
  <1>2. /\ size' \in [Clients -> Nat] /\ late' \in [Clients -> 0 .. MaxLateGets]
        /\ dialpc' \in [Dialers -> PCs] /\ TablesInv'
    BY <1>1, SessionInserted DEF FirstSession, Inserting
  <1>3. DialTypeOK'
    BY <1>2 DEF FirstSession, DialInv, DialTypeOK
  <1>4. SlotInv'
    BY DEF FirstSession, Goto, DialInv, DialTypeOK, SlotInv, Private, Holding
  <1> QED BY <1>2, <1>3, <1>4 DEF DialInv

(* A new connection: no dialer and not the slot names its client yet.      *)
LEMMA TransportUpStep == ASSUME DialInv, NEW d \in Dialers, TransportUp(d) PROVE DialInv'
  <1>1. PICK n \in Clients : n = made + 1 /\ made' = n
    BY DialConstants DEF TransportUp, DialInv, DialTypeOK, Clients
  <1>2. /\ cl' \in [Dialers -> 0 .. n] /\ cl'[d] = n
        /\ \A e \in Dialers : e # d => cl'[e] = cl[e] /\ cl[e] \in 0 .. made
    BY <1>1 DEF TransportUp, DialInv, DialTypeOK, Clients
  <1>3. /\ dialpc' \in [Dialers -> PCs] /\ dialpc[d] = "dialing" /\ dialpc'[d] = "first"
        /\ \A e \in Dialers : e # d => dialpc'[e] = dialpc[e]
    BY DEF TransportUp, Goto, DialInv, DialTypeOK, PCs
  <1>4. UNCHANGED <<mux_client, lock, size, tableClosed, dead, late>>
    BY DEF TransportUp
  <1>5. /\ mux_client \in 0 .. made /\ made \in Nat /\ tableClosed \subseteq 1 .. made
        /\ size \in [Clients -> Nat]
    BY DEF DialInv, DialTypeOK
  <1>6. DialTypeOK'
    <2>1. made' \in 0 .. MaxClients /\ 0 .. made \subseteq 0 .. n /\ 1 .. made \subseteq 1 .. n
      BY <1>1, <1>5, DialConstants DEF Clients
    <2> QED BY <1>1, <1>2, <1>3, <1>4, <2>1 DEF DialInv, DialTypeOK
  <1>7. SlotInv'
    BY <1>1, <1>2, <1>3, <1>4, <1>5 DEF DialInv, SlotInv, Private, Holding, None
  <1>8. TablesInv'
    <2>1. \A c \in Clients : c > n => size[c] = 0
      BY <1>1, <1>5 DEF DialInv, TablesInv, Clients
    <2>2. size[n] = 0 /\ n \notin tableClosed
      BY <1>1, <1>5 DEF DialInv, TablesInv
    <2> QED BY <1>1, <1>2, <1>3, <1>4, <2>1, <2>2 DEF DialInv, TablesInv, Inserting
  <1> QED BY <1>6, <1>7, <1>8 DEF DialInv

(* The other steps of a dialer leave the tables alone.                     *)
LEMMA DialerSteps ==
  ASSUME DialInv, NEW d \in Dialers,
         \/ DialNoClient(d) \/ DialClient(d) \/ OpenFull(d) \/ TransportFails(d)
         \/ FirstRefused(d) \/ FirstChecked(d) \/ Publish(d)
  PROVE  DialInv'
  <1> USE DEF DialNoClient, DialClient, OpenFull, TransportFails, FirstRefused, FirstChecked, Publish, Goto
  <1>1. UNCHANGED <<made, size, tableClosed, dead, late>>
    OBVIOUS
  <1>2. /\ dialpc' \in [Dialers -> PCs] /\ cl' \in [Dialers -> 0 .. made]
        /\ \A e \in Dialers : e # d => dialpc'[e] = dialpc[e] /\ cl'[e] = cl[e]
    BY DEF DialInv, DialTypeOK, PCs
  <1>3. lock' \in Dialers \cup {None} /\ mux_client' \in 0 .. made
    BY DEF DialInv, DialTypeOK
  <1>4. DialTypeOK'
    BY <1>1, <1>2, <1>3 DEF DialInv, DialTypeOK
  <1>5. SlotInv'
    <2> USE DEF DialInv, DialTypeOK, SlotInv, Private, Holding
    <2>1. CASE DialNoClient(d) \/ OpenFull(d) \/ TransportFails(d) \/ FirstRefused(d)
      <3>1. dialpc'[d] \in {"start", "dialing"} /\ UNCHANGED <<mux_client, cl>>
        BY <2>1
      <3>2. lock' = lock \/ lock = d
        BY <2>1
      <3> QED BY <1>2, <3>1, <3>2
    <2>2. CASE FirstChecked(d)
      BY <2>2
    <2>3. CASE DialClient(d)
      <3>1. lock = None /\ lock' = d /\ cl'[d] = mux_client /\ mux_client # None
            /\ dialpc'[d] = "opening" /\ UNCHANGED mux_client
        BY <2>3
      <3>2. \A e \in Dialers : dialpc[e] # "opening"
        BY <3>1, DialConstants
      <3> QED BY <1>2, <3>1, <3>2
    <2>4. CASE Publish(d)
      <3>1. lock = None /\ mux_client' = cl[d] /\ Private(d) /\ dialpc'[d] = "start" /\ UNCHANGED <<lock, cl>>
        BY <2>4
      <3>2. \A e \in Dialers : dialpc[e] # "opening"
        BY <3>1, DialConstants
      <3> QED BY <1>2, <3>1, <3>2
    <2> QED BY <2>1, <2>2, <2>3, <2>4
  <1>6. \/ dialpc'[d] \in {"start", "dialing"}
        \/ dialpc'[d] \in {"opening", "inserting"} /\ cl'[d] \notin tableClosed
           /\ (dialpc'[d] = "inserting" => dialpc[d] = "first" /\ cl'[d] = cl[d])
    BY DEF DialInv, DialTypeOK
  <1>7. TablesInv'
    BY <1>1, <1>2, <1>6 DEF DialInv, TablesInv, Inserting
  <1> QED BY <1>4, <1>5, <1>7 DEF DialInv

LEMMA ClientSteps ==
  ASSUME DialInv, NEW c \in Clients, PeerEnds(c) \/ ClientDies(c) \/ MonitorCloses(c)
  PROVE  DialInv'
  <1>1. UNCHANGED <<mux_client, lock, dialpc, cl, made>>
    BY DEF PeerEnds, ClientDies, MonitorCloses
  <1>2. SlotInv'
    BY <1>1 DEF DialInv, SlotInv, Private, Holding
  <1>3. CASE PeerEnds(c)
    <2>1. /\ c \notin dead /\ size' \in [Clients -> Nat] /\ size'[c] = size[c] - 1
          /\ \A k \in Clients : k # c => size'[k] = size[k]
          /\ size[c] > 0 /\ size[c] \in Nat /\ UNCHANGED <<tableClosed, dead, late>>
      BY <1>3, Counters DEF PeerEnds, DialInv, DialTypeOK
    <2>2. DialTypeOK'
      BY <1>1, <2>1 DEF DialInv, DialTypeOK
    <2>3. TablesInv'
      <3>1. \A k \in Clients : size'[k] <= size[k] /\ (size[k] = 0 => size'[k] = 0)
        BY <2>1, Counters
      <3>2. \A k \in Clients : size[k] <= DialConcurrency /\ (k > made => size[k] = 0)
        BY DEF DialInv, TablesInv
      <3>6. \A k \in Clients : size'[k] <= DialConcurrency /\ (k > made => size'[k] = 0)
        <4> TAKE k \in Clients
        <4>1. size[k] \in Nat /\ size'[k] \in Nat /\ DialConcurrency \in Nat
          BY <2>1, Counters, DialConstants
        <4> QED BY <3>1, <3>2, <4>1
      <3>3. \A k \in Clients : late[k] <= size'[k]
        BY <2>1, Counters DEF DialInv, TablesInv
      <3>4. \A k \in tableClosed : k \in Clients /\ size'[k] <= 1
        <4>1. tableClosed \subseteq 1 .. made /\ made \in 0 .. MaxClients
          BY DEF DialInv, DialTypeOK
        <4>2. tableClosed \subseteq Clients
          BY <4>1, DialConstants DEF Clients
        <4>3. \A k \in tableClosed : size[k] <= 1
          BY DEF DialInv, TablesInv
        <4>4. \A k \in Clients : size[k] \in Nat /\ size'[k] \in Nat
          BY <2>1, Counters
        <4> QED BY <3>1, <4>2, <4>3, <4>4
      <3>5. \A d \in Dialers : dialpc[d] \in {"first", "inserting"} => cl[d] \in Clients
        BY DialConstants DEF DialInv, DialTypeOK, SlotInv, Holding, Private, Clients, None
      <3> QED BY <1>1, <2>1, <3>1, <3>3, <3>4, <3>5, <3>6 DEF DialInv, TablesInv, Inserting
    <2> QED BY <1>2, <2>2, <2>3 DEF DialInv
  <1>4. CASE ClientDies(c)
    <2>1. DialTypeOK'
      BY <1>1, <1>4 DEF ClientDies, DialInv, DialTypeOK, Clients
    <2>2. TablesInv'
      BY <1>1, <1>4 DEF ClientDies, DialInv, TablesInv, Inserting
    <2> QED BY <1>2, <2>1, <2>2 DEF DialInv
  <1>5. CASE MonitorCloses(c)
    <2>1. size[c] = 0 /\ tableClosed' = tableClosed \cup {c} /\ UNCHANGED <<size, dead, late>>
      BY <1>5 DEF MonitorCloses
    <2>2. DialTypeOK'
      BY <1>1, <1>5 DEF MonitorCloses, DialInv, DialTypeOK, Clients
    <2>3. TablesInv'
      BY <1>1, <2>1 DEF DialInv, TablesInv, Inserting
    <2> QED BY <1>2, <2>2, <2>3 DEF DialInv
  <1> QED BY <1>3, <1>4, <1>5

LEMMA DialStepInv == DialInv /\ [DialNext]_dialVars => DialInv'
  <1> SUFFICES ASSUME DialInv, [DialNext]_dialVars PROVE DialInv'
    OBVIOUS
  <1>1. CASE UNCHANGED dialVars
    BY <1>1 DEF dialVars, DialInv, DialTypeOK, SlotInv, TablesInv, Private, Holding, Inserting
  <1>2. CASE DialNext
    BY <1>2, OpenSessionStep, FirstSessionStep, TransportUpStep, DialerSteps, ClientSteps DEF DialNext
  <1> QED BY <1>1, <1>2

(* Whatever the number of dialers that race for the slot, of connections   *)
(* and of sessions allowed per connection, and wherever connections die or *)
(* are closed by their monitors in between: a dead client answers at most  *)
(* max_concurrency dials, no client is overfull although its creator opens *)
(* the first session outside the slot's lock, and a closed table is left   *)
(* with at most one session.                                               *)
THEOREM SlotRunsOut == DialSpec => []ClientsRunOut
  <1>1. DialInv => ClientsRunOut
    <2> SUFFICES ASSUME DialInv PROVE ClientsRunOut
      OBVIOUS
    <2>1. \A c \in Clients : late[c] <= DialConcurrency
      BY Counters, DialConstants DEF DialInv, TablesInv
    <2> QED BY <2>1 DEF DialInv, TablesInv, ClientsRunOut, DeadClientRunsOut, ClientNotOverfull,
                        ClosedClientNearlyIdle
  <1> QED BY <1>1, DialInitInv, DialStepInv, PTL DEF DialSpec
=============================================================================
