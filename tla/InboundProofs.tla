---------------------------- MODULE InboundProofs ----------------------------
(***************************************************************************)
(* Safety of the inbound side, for any number of requests, listeners,      *)
(* connections, clients, targets and datagrams: the registry of listeners  *)
(* (Inbounds), the names of a UDP association's replies (UdpRelay) and     *)
(* the bytes a connection's proxy reads (InboundConns).                    *)
(***************************************************************************)
EXTENDS Inbounds, InboundConns, UdpRelay, TLAPS

InboundSpec == InboundInit /\ [][InboundNext]_inboundVars
UdpSpec == UdpInit /\ [][UdpNext]_udpVars

-----------------------------------------------------------------------------
(* The listeners.                                                          *)
TaskRecs == [cfg : Configs, pc : {"start", "tcp", "accept", "ended"}, abort : BOOLEAN]

RegistryTypeOK ==
    /\ todo \in Seq(Configs)
    /\ DOMAIN call = ApiCalls \cup {Main}
    /\ \A c \in DOMAIN call : call[c].pc \in {"checked", "spawned"} => call[c].cfg \in Configs
    /\ tasks \in Seq(TaskRecs)
    /\ running \in [Tags -> Nat]

(* A request that has spawned a listener remembers which; and a listener   *)
(* in any stage that is not being aborted is registered or about to be.    *)
RegistryInv ==
    /\ RegistryTypeOK
    /\ \A c \in DOMAIN call : call[c].pc = "spawned" =>
          call[c].task \in DOMAIN tasks /\ tasks[call[c].task].cfg = call[c].cfg
    /\ \A g \in Tags : running[g] # Unbound => running[g] \in DOMAIN tasks
    /\ \A t \in DOMAIN tasks : ~tasks[t].abort =>
          running[tasks[t].cfg.tag] = t \/ BeingAdded(t)

LEMMA RegistryInit == InboundInit => RegistryInv
  <1> SUFFICES ASSUME InboundInit PROVE RegistryInv
    OBVIOUS
  <1>1. todo \in Seq(Configs)
    <2>1. todo \in MainConfigs /\ todo \in Seq(Range(todo))
      BY MainConfigsAreLists DEF InboundInit
    <2>2. Range(todo) \subseteq Configs
      BY <2>1 DEF Configs
    <2> QED BY <2>1, <2>2
  <1>2. DOMAIN tasks = {} /\ tasks \in Seq(TaskRecs)
    BY DEF InboundInit
  <1> QED BY <1>1, <1>2 DEF InboundInit, RegistryInv, RegistryTypeOK, Unbound

LEMMA TaskFacts ==
  ASSUME RegistryInv, NEW t \in DOMAIN tasks
  PROVE  tasks[t] \in TaskRecs /\ tasks[t].cfg \in Configs /\ tasks[t].cfg.tag \in Tags
  <1>1. tasks[t] \in TaskRecs
    BY DEF RegistryInv, RegistryTypeOK
  <1>2. tasks[t].cfg \in Configs
    BY <1>1 DEF TaskRecs
  <1> QED BY <1>1, <1>2 DEF Tags

(* Replacing one listener's record.                                        *)
LEMMA TaskReplaced ==
  ASSUME RegistryInv, NEW t \in DOMAIN tasks, NEW r \in TaskRecs,
         NEW ts, ts = [tasks EXCEPT ![t] = r]
  PROVE  /\ ts \in Seq(TaskRecs) /\ DOMAIN ts = DOMAIN tasks
         /\ ts[t] = r /\ \A u \in DOMAIN tasks : u # t => ts[u] = tasks[u]
  BY DEF RegistryInv, RegistryTypeOK

(* What preserves the invariant when no request moves.                     *)
LEMMA NoRequestMoves ==
  ASSUME RegistryInv, UNCHANGED <<todo, call>>, running' \in [Tags -> Nat],
         tasks' \in Seq(TaskRecs), DOMAIN tasks' = DOMAIN tasks,
         \A t \in DOMAIN tasks : /\ tasks'[t].cfg = tasks[t].cfg
                                 /\ ~tasks'[t].abort => ~tasks[t].abort,
         \A h \in Tags : running'[h] # Unbound => running'[h] = running[h],
         \A t \in DOMAIN tasks : ~tasks'[t].abort /\ running[tasks[t].cfg.tag] = t
                                   => running'[tasks[t].cfg.tag] = t
  PROVE  RegistryInv'
  <1>1. RegistryTypeOK'
    BY DEF RegistryInv, RegistryTypeOK
  <1>2. \A c \in DOMAIN call' : call'[c].pc = "spawned" =>
          call'[c].task \in DOMAIN tasks' /\ tasks'[call'[c].task].cfg = call'[c].cfg
    BY DEF RegistryInv
  <1>3. \A g \in Tags : running'[g] # Unbound => running'[g] \in DOMAIN tasks'
    BY DEF RegistryInv
  <1>4. ASSUME NEW t \in DOMAIN tasks', ~tasks'[t].abort
        PROVE  running'[tasks'[t].cfg.tag] = t \/ BeingAdded(t)'
    <2>1. running[tasks[t].cfg.tag] = t \/ BeingAdded(t)
      BY <1>4 DEF RegistryInv
    <2>2. BeingAdded(t) => BeingAdded(t)'
      BY DEF BeingAdded
    <2> QED BY <1>4, <2>1, <2>2
  <1> QED BY <1>1, <1>2, <1>3, <1>4 DEF RegistryInv

(* A listener's own step changes its pc and nothing the registry sees.     *)
LEMMA TaskMoves ==
  ASSUME RegistryInv, NEW t \in DOMAIN tasks, NEW pc \in {"start", "tcp", "accept", "ended"},
         TaskGoes(t, pc), UNCHANGED <<todo, call, running>>
  PROVE  RegistryInv'
  <1> DEFINE r == [tasks[t] EXCEPT !.pc = pc]
  <1>1. r \in TaskRecs /\ r.cfg = tasks[t].cfg /\ r.abort = tasks[t].abort
    BY TaskFacts DEF TaskRecs
  <1>2. tasks' = [tasks EXCEPT ![t] = r]
    BY DEF TaskGoes
  <1> HIDE DEF r
  <1>3. /\ tasks' \in Seq(TaskRecs) /\ DOMAIN tasks' = DOMAIN tasks
        /\ tasks'[t] = r /\ \A u \in DOMAIN tasks : u # t => tasks'[u] = tasks[u]
    BY <1>1, <1>2, TaskReplaced
  <1>4. \A u \in DOMAIN tasks : /\ tasks'[u].cfg = tasks[u].cfg
                                /\ ~tasks'[u].abort => ~tasks[u].abort
    BY <1>1, <1>3
  <1>5. running' \in [Tags -> Nat]
    BY DEF RegistryInv, RegistryTypeOK
  <1> QED BY <1>3, <1>4, <1>5, NoRequestMoves

LEMMA ListenerSteps ==
  ASSUME RegistryInv, NEW t \in DOMAIN tasks,
         \/ RawStart(t) \/ SecureStart(t) \/ StreamStart(t) \/ KcpStart(t)
         \/ SpawnServe(t) \/ BindTcp(t) \/ TaskCancelled(t)
  PROVE  RegistryInv'
  <1>1. UNCHANGED <<todo, call, running>>
    BY DEF RawStart, SecureStart, StreamStart, KcpStart, SpawnServe, BindTcp, TaskCancelled
  <1>2. \E pc \in {"start", "tcp", "accept", "ended"} : TaskGoes(t, pc)
    BY DEF RawStart, SecureStart, StreamStart, KcpStart, SpawnServe, BindTcp, TaskCancelled
  <1> QED BY <1>1, <1>2, TaskMoves

LEMMA RequestSteps ==
  ASSUME RegistryInv,
         MainTakes \/ \E c \in ApiCalls, cfg \in ApiConfigs : AddInbound(c, cfg)
  PROVE  RegistryInv'
  <1> USE DEF RegistryInv, RegistryTypeOK, BeingAdded
  <1>1. CASE MainTakes
    <2>1. todo' \in Seq(Configs) /\ Head(todo) \in Configs
      BY <1>1 DEF MainTakes
    <2> QED BY <1>1, <2>1 DEF MainTakes
  <1>2. ASSUME NEW c \in ApiCalls, NEW cfg \in ApiConfigs, AddInbound(c, cfg)
        PROVE  RegistryInv'
    <2>1. cfg \in Configs
      BY DEF Configs
    <2> QED BY <1>2, <2>1 DEF AddInbound
  <1> QED BY <1>1, <1>2

LEMMA SpawnStep ==
  ASSUME RegistryInv, NEW c \in ApiCalls \cup {Main}, SpawnInbound(c) PROVE RegistryInv'
  <1> USE DEF RegistryInv, RegistryTypeOK
  <1>0. PICK n \in Nat : n = Len(tasks) + 1
    OBVIOUS
  <1> DEFINE r == [cfg |-> call[c].cfg, pc |-> "start", abort |-> FALSE]
             k == [pc |-> "spawned", cfg |-> call[c].cfg, task |-> n]
  <1>1. /\ r \in TaskRecs /\ call[c].pc = "checked" /\ call[c].cfg \in Configs
        /\ tasks' = Append(tasks, r) /\ call' = [call EXCEPT ![c] = k] /\ UNCHANGED <<todo, running>>
    BY <1>0 DEF SpawnInbound, TaskRecs
  <1>2. /\ tasks' \in Seq(TaskRecs) /\ DOMAIN tasks' = DOMAIN tasks \cup {n}
        /\ tasks'[n] = r /\ \A t \in DOMAIN tasks : tasks'[t] = tasks[t]
    BY <1>0, <1>1
  <1>3. DOMAIN call' = DOMAIN call /\ call'[c] = k /\ \A d \in DOMAIN call : d # c => call'[d] = call[d]
    BY <1>1
  <1>4. r.cfg = call[c].cfg /\ k.pc = "spawned" /\ k.cfg = call[c].cfg /\ k.task = n
    OBVIOUS
  <1> HIDE DEF r, k
  <1>5. c \in DOMAIN call' /\ call'[c].pc = "spawned" /\ call'[c].task = n
    BY <1>3, <1>4
  <1>6. BeingAdded(n)'
    BY <1>5 DEF BeingAdded
  <1>7. ASSUME NEW t \in DOMAIN tasks, BeingAdded(t) PROVE BeingAdded(t)'
    BY <1>1, <1>3, <1>7 DEF BeingAdded
  <1>8. ASSUME NEW t \in DOMAIN tasks', ~tasks'[t].abort
        PROVE  running'[tasks'[t].cfg.tag] = t \/ BeingAdded(t)'
    <2>1. CASE t = n
      BY <2>1, <1>6
    <2>2. CASE t # n
      <3>1. t \in DOMAIN tasks /\ tasks'[t] = tasks[t] /\ ~tasks[t].abort
        BY <2>2, <1>2, <1>8
      <3> QED BY <3>1, <1>1, <1>7
    <2> QED BY <2>1, <2>2
  <1>9. ASSUME NEW d \in DOMAIN call', call'[d].pc = "spawned"
        PROVE  call'[d].task \in DOMAIN tasks' /\ tasks'[call'[d].task].cfg = call'[d].cfg
    <2>1. CASE d = c
      BY <2>1, <1>2, <1>3, <1>4
    <2>2. CASE d # c
      BY <2>2, <1>2, <1>3, <1>9
    <2> QED BY <2>1, <2>2
  <1>10. RegistryTypeOK'
    BY <1>1, <1>2, <1>3, <1>4
  <1> QED BY <1>1, <1>2, <1>8, <1>9, <1>10

(* Aborting a listener, or none.                                           *)
LEMMA AbortedTasks ==
  ASSUME RegistryInv, NEW g \in Tags, tasks' = Aborted(running[g])
  PROVE  /\ tasks' \in Seq(TaskRecs) /\ DOMAIN tasks' = DOMAIN tasks
         /\ \A t \in DOMAIN tasks : /\ tasks'[t].cfg = tasks[t].cfg
                                    /\ ~tasks'[t].abort => ~tasks[t].abort /\ t # running[g]
  <1>1. CASE running[g] = Unbound
    <2>1. tasks' = tasks /\ 0 \notin DOMAIN tasks
      BY <1>1 DEF Aborted, RegistryInv, RegistryTypeOK
    <2> QED BY <1>1, <2>1 DEF RegistryInv, RegistryTypeOK, Unbound
  <1>2. CASE running[g] # Unbound
    <2> DEFINE r == [tasks[running[g]] EXCEPT !.abort = TRUE]
    <2>1. running[g] \in DOMAIN tasks /\ tasks' = [tasks EXCEPT ![running[g]] = r]
      BY <1>2 DEF Aborted, RegistryInv
    <2>2. r \in TaskRecs /\ r.cfg = tasks[running[g]].cfg /\ r.abort
      BY <2>1, TaskFacts DEF TaskRecs
    <2> HIDE DEF r
    <2>3. /\ tasks' \in Seq(TaskRecs) /\ DOMAIN tasks' = DOMAIN tasks
          /\ tasks'[running[g]] = r /\ \A u \in DOMAIN tasks : u # running[g] => tasks'[u] = tasks[u]
      BY <2>1, <2>2, TaskReplaced
    <2> QED BY <2>2, <2>3
  <1> QED BY <1>1, <1>2

LEMMA AddStep ==
  ASSUME RegistryInv, NEW c \in ApiCalls \cup {Main}, ManagerAdd(c) PROVE RegistryInv'
  <1> DEFINE g == call[c].cfg.tag
             k == [pc |-> IF c = Main THEN "idle" ELSE "added"]
  <1>1. /\ call[c].pc = "spawned" /\ call[c].cfg \in Configs /\ g \in Tags
        /\ call[c].task \in DOMAIN tasks /\ tasks[call[c].task].cfg = call[c].cfg
    BY DEF ManagerAdd, RegistryInv, RegistryTypeOK, Tags
  <1>2. /\ running' = [running EXCEPT ![g] = call[c].task] /\ tasks' = Aborted(running[g])
        /\ call' = [call EXCEPT ![c] = k] /\ UNCHANGED todo
    BY DEF ManagerAdd
  <1>7. call'[c].pc = k.pc /\ k.pc \notin {"checked", "spawned"}
    BY <1>2 DEF RegistryInv, RegistryTypeOK
  <1> HIDE DEF g, k
  <1>3. /\ tasks' \in Seq(TaskRecs) /\ DOMAIN tasks' = DOMAIN tasks
        /\ \A t \in DOMAIN tasks : /\ tasks'[t].cfg = tasks[t].cfg
                                   /\ ~tasks'[t].abort => ~tasks[t].abort /\ t # running[g]
    BY <1>1, <1>2, AbortedTasks
  <1>4. /\ DOMAIN call' = DOMAIN call /\ call'[c].pc \notin {"checked", "spawned"}
        /\ \A d \in DOMAIN call : d # c => call'[d] = call[d]
    BY <1>7, <1>2 DEF RegistryInv, RegistryTypeOK
  <1>5. running' \in [Tags -> Nat] /\ running'[g] = call[c].task
        /\ \A h \in Tags : h # g => running'[h] = running[h]
    BY <1>1, <1>2 DEF RegistryInv, RegistryTypeOK
  <1>6. ASSUME NEW t \in DOMAIN tasks, ~tasks'[t].abort
        PROVE  running'[tasks'[t].cfg.tag] = t \/ BeingAdded(t)'
    <2>1. ~tasks[t].abort /\ t # running[g] /\ tasks'[t].cfg = tasks[t].cfg /\ tasks[t].cfg.tag \in Tags
      BY <1>3, <1>6, TaskFacts
    <2>2. CASE BeingAdded(t)
      <3>1. PICK d \in DOMAIN call : call[d].pc = "spawned" /\ call[d].task = t
        BY <2>2 DEF BeingAdded
      <3>2. CASE d = c
        BY <1>1, <1>5, <2>1, <3>1, <3>2 DEF g
      <3>3. CASE d # c
        BY <1>4, <3>1, <3>3 DEF BeingAdded
      <3> QED BY <3>2, <3>3
    <2>3. CASE ~BeingAdded(t)
      BY <1>5, <2>1, <2>3 DEF RegistryInv
    <2> QED BY <2>2, <2>3
  <1> QED BY <1>1, <1>2, <1>3, <1>4, <1>5, <1>6 DEF RegistryInv, RegistryTypeOK, Unbound

LEMMA RemoveStep ==
  ASSUME RegistryInv, NEW g \in Tags, RemoveInbound(g) PROVE RegistryInv'
  <1>1. /\ tasks' \in Seq(TaskRecs) /\ DOMAIN tasks' = DOMAIN tasks
        /\ \A t \in DOMAIN tasks : /\ tasks'[t].cfg = tasks[t].cfg
                                   /\ ~tasks'[t].abort => ~tasks[t].abort /\ t # running[g]
    BY AbortedTasks DEF RemoveInbound
  <1>2. /\ UNCHANGED <<todo, call>> /\ running' \in [Tags -> Nat]
        /\ running'[g] = Unbound /\ \A h \in Tags : h # g => running'[h] = running[h]
    BY DEF RemoveInbound, RegistryInv, RegistryTypeOK, Unbound
  <1>3. \A t \in DOMAIN tasks : tasks[t].cfg.tag \in Tags
    BY TaskFacts
  <1>4. \A t \in DOMAIN tasks : ~tasks'[t].abort /\ running[tasks[t].cfg.tag] = t
                                  => running'[tasks[t].cfg.tag] = t
    BY <1>1, <1>2, <1>3
  <1>5. \A h \in Tags : running'[h] # Unbound => running'[h] = running[h]
    BY <1>2
  <1> QED BY <1>1, <1>2, <1>4, <1>5, NoRequestMoves

LEMMA RegistryStep == RegistryInv /\ [InboundNext]_inboundVars => RegistryInv'
  <1> SUFFICES ASSUME RegistryInv, [InboundNext]_inboundVars PROVE RegistryInv'
    OBVIOUS
  <1>1. CASE MainTakes \/ \E c \in ApiCalls, cfg \in ApiConfigs : AddInbound(c, cfg)
    BY <1>1, RequestSteps
  <1>2. CASE \E c \in ApiCalls \cup {Main} : SpawnInbound(c) \/ ManagerAdd(c)
    BY <1>2, SpawnStep, AddStep
  <1>3. CASE \E g \in Tags : RemoveInbound(g)
    BY <1>3, RemoveStep
  <1>4. CASE \E t \in DOMAIN tasks : \/ RawStart(t) \/ SecureStart(t) \/ StreamStart(t) \/ KcpStart(t)
                                     \/ SpawnServe(t) \/ BindTcp(t) \/ TaskCancelled(t)
    BY <1>4, ListenerSteps
  <1>5. CASE \/ UNCHANGED inboundVars
             \/ \E t \in Loops : UdpDispatches(t) \/ UdpAnswered(t) \/ LoopEnds(t)
    <2>1. UNCHANGED <<todo, call, tasks, running>>
      BY <1>5 DEF inboundVars, UdpDispatches, UdpAnswered, UdpGoes, LoopEnds
    <2> QED BY <2>1 DEF RegistryInv, RegistryTypeOK, BeingAdded
  <1> QED BY <1>1, <1>2, <1>3, <1>4, <1>5 DEF InboundNext

(* For any number of concurrent add_inbound requests beside main, and in   *)
(* whatever order they check, spawn and register, a serving listener that  *)
(* is not being aborted is the one Manager's handle for its tag stops.     *)
THEOREM ServingIsRegistered == InboundSpec => []ListenerIsRegistered
  <1>1. RegistryInv => ListenerIsRegistered
    BY DEF RegistryInv, ListenerIsRegistered
  <1> QED BY <1>1, RegistryInit, RegistryStep, PTL DEF InboundSpec
-----------------------------------------------------------------------------
(* The UDP association.  Onward: where a routed datagram went; Origin: the *)
(* source its answer must name.  With a cone inbound neither is settled    *)
(* before the first datagram has fixed cone_dest.                          *)
Onward(id) == IF umode.cone THEN assoc.cone ELSE asent[id]
Origin(id) == IF umode.out = "dns" THEN UDnsServer ELSE Onward(id)
Routed(id) == id \in DOMAIN asent /\ (umode.cone => assoc.cone # UNobody)

Assocs == [pc : {"keepalive", "await_up", "await_down", "ended"},
           up : {"run", "end"}, down : {"run", "end"},
           client : UClients \cup {UNobody}, cone : UTargets \cup {UNobody}]
Packets == [id : Nat, src : UClients, target : UTargets]
Answers == [id : Nat, from : UTargets \cup {UDnsServer}]
Answer(a) == a \in Answers /\ Routed(a.id) /\ a.from = Origin(a.id)

AssocTypeOK == asent \in Seq(UTargets) /\ assoc \in Assocs

(* A datagram keeps its target, and every later trace of it the source its *)
(* answer must name, wherever it is between the client and its answer.     *)
AssocInv ==
    /\ AssocTypeOK
    /\ \A d \in inbox : d.src \in UClients /\ d.id \in DOMAIN asent /\ d.target = asent[d.id]
    /\ upq \in Seq(Packets)
    /\ \A i \in DOMAIN upq : Routed(upq[i].id) /\ upq[i].target = Onward(upq[i].id)
    /\ \A w \in away : Routed(w.id) /\ w.to = Origin(w.id)
    /\ \A a \in uanswers : Answer(a)
    /\ downq \in Seq(Answers) /\ \A i \in DOMAIN downq : Answer(downq[i])
    /\ \A b \in back : Routed(b.id) /\ b.from = Origin(b.id)

LEMMA AssocInit == UdpInit => AssocInv
  <1> SUFFICES ASSUME UdpInit PROVE AssocInv
    OBVIOUS
  <1>1. AssocTypeOK
    BY DEF UdpInit, AssocTypeOK, Assocs
  <1>2. upq \in Seq(Packets) /\ DOMAIN upq = {} /\ downq \in Seq(Answers) /\ DOMAIN downq = {}
    BY DEF UdpInit
  <1> QED BY <1>1, <1>2 DEF UdpInit, AssocInv

(* Sending further datagrams, and fixing cone_dest once, change nothing    *)
(* for a datagram already routed.                                          *)
LEMMA RoutedStays ==
  ASSUME umode' = umode, NEW id, Routed(id),
         DOMAIN asent \subseteq DOMAIN asent', \A i \in DOMAIN asent : asent'[i] = asent[i],
         assoc.cone # UNobody => assoc'.cone = assoc.cone
  PROVE  Routed(id)' /\ Onward(id)' = Onward(id) /\ Origin(id)' = Origin(id)
  <1>1. Routed(id)'
    BY DEF Routed
  <1>2. Onward(id)' = Onward(id)
    BY DEF Routed, Onward
  <1> QED BY <1>1, <1>2 DEF Origin

LEMMA SendStep == ASSUME AssocInv, ClientSends PROVE AssocInv'
  <1>1. PICK c \in UClients, t \in UTargets, whole \in BOOLEAN :
           /\ inbox' = inbox \cup {[id |-> Len(asent) + 1, src |-> c, target |-> t, whole |-> whole]}
           /\ asent' = Append(asent, t)
    BY DEF ClientSends
  <1>2. UNCHANGED <<umode, assoc, upq, downq, away, uanswers, back>>
    BY DEF ClientSends
  <1>3. /\ asent' \in Seq(UTargets) /\ Len(asent) + 1 \in DOMAIN asent' /\ asent'[Len(asent) + 1] = t
        /\ DOMAIN asent \subseteq DOMAIN asent' /\ \A i \in DOMAIN asent : asent'[i] = asent[i]
    BY <1>1 DEF AssocInv, AssocTypeOK
  <1>4. \A id : Routed(id) => Routed(id)' /\ Onward(id)' = Onward(id) /\ Origin(id)' = Origin(id)
    BY <1>2, <1>3, RoutedStays
  <1>5. \A d \in inbox' : d.src \in UClients /\ d.id \in DOMAIN asent' /\ d.target = asent'[d.id]
    BY <1>1, <1>3 DEF AssocInv
  <1>6. \A a : Answer(a) => Answer(a)'
    BY <1>4 DEF Answer
  <1> QED BY <1>2, <1>3, <1>4, <1>5, <1>6 DEF AssocInv, AssocTypeOK

(* The inbound's step: the first whole datagram fixes cone_dest.           *)
LEMMA ToUpstreamStep == ASSUME AssocInv, ToUpstream PROVE AssocInv'
  <1>1. PICK d \in inbox :
         /\ inbox' = inbox \ {d}
         /\ assoc' = [assoc EXCEPT
              !.client = d.src,
              !.cone = IF d.whole /\ umode.cone THEN ConeTarget(d) ELSE @,
              !.up = IF d.whole /\ OutboundGone THEN "end" ELSE @]
         /\ upq' = IF d.whole /\ ~OutboundGone
                   THEN Append(upq, [id |-> d.id, src |-> d.src, target |-> ConeTarget(d)])
                   ELSE upq
    BY DEF ToUpstream
  <1>2. UNCHANGED <<umode, asent, downq, away, uanswers, back>>
    BY DEF ToUpstream
  <1>3. d.src \in UClients /\ d.id \in DOMAIN asent /\ d.target = asent[d.id]
    BY DEF AssocInv
  <1>4. d.target \in UTargets /\ d.id \in Nat
    BY <1>3 DEF AssocInv, AssocTypeOK
  <1>5. ConeTarget(d) \in UTargets
    BY <1>4 DEF ConeTarget, AssocInv, AssocTypeOK, Assocs
  <1>6. assoc' \in Assocs
    BY <1>1, <1>3, <1>5 DEF AssocInv, AssocTypeOK, Assocs
  <1>7. assoc'.cone = IF d.whole /\ umode.cone THEN ConeTarget(d) ELSE assoc.cone
    BY <1>1 DEF AssocInv, AssocTypeOK, Assocs
  <1>8. assoc.cone # UNobody => assoc'.cone = assoc.cone
    BY <1>7 DEF ConeTarget
  <1>9. \A id : Routed(id) => Routed(id)' /\ Onward(id)' = Onward(id) /\ Origin(id)' = Origin(id)
    BY <1>2, <1>8, RoutedStays
  <1>10. \A a : Answer(a) => Answer(a)'
    BY <1>9 DEF Answer
  <1>11. upq' \in Seq(Packets) /\ (\A i \in DOMAIN upq : Routed(upq[i].id) /\ upq[i].target = Onward(upq[i].id))'
    <2>1. CASE ~(d.whole /\ ~OutboundGone)
      BY <1>1, <1>9, <2>1 DEF AssocInv
    <2>2. CASE d.whole /\ ~OutboundGone
      <3>1. PICK p : p = [id |-> d.id, src |-> d.src, target |-> ConeTarget(d)]
        OBVIOUS
      <3>2. p \in Packets /\ p.id = d.id /\ p.target = ConeTarget(d)
        BY <1>3, <1>4, <1>5, <3>1 DEF Packets
      <3>3. Routed(p.id)' /\ p.target = Onward(p.id)'
        BY <1>2, <1>3, <1>5, <1>7, <2>2, <3>2, NobodyIsNoTarget DEF Routed, Onward, ConeTarget
      <3>4. upq' = Append(upq, p)
        BY <1>1, <2>2, <3>1
      <3>5. /\ upq' \in Seq(Packets) /\ DOMAIN upq' = DOMAIN upq \cup {Len(upq) + 1}
            /\ upq'[Len(upq) + 1] = p /\ \A i \in DOMAIN upq : upq'[i] = upq[i]
        BY <3>2, <3>4 DEF AssocInv
      <3> QED BY <1>9, <3>3, <3>5 DEF AssocInv
    <2> QED BY <2>1, <2>2
  <1> QED BY <1>1, <1>2, <1>6, <1>9, <1>10, <1>11 DEF AssocInv, AssocTypeOK

(* The other steps leave every datagram's origin as it is.                 *)
LEMMA OriginsStay ==
  ASSUME umode' = umode, asent' = asent, assoc'.cone = assoc.cone
  PROVE  /\ \A id : Routed(id)' = Routed(id) /\ Onward(id)' = Onward(id) /\ Origin(id)' = Origin(id)
         /\ \A a : Answer(a) => Answer(a)'
  BY DEF Routed, Onward, Origin, Answer

LEMMA FromUpstreamStep == ASSUME AssocInv, FromUpstream PROVE AssocInv'
  <1>1. UNCHANGED <<umode, asent, inbox, upq, away, uanswers>>
    BY DEF FromUpstream
  <1>2. assoc' \in Assocs /\ assoc'.cone = assoc.cone
    BY DEF FromUpstream, AssocInv, AssocTypeOK, Assocs
  <1>3. CASE downq # <<>>
    <2>1. Answer(Head(downq)) /\ downq' = Tail(downq)
      BY <1>3 DEF FromUpstream, AssocInv
    <2>2. downq' \in Seq(Answers) /\ \A i \in DOMAIN downq' : Answer(downq'[i])
      <3>1. \A i \in DOMAIN downq' : i + 1 \in DOMAIN downq /\ downq'[i] = downq[i + 1]
        BY <1>3, <2>1 DEF AssocInv
      <3> QED BY <1>3, <2>1, <3>1 DEF AssocInv
    <2>3. \A b \in back' : Routed(b.id) /\ b.from = Origin(b.id)
      <3>1. PICK h : h = [id |-> Head(downq).id, from |-> Head(downq).from, to |-> assoc.client]
        OBVIOUS
      <3>2. Routed(h.id) /\ h.from = Origin(h.id)
        BY <2>1, <3>1 DEF Answer
      <3>3. back' \subseteq back \cup {h}
        BY <1>3, <3>1 DEF FromUpstream
      <3> QED BY <3>2, <3>3 DEF AssocInv
    <2> QED BY <1>1, <1>2, <2>2, <2>3, OriginsStay DEF AssocInv, AssocTypeOK
  <1>4. CASE downq = <<>>
    <2>1. UNCHANGED <<downq, back>>
      BY <1>4 DEF FromUpstream
    <2> QED BY <1>1, <1>2, <2>1, OriginsStay DEF AssocInv, AssocTypeOK
  <1> QED BY <1>3, <1>4

LEMMA OutSendStep == ASSUME AssocInv, OutSend PROVE AssocInv'
  <1>1. UNCHANGED <<umode, asent, inbox, assoc, downq, uanswers, back>> /\ upq # <<>> /\ upq' = Tail(upq)
    BY DEF OutSend
  <1>2. PICK p : p = Head(upq)
    OBVIOUS
  <1>3. Routed(p.id) /\ p.target = Onward(p.id)
    BY <1>1, <1>2 DEF AssocInv
  <1>4. PICK w : w = [id |-> p.id, to |-> SentTo(p)]
    OBVIOUS
  <1>5. Routed(w.id) /\ w.to = Origin(w.id)
    BY <1>3, <1>4 DEF SentTo, Origin
  <1>6. away' \subseteq away \cup {w}
    BY <1>2, <1>4 DEF OutSend
  <1>7. upq' \in Seq(Packets) /\ \A i \in DOMAIN upq' : i + 1 \in DOMAIN upq /\ upq'[i] = upq[i + 1]
    BY <1>1 DEF AssocInv
  <1>8. \A i \in DOMAIN upq' : Routed(upq'[i].id) /\ upq'[i].target = Onward(upq'[i].id)
    BY <1>7 DEF AssocInv
  <1>9. \A v \in away' : Routed(v.id) /\ v.to = Origin(v.id)
    BY <1>5, <1>6 DEF AssocInv
  <1> QED BY <1>1, <1>7, <1>8, <1>9, OriginsStay DEF AssocInv, AssocTypeOK

(* An answer travels under the source the outbound received it from, which *)
(* the dns outbound replaces by its server.                                *)
LEMMA AnswerSteps == ASSUME AssocInv, RemoteAnswers \/ OutRecv PROVE AssocInv'
  <1>1. CASE RemoteAnswers
    <2>1. PICK w \in away : /\ uanswers' = uanswers \cup {[id |-> w.id, from |-> w.to]}
                            /\ away' = away \ {w}
      BY <1>1 DEF RemoteAnswers
    <2>2. UNCHANGED <<umode, asent, inbox, assoc, upq, downq, back>>
      BY <1>1 DEF RemoteAnswers
    <2>3. Routed(w.id) /\ w.to = Origin(w.id)
      BY DEF AssocInv
    <2>4. w.id \in Nat /\ Origin(w.id) \in UTargets \cup {UDnsServer}
      BY <2>3 DEF Routed, Origin, Onward, AssocInv, AssocTypeOK, Assocs
    <2>5. Answer([id |-> w.id, from |-> w.to])
      BY <2>3, <2>4 DEF Answer, Answers
    <2> QED BY <2>1, <2>2, <2>5, OriginsStay DEF AssocInv, AssocTypeOK
  <1>2. CASE OutRecv
    <2>1. PICK a \in uanswers :
            /\ uanswers' = uanswers \ {a}
            /\ \/ downq' = downq
               \/ downq' = Append(downq, [a EXCEPT !.from = IF umode.out = "dns" THEN UDnsServer ELSE @])
      BY <1>2 DEF OutRecv
    <2>2. UNCHANGED <<umode, asent, inbox, assoc, upq, away, back>>
      BY <1>2 DEF OutRecv
    <2>3. Answer(a)
      BY DEF AssocInv
    <2>4. [a EXCEPT !.from = IF umode.out = "dns" THEN UDnsServer ELSE @] = a
      BY <2>3 DEF Answer, Answers, Origin
    <2>5. downq' \in Seq(Answers) /\ \A i \in DOMAIN downq' : Answer(downq'[i])
      <3>1. CASE downq' = downq
        BY <3>1 DEF AssocInv
      <3>2. CASE downq' = Append(downq, a)
        <4>1. /\ downq' \in Seq(Answers) /\ DOMAIN downq' = DOMAIN downq \cup {Len(downq) + 1}
              /\ downq'[Len(downq) + 1] = a /\ \A i \in DOMAIN downq : downq'[i] = downq[i]
          BY <2>3, <3>2 DEF AssocInv, Answer
        <4> QED BY <2>3, <4>1 DEF AssocInv
      <3> QED BY <2>1, <2>4, <3>1, <3>2
    <2> QED BY <2>1, <2>2, <2>5, OriginsStay DEF AssocInv, AssocTypeOK
  <1> QED BY <1>1, <1>2

LEMMA QuietSteps ==
  ASSUME AssocInv,
         \/ DatagramLost \/ ClientCloses \/ Handler \/ InboundSocketFails
         \/ OutLoopEnds \/ OutSocketFails \/ UNCHANGED udpVars
  PROVE  AssocInv'
  <1>1. UNCHANGED <<umode, asent, upq, downq, away, uanswers, back>> /\ inbox' \subseteq inbox
    BY DEF DatagramLost, ClientCloses, Handler, InboundSocketFails, OutLoopEnds, OutSocketFails, udpVars
  <1>2. assoc' \in Assocs /\ assoc'.cone = assoc.cone
    BY DEF DatagramLost, ClientCloses, Handler, InboundSocketFails, OutLoopEnds, OutSocketFails,
           udpVars, AssocInv, AssocTypeOK, Assocs
  <1> QED BY <1>1, <1>2, OriginsStay DEF AssocInv, AssocTypeOK

LEMMA AssocStep == AssocInv /\ [UdpNext]_udpVars => AssocInv'
  BY SendStep, ToUpstreamStep, FromUpstreamStep, OutSendStep, AnswerSteps, QuietSteps DEF UdpNext

(* Whatever the number of clients, targets and datagrams, and however they *)
(* are lost or reordered on the way, a datagram that reaches a client      *)
(* names the target it was sent to (the first one with a cone inbound, the *)
(* server with the dns outbound).                                          *)
THEOREM RepliesAreNamed == UdpSpec => []RepliesNameTheirTarget
  <1>1. AssocInv => RepliesNameTheirTarget
    BY DEF AssocInv, RepliesNameTheirTarget, Origin, Onward
  <1> QED BY <1>1, AssocInit, AssocStep, PTL DEF UdpSpec
-----------------------------------------------------------------------------
(* The accepted connections.                                               *)
ConnSpec == ConnInit /\ [][ConnNext]_connVars

ConnRecs == [pc : {"sniff", "tls", "process", "served", "handshake", "auth", "stream", "streams", "closed"},
             sent : Nat, eof : BOOLEAN, peek : Seq(Nat), net : Seq(Nat), seen : Seq(Nat)]

(* s holds the client's bytes that follow the first n.                     *)
Follows(s, n) == \A k \in 1 .. Len(s) : s[k] = n + k

(* What the proxy has read, what was peeked and what is still on the way   *)
(* are, in this order, all the client sent; nothing is peeked before the   *)
(* sniffer's read, and a served connection has nothing left.               *)
InStep(c) ==
    /\ Follows(c.seen, 0) /\ Follows(c.peek, Len(c.seen))
    /\ Follows(c.net, Len(c.seen) + Len(c.peek))
    /\ c.sent = Len(c.seen) + Len(c.peek) + Len(c.net)
    /\ c.pc \notin {"tls", "process", "served", "closed"} => c.peek = <<>>
    /\ c.pc = "served" => c.eof /\ Len(c.peek) = 0 /\ Len(c.net) = 0

ConnsInv == conns \in Seq(ConnRecs) /\ \A i \in DOMAIN conns : InStep(conns[i])

(* Replacing one connection's record, or adding a connection.              *)
LEMMA ConnReplaced ==
  ASSUME ConnsInv, NEW i \in DOMAIN conns, NEW c \in ConnRecs, InStep(c), ConnDoes(i, c)
  PROVE  ConnsInv'
  <1>1. /\ conns' \in Seq(ConnRecs) /\ DOMAIN conns' = DOMAIN conns
        /\ conns'[i] = c /\ \A j \in DOMAIN conns : j # i => conns'[j] = conns[j]
    BY DEF ConnDoes, ConnsInv
  <1> QED BY <1>1 DEF ConnsInv

LEMMA ConnAdded ==
  ASSUME ConnsInv, NEW c \in ConnRecs, InStep(c), conns' = Append(conns, c)
  PROVE  ConnsInv'
  <1>1. PICK n \in Nat : n = Len(conns) + 1
    BY DEF ConnsInv
  <1>2. /\ conns' \in Seq(ConnRecs) /\ DOMAIN conns' = DOMAIN conns \cup {n}
        /\ conns'[n] = c /\ \A j \in DOMAIN conns : conns'[j] = conns[j]
    BY <1>1 DEF ConnsInv
  <1> QED BY <1>2 DEF ConnsInv

(* A step that changes only the stage, or closes the sending side.         *)
LEMMA StageMoves ==
  ASSUME ConnsInv, NEW i \in DOMAIN conns, NEW c \in ConnRecs, ConnDoes(i, c),
         c.sent = conns[i].sent, c.peek = conns[i].peek, c.net = conns[i].net, c.seen = conns[i].seen,
         c.pc \notin {"tls", "process", "served", "closed"} => conns[i].pc \notin {"tls", "process", "served", "closed"},
         c.pc = "served" => c.eof /\ c.peek = <<>> /\ c.net = <<>>
  PROVE  ConnsInv'
  <1>1. InStep(conns[i])
    BY DEF ConnsInv
  <1>2. InStep(c)
    BY <1>1 DEF InStep
  <1> QED BY <1>2, ConnReplaced

(* Two parts of what follows n, one byte more, and one byte less.          *)
LEMMA FollowsCut ==
  ASSUME NEW s \in Seq(Nat), NEW n \in Nat, Follows(s, n), NEW k \in 0 .. Len(s)
  PROVE  /\ SubSeq(s, 1, k) \in Seq(Nat) /\ Len(SubSeq(s, 1, k)) = k /\ Follows(SubSeq(s, 1, k), n)
         /\ SubSeq(s, k + 1, Len(s)) \in Seq(Nat) /\ Len(SubSeq(s, k + 1, Len(s))) = Len(s) - k
         /\ Follows(SubSeq(s, k + 1, Len(s)), n + k)
  <1>1. PICK a, b, m : a = SubSeq(s, 1, k) /\ b = SubSeq(s, k + 1, Len(s)) /\ m = Len(s)
    OBVIOUS
  <1>2. a \in Seq(Nat) /\ Len(a) = k /\ \A j \in 1 .. k : a[j] = s[j]
    BY <1>1
  <1>3. b \in Seq(Nat) /\ Len(b) = m - k
    BY <1>1
  <1>4. \A j \in 1 .. m - k : b[j] = s[k + j]
    BY <1>1
  <1>5. \A j \in 1 .. m : s[j] = n + j
    BY <1>1 DEF Follows
  <1>6. m \in Nat /\ k \in Nat /\ k <= m
    BY <1>1
  <1>7. Follows(a, n)
    <2>1. \A j \in 1 .. k : a[j] = n + j
      BY <1>2, <1>5, <1>6
    <2> QED BY <1>2, <2>1, Zenon DEF Follows
  <1>8. Follows(b, n + k)
    <2>1. \A j \in 1 .. m - k : b[j] = (n + k) + j
      BY <1>4, <1>5, <1>6
    <2> QED BY <1>3, <2>1, Zenon DEF Follows
  <1> QED BY <1>1, <1>2, <1>3, <1>7, <1>8, Zenon

LEMMA FollowsAppend ==
  ASSUME NEW s \in Seq(Nat), NEW n \in Nat, Follows(s, n), NEW e \in Nat, e = n + Len(s) + 1
  PROVE  Append(s, e) \in Seq(Nat) /\ Len(Append(s, e)) = Len(s) + 1 /\ Follows(Append(s, e), n)
  <1>1. PICK t, m : t = Append(s, e) /\ m = Len(s)
    OBVIOUS
  <1>2. t \in Seq(Nat) /\ Len(t) = m + 1 /\ t[m + 1] = e /\ m \in Nat
    BY <1>1
  <1>3. \A j \in 1 .. m : t[j] = s[j]
    BY <1>1
  <1>4. \A j \in 1 .. m : s[j] = n + j
    BY <1>1 DEF Follows
  <1>5. e = n + (m + 1)
    BY <1>1, <1>2
  <1>6. Follows(t, n)
    <2>1. \A j \in 1 .. m + 1 : t[j] = n + j
      BY <1>2, <1>3, <1>4, <1>5
    <2> QED BY <1>2, <2>1, Zenon DEF Follows
  <1> QED BY <1>1, <1>2, <1>6, Zenon

LEMMA FollowsTail ==
  ASSUME NEW s \in Seq(Nat), NEW n \in Nat, Follows(s, n), s # <<>>
  PROVE  /\ Head(s) = n + 1 /\ Tail(s) \in Seq(Nat) /\ Len(s) - 1 \in Nat /\ Len(Tail(s)) = Len(s) - 1
         /\ Follows(Tail(s), n + 1)
  <1>1. PICK t, m : t = Tail(s) /\ m = Len(s)
    OBVIOUS
  <1>2. Head(s) = s[1] /\ m - 1 \in Nat /\ m \in Nat /\ t \in Seq(Nat) /\ Len(t) = m - 1
    BY <1>1
  <1>3. \A j \in 1 .. m - 1 : t[j] = s[j + 1]
    BY <1>1
  <1>4. \A j \in 1 .. m : s[j] = n + j
    BY <1>1 DEF Follows
  <1>5. Follows(t, n + 1)
    <2>1. \A j \in 1 .. m - 1 : t[j] = (n + 1) + j
      BY <1>2, <1>3, <1>4
    <2> QED BY <1>2, <2>1, Zenon DEF Follows
  <1>6. Head(s) = n + 1
    BY <1>2, <1>4
  <1> QED BY <1>1, <1>2, <1>5, <1>6, Zenon

LEMMA ConnStart ==
  ASSUME NEW first \in {"sniff", "handshake", "process"}
  PROVE  LET c == [pc |-> first, sent |-> 0, eof |-> FALSE, peek |-> <<>>, net |-> <<>>, seen |-> <<>>]
         IN  c \in ConnRecs /\ InStep(c)
  BY DEF ConnRecs, InStep, Follows

(* The parts of a connection in step, and what puts them together again.   *)
Parted(z, p, s, k, q, n) ==
    /\ z \in Seq(Nat) /\ p \in Seq(Nat) /\ s \in Seq(Nat) /\ k \in Nat /\ q \in Nat /\ n \in Nat
    /\ k = Len(z) /\ q = Len(p) /\ n = Len(s)
    /\ Follows(z, 0) /\ Follows(p, k) /\ Follows(s, k + q)

LEMMA Parts ==
  ASSUME NEW c \in ConnRecs, InStep(c)
  PROVE  \E z, p, s, k, q, n :
            z = c.seen /\ p = c.peek /\ s = c.net /\ c.sent = k + q + n /\ Parted(z, p, s, k, q, n)
  <1>1. PICK z, p, s : z = c.seen /\ p = c.peek /\ s = c.net
    OBVIOUS
  <1>2. z \in Seq(Nat) /\ p \in Seq(Nat) /\ s \in Seq(Nat)
    BY <1>1 DEF ConnRecs
  <1>3. PICK k, q, n : k = Len(z) /\ q = Len(p) /\ n = Len(s)
    OBVIOUS
  <1>4. k \in Nat /\ q \in Nat /\ n \in Nat
    BY <1>2, <1>3
  <1>5. Follows(z, 0) /\ Follows(p, k) /\ Follows(s, k + q) /\ c.sent = k + q + n
    BY <1>1, <1>3, Zenon DEF InStep
  <1>6. Parted(z, p, s, k, q, n)
    BY <1>2, <1>3, <1>4, <1>5, Zenon DEF Parted
  <1> QED BY <1>1, <1>5, <1>6, Zenon

LEMMA Together ==
  ASSUME NEW c, NEW z, NEW p, NEW s, NEW k, NEW q, NEW n, Parted(z, p, s, k, q, n),
         c.seen = z, c.peek = p, c.net = s, c.sent = k + q + n,
         c.pc \notin {"tls", "process", "served", "closed"} => p = <<>>, c.pc # "served"
  PROVE  InStep(c)
  BY Zenon DEF InStep, Parted

(* A byte more on the way; some of what is on the way peeked; a byte read. *)
LEMMA OneMore ==
  ASSUME NEW z, NEW p, NEW s, NEW k, NEW q, NEW n, Parted(z, p, s, k, q, n)
  PROVE  Parted(z, p, Append(s, k + q + n + 1), k, q, n + 1)
  <1>1. /\ s \in Seq(Nat) /\ k + q \in Nat /\ k + q + n + 1 \in Nat /\ n + 1 \in Nat
        /\ Follows(s, k + q) /\ n = Len(s)
    BY DEF Parted
  <1>2. k + q + n + 1 = (k + q) + Len(s) + 1
    BY <1>1
  <1>3. PICK t : t = Append(s, k + q + n + 1)
    OBVIOUS
  <1>4. t \in Seq(Nat) /\ Len(t) = n + 1 /\ Follows(t, k + q)
    BY <1>1, <1>2, <1>3, FollowsAppend, Zenon
  <1> QED BY <1>1, <1>3, <1>4, Zenon DEF Parted

LEMMA SomePeeked ==
  ASSUME NEW z, NEW p, NEW s, NEW k, NEW q, NEW m, Parted(z, p, s, k, q, m), q = 0, NEW n \in 0 .. m
  PROVE  Parted(z, SubSeq(s, 1, n), SubSeq(s, n + 1, Len(s)), k, n, m - n) /\ k + q + m = k + n + (m - n)
  <1>1. s \in Seq(Nat) /\ k \in Nat /\ m \in Nat /\ m = Len(s) /\ Follows(s, k) /\ n \in Nat /\ m - n \in Nat
    BY DEF Parted
  <1>2. PICK a, b : a = SubSeq(s, 1, n) /\ b = SubSeq(s, n + 1, Len(s))
    OBVIOUS
  <1>3. n \in 0 .. Len(s)
    BY <1>1
  <1>4. /\ a \in Seq(Nat) /\ Len(a) = n /\ Follows(a, k)
        /\ b \in Seq(Nat) /\ Len(b) = m - n /\ Follows(b, k + n)
    BY <1>1, <1>2, <1>3, FollowsCut, Zenon
  <1>5. Parted(z, a, b, k, n, m - n)
    BY <1>1, <1>4, Zenon DEF Parted
  <1>6. k + q + m = k + n + (m - n)
    BY <1>1
  <1> QED BY <1>2, <1>5, <1>6, Zenon

LEMMA PeekRead ==
  ASSUME NEW z, NEW p, NEW s, NEW k, NEW q, NEW n, Parted(z, p, s, k, q, n), p # <<>>
  PROVE  Parted(Append(z, Head(p)), Tail(p), s, k + 1, q - 1, n) /\ k + q + n = (k + 1) + (q - 1) + n
  <1>1. /\ z \in Seq(Nat) /\ p \in Seq(Nat) /\ k \in Nat /\ q \in Nat /\ k = Len(z) /\ q = Len(p)
        /\ Follows(z, 0) /\ Follows(p, k) /\ Follows(s, k + q)
        /\ s \in Seq(Nat) /\ n \in Nat /\ n = Len(s)
    BY Zenon DEF Parted
  <1>2. PICK y, t : y = Append(z, Head(p)) /\ t = Tail(p)
    OBVIOUS
  <1>3. t \in Seq(Nat) /\ Head(p) = k + 1 /\ Len(t) = q - 1 /\ q - 1 \in Nat /\ Follows(t, k + 1)
    BY <1>1, <1>2, FollowsTail, Zenon
  <1>4. 0 \in Nat /\ k + 1 \in Nat /\ k + 1 = 0 + Len(z) + 1
    BY <1>1
  <1>5. y \in Seq(Nat) /\ Len(y) = k + 1 /\ Follows(y, 0)
    <2>1. PICK e \in Nat : e = k + 1
      BY <1>4
    <2>2. e = 0 + Len(z) + 1 /\ Follows(z, 0)
      BY <1>1, <1>4, <2>1
    <2>3. Append(z, e) \in Seq(Nat) /\ Len(Append(z, e)) = Len(z) + 1 /\ Follows(Append(z, e), 0)
      BY <1>1, <1>4, <2>2, FollowsAppend
    <2> QED BY <1>1, <1>2, <1>3, <2>1, <2>3, Zenon
  <1>6. (k + 1) + (q - 1) = k + q /\ k + q + n = (k + 1) + (q - 1) + n
    BY <1>1
  <1>7. Parted(y, t, s, k + 1, q - 1, n)
    BY <1>1, <1>3, <1>4, <1>5, <1>6, Zenon DEF Parted
  <1> QED BY <1>2, <1>6, <1>7, Zenon

LEMMA NetRead ==
  ASSUME NEW z, NEW p, NEW s, NEW k, NEW q, NEW n, Parted(z, p, s, k, q, n), p = <<>>, s # <<>>
  PROVE  Parted(Append(z, Head(s)), p, Tail(s), k + 1, q, n - 1) /\ k + q + n = (k + 1) + q + (n - 1)
  <1>1. /\ z \in Seq(Nat) /\ p \in Seq(Nat) /\ k \in Nat /\ q \in Nat /\ k = Len(z) /\ q = Len(p)
        /\ Follows(z, 0) /\ Follows(s, k + q)
        /\ s \in Seq(Nat) /\ n \in Nat /\ n = Len(s)
    BY Zenon DEF Parted
  <1>2. q = 0 /\ Follows(p, k + 1)
    BY <1>1 DEF Follows
  <1>3. 0 \in Nat /\ k + 1 \in Nat /\ k + 1 = 0 + Len(z) + 1 /\ k + q = k /\ (k + 1) + q = k + 1
    BY <1>1, <1>2
  <1>4. PICK y, t : y = Append(z, Head(s)) /\ t = Tail(s)
    OBVIOUS
  <1>5. t \in Seq(Nat) /\ Head(s) = k + 1 /\ Len(t) = n - 1 /\ n - 1 \in Nat /\ Follows(t, k + 1)
    BY <1>1, <1>3, <1>4, FollowsTail, Zenon
  <1>6. y \in Seq(Nat) /\ Len(y) = k + 1 /\ Follows(y, 0)
    <2>1. PICK e \in Nat : e = k + 1
      BY <1>3
    <2>2. e = 0 + Len(z) + 1 /\ Follows(z, 0)
      BY <1>1, <1>3, <2>1
    <2>3. Append(z, e) \in Seq(Nat) /\ Len(Append(z, e)) = Len(z) + 1 /\ Follows(Append(z, e), 0)
      BY <1>1, <1>3, <2>2, FollowsAppend
    <2> QED BY <1>1, <1>4, <1>5, <2>1, <2>3, Zenon
  <1>7. Parted(y, p, t, k + 1, q, n - 1)
    BY <1>1, <1>2, <1>3, <1>5, <1>6, Zenon DEF Parted
  <1>8. k + q + n = (k + 1) + q + (n - 1)
    BY <1>1
  <1> QED BY <1>4, <1>7, <1>8, Zenon

LEMMA AcceptSteps ==
  ASSUME ConnsInv, AcceptRaw \/ AcceptHysteria \/ AcceptQuic \/ AcceptH2 \/ AcceptStream
  PROVE  ConnsInv'
  <1>1. PICK first \in {"sniff", "handshake", "process"} :
          conns' = Append(conns, [pc |-> first, sent |-> 0, eof |-> FALSE,
                                  peek |-> <<>>, net |-> <<>>, seen |-> <<>>])
    BY DEF AcceptRaw, AcceptHysteria, AcceptQuic, AcceptH2, AcceptStream, Accepts
  <1> QED BY <1>1, ConnStart, ConnAdded

LEMMA StageSteps ==
  ASSUME ConnsInv, NEW i \in DOMAIN conns,
         \/ PeerShuts(i) \/ ProcessEnds(i) \/ HysteriaCloses(i)
         \/ \E ok \in BOOLEAN : TlsWrap(i, ok) \/ QuicHandshake(i, ok) \/ HysteriaAuth(i, ok) \/ QuicStream(i, ok)
  PROVE  ConnsInv'
  <1>1. conns[i] \in ConnRecs /\ InStep(conns[i])
    BY DEF ConnsInv
  <1>2. CASE PeerShuts(i)
    <2>1. PICK c : c = [conns[i] EXCEPT !.eof = TRUE]
      OBVIOUS
    <2>2. c \in ConnRecs /\ c.eof /\ ConnDoes(i, c) /\ c.pc = conns[i].pc
          /\ c.sent = conns[i].sent /\ c.peek = conns[i].peek /\ c.net = conns[i].net /\ c.seen = conns[i].seen
      BY <1>1, <1>2, <2>1 DEF PeerShuts, ConnRecs
    <2>3. InStep(c)
      BY <1>1, <2>2 DEF InStep
    <2> QED BY <2>2, <2>3, ConnReplaced
  <1>3. CASE ~PeerShuts(i)
    <2>1. PICK to \in {"process", "served", "auth", "stream", "streams", "closed"} :
            /\ ConnDoes(i, [conns[i] EXCEPT !.pc = to])
            /\ to = "served" => conns[i].eof /\ conns[i].peek = <<>> /\ conns[i].net = <<>>
            /\ to \in {"auth", "stream", "streams"} => conns[i].pc \in {"handshake", "auth"}
      BY <1>3 DEF ProcessEnds, HysteriaCloses, TlsWrap, QuicHandshake, HysteriaAuth, QuicStream
    <2>2. PICK c : c = [conns[i] EXCEPT !.pc = to]
      OBVIOUS
    <2>3. c \in ConnRecs /\ c.pc = to /\ c.eof = conns[i].eof
          /\ c.sent = conns[i].sent /\ c.peek = conns[i].peek /\ c.net = conns[i].net /\ c.seen = conns[i].seen
      BY <1>1, <2>2 DEF ConnRecs
    <2> QED BY <2>1, <2>2, <2>3, StageMoves
  <1> QED BY <1>2, <1>3

LEMMA SendsStep == ASSUME ConnsInv, NEW i \in DOMAIN conns, PeerSends(i) PROVE ConnsInv'
  <1>1. conns[i] \in ConnRecs /\ InStep(conns[i])
    BY DEF ConnsInv
  <1>2. PICK z, p, s, k, q, n :
          /\ z = conns[i].seen /\ p = conns[i].peek /\ s = conns[i].net
          /\ conns[i].sent = k + q + n /\ Parted(z, p, s, k, q, n)
    BY <1>1, Parts, ZenonT(30)
  <1>3. PICK m, t : m = k + q + n + 1 /\ t = Append(s, k + q + n + 1)
    OBVIOUS
  <1>4. Parted(z, p, t, k, q, n + 1) /\ m = k + q + (n + 1) /\ m \in Nat /\ t \in Seq(Nat)
    <2>1. Parted(z, p, t, k, q, n + 1)
      BY <1>2, <1>3, OneMore
    <2>2. k \in Nat /\ q \in Nat /\ n \in Nat /\ t \in Seq(Nat)
      BY <1>2, <2>1 DEF Parted
    <2> QED BY <1>3, <2>1, <2>2
  <1>5. PICK c : c = [conns[i] EXCEPT !.sent = m, !.net = t]
    OBVIOUS
  <1>6. c \in ConnRecs /\ c.sent = m /\ c.net = t /\ c.eof = conns[i].eof /\ c.pc = conns[i].pc
        /\ c.peek = conns[i].peek /\ c.seen = conns[i].seen
    BY <1>1, <1>4, <1>5 DEF ConnRecs
  <1>7. ConnDoes(i, c)
    BY <1>1, <1>2, <1>3, <1>5 DEF PeerSends, ConnRecs
  <1>8. c.pc # "served" /\ (c.pc \notin {"tls", "process", "served", "closed"} => p = <<>>)
    BY <1>1, <1>2, <1>6, Zenon DEF InStep, PeerSends
  <1>9. InStep(c)
    BY <1>2, <1>4, <1>6, <1>8, Together, Zenon
  <1> QED BY <1>6, <1>7, <1>9, ConnReplaced

(* The sniffer's read moves a first part of what is on the way.            *)
LEMMA SniffStep == ASSUME ConnsInv, NEW i \in DOMAIN conns, NEW n \in 0 .. MaxSent, Sniff(i, n) PROVE ConnsInv'
  <1>1. conns[i] \in ConnRecs /\ InStep(conns[i]) /\ conns[i].pc = "sniff"
    BY DEF ConnsInv, Sniff
  <1>2. conns[i].peek = <<>>
    BY <1>1 DEF InStep
  <1>3. PICK z, p, s, k, q, m :
          /\ z = conns[i].seen /\ p = conns[i].peek /\ s = conns[i].net
          /\ conns[i].sent = k + q + m /\ Parted(z, p, s, k, q, m)
    BY <1>1, Parts, ZenonT(30)
  <1>4. q = 0 /\ n \in 0 .. m
    <2>1. p = <<>> /\ q = Len(p)
      BY <1>2, <1>3, Zenon DEF Parted
    <2>2. n \in 1 .. Len(s) \/ n = 0
      BY <1>3, Zenon DEF Sniff
    <2>3. m = Len(s) /\ m \in Nat
      BY <1>3 DEF Parted
    <2> QED BY <2>1, <2>2, <2>3
  <1>5. PICK a, b : a = SubSeq(s, 1, n) /\ b = SubSeq(s, n + 1, Len(s))
    OBVIOUS
  <1>6. Parted(z, a, b, k, n, m - n) /\ conns[i].sent = k + n + (m - n)
    <2>1. Parted(z, p, s, k, q, m)
      BY <1>3
    <2>2. Parted(z, SubSeq(s, 1, n), SubSeq(s, n + 1, Len(s)), k, n, m - n) /\ k + q + m = k + n + (m - n)
      BY <1>4, <2>1, SomePeeked
    <2> QED BY <1>3, <1>5, <2>2, Zenon
  <1>7. a \in Seq(Nat) /\ b \in Seq(Nat)
    BY <1>6, Zenon DEF Parted
  <1>8. PICK c : c = [conns[i] EXCEPT !.pc = "tls", !.peek = a, !.net = b]
    OBVIOUS
  <1>9. /\ c \in ConnRecs /\ c.pc = "tls" /\ c.peek = a /\ c.net = b /\ c.seen = conns[i].seen
        /\ c.sent = conns[i].sent
    BY <1>1, <1>7, <1>8 DEF ConnRecs
  <1>10. ConnDoes(i, c)
    BY <1>1, <1>3, <1>5, <1>8 DEF Sniff, Peeked, ConnRecs
  <1>11. InStep(c)
    <2>1. c.seen = z /\ c.sent = k + n + (m - n)
      BY <1>3, <1>6, <1>9, Zenon
    <2>2. c.pc # "served" /\ c.pc \in {"tls", "process", "served", "closed"}
      BY <1>9
    <2> QED BY <1>6, <1>9, <2>1, <2>2, Together, Zenon
  <1> QED BY <1>9, <1>10, <1>11, ConnReplaced

(* The proxy reads the peeked bytes first, then the connection.            *)
LEMMA PollReadStep == ASSUME ConnsInv, NEW i \in DOMAIN conns, PollRead(i) PROVE ConnsInv'
  <1>1. conns[i] \in ConnRecs /\ InStep(conns[i]) /\ conns[i].pc = "process"
    BY DEF ConnsInv, PollRead
  <1>2. PICK z, p, s, k, q, n :
          /\ z = conns[i].seen /\ p = conns[i].peek /\ s = conns[i].net
          /\ conns[i].sent = k + q + n /\ Parted(z, p, s, k, q, n)
    BY <1>1, Parts, ZenonT(30)
  <1>3. PICK y, u, t, l, v, w :
          /\ Parted(y, u, t, l, v, w) /\ conns[i].sent = l + v + w
          /\ ConnDoes(i, [conns[i] EXCEPT !.seen = y, !.peek = u, !.net = t])
    <2>1. CASE p # <<>>
      <3>1. Parted(Append(z, Head(p)), Tail(p), s, k + 1, q - 1, n) /\ conns[i].sent = (k + 1) + (q - 1) + n
        <4>1. Parted(z, p, s, k, q, n)
          BY <1>2
        <4>2. Parted(Append(z, Head(p)), Tail(p), s, k + 1, q - 1, n) /\ k + q + n = (k + 1) + (q - 1) + n
          BY <2>1, <4>1, PeekRead
        <4> QED BY <1>2, <4>2, Zenon
      <3>2. ConnDoes(i, [conns[i] EXCEPT !.seen = Append(z, Head(p)), !.peek = Tail(p), !.net = s])
        BY <1>1, <1>2, <2>1 DEF PollRead, ConnRecs
      <3> QED BY <3>1, <3>2, Zenon
    <2>2. CASE p = <<>>
      <3>1. s # <<>>
        BY <1>2, <2>2 DEF PollRead
      <3>2. Parted(Append(z, Head(s)), p, Tail(s), k + 1, q, n - 1) /\ conns[i].sent = (k + 1) + q + (n - 1)
        <4>1. Parted(z, p, s, k, q, n)
          BY <1>2
        <4>2. Parted(Append(z, Head(s)), p, Tail(s), k + 1, q, n - 1) /\ k + q + n = (k + 1) + q + (n - 1)
          BY <2>2, <3>1, <4>1, NetRead
        <4> QED BY <1>2, <4>2, Zenon
      <3>3. ConnDoes(i, [conns[i] EXCEPT !.seen = Append(z, Head(s)), !.peek = p, !.net = Tail(s)])
        BY <1>1, <1>2, <2>2 DEF PollRead, ConnRecs
      <3> QED BY <3>2, <3>3, Zenon
    <2> QED BY <2>1, <2>2
  <1>4. y \in Seq(Nat) /\ u \in Seq(Nat) /\ t \in Seq(Nat)
    BY <1>3, Zenon DEF Parted
  <1>5. PICK c : c = [conns[i] EXCEPT !.seen = y, !.peek = u, !.net = t]
    OBVIOUS
  <1>6. c \in ConnRecs /\ c.pc = "process" /\ c.seen = y /\ c.peek = u /\ c.net = t /\ c.sent = conns[i].sent
    BY <1>1, <1>4, <1>5 DEF ConnRecs
  <1>7. c.pc # "served" /\ c.pc \in {"tls", "process", "served", "closed"}
    BY <1>6
  <1>8. InStep(c)
    BY <1>3, <1>6, <1>7, Together, Zenon
  <1> QED BY <1>3, <1>5, <1>6, <1>8, ConnReplaced

LEMMA HysteriaStreamStep == ASSUME ConnsInv, NEW i \in DOMAIN conns, HysteriaStream(i) PROVE ConnsInv'
  <1>1. conns[i] \in ConnRecs /\ InStep(conns[i]) /\ conns[i].pc = "streams"
    BY DEF ConnsInv, HysteriaStream
  <1>2. conns[i].peek = <<>>
    BY <1>1 DEF InStep
  <1>3. PICK c : c = [conns[i] EXCEPT !.pc = "process", !.sent = 0, !.eof = FALSE, !.net = <<>>, !.seen = <<>>]
    OBVIOUS
  <1>4. c = [pc |-> "process", sent |-> 0, eof |-> FALSE, peek |-> <<>>, net |-> <<>>, seen |-> <<>>]
    BY <1>1, <1>2, <1>3 DEF ConnRecs
  <1>5. conns' = Append(conns, c)
    BY <1>3 DEF HysteriaStream
  <1> QED BY <1>4, <1>5, ConnStart, ConnAdded

LEMMA ConnsStep == ConnsInv /\ [ConnNext]_connVars => ConnsInv'
  <1> SUFFICES ASSUME ConnsInv, [ConnNext]_connVars PROVE ConnsInv'
    OBVIOUS
  <1>1. CASE UNCHANGED connVars
    BY <1>1 DEF connVars, ConnsInv
  <1>2. CASE AcceptRaw \/ AcceptHysteria \/ AcceptQuic \/ AcceptH2 \/ AcceptStream
    BY <1>2, AcceptSteps
  <1>3. ASSUME NEW i \in DOMAIN conns,
               \/ PeerShuts(i) \/ ProcessEnds(i) \/ HysteriaCloses(i)
               \/ \E ok \in BOOLEAN : TlsWrap(i, ok) \/ QuicHandshake(i, ok) \/ HysteriaAuth(i, ok) \/ QuicStream(i, ok)
        PROVE  ConnsInv'
    BY <1>3, StageSteps
  <1>4. ASSUME NEW i \in DOMAIN conns,
               PeerSends(i) \/ PollRead(i) \/ HysteriaStream(i) \/ \E n \in 0 .. MaxSent : Sniff(i, n)
        PROVE  ConnsInv'
    BY <1>4, SendsStep, PollReadStep, HysteriaStreamStep, SniffStep
  <1> QED BY <1>1, <1>2, <1>3, <1>4 DEF ConnNext

(* Whatever the sniffer's first read returned, and however many            *)
(* connections and streams are served beside it, the proxy reads the bytes *)
(* of its client from the first one and in order, and meets the end of the *)
(* stream only after the last.                                             *)
THEOREM SniffingIsFree == ConnSpec => []SniffLosesNothing
  <1>1. ConnInit => ConnsInv
    BY DEF ConnInit, ConnsInv
  <1>2. ConnsInv => SniffLosesNothing
    <2> SUFFICES ASSUME ConnsInv, NEW i \in DOMAIN conns
                 PROVE  /\ conns[i].seen = [n \in 1 .. Len(conns[i].seen) |-> n]
                        /\ conns[i].pc = "served" => Len(conns[i].seen) = conns[i].sent
      BY DEF SniffLosesNothing
    <2>1. conns[i] \in ConnRecs /\ InStep(conns[i])
      BY DEF ConnsInv
    <2>2. PICK z \in Seq(Nat) : z = conns[i].seen /\ Follows(z, 0)
      BY <2>1 DEF ConnRecs, InStep
    <2>3. z = [n \in 1 .. Len(z) |-> n]
      BY <2>2 DEF Follows
    <2> QED BY <2>1, <2>2, <2>3 DEF ConnRecs, InStep
  <1> QED BY <1>1, <1>2, ConnsStep, PTL DEF ConnSpec
==============================================================================
