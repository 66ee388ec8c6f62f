------------------------------ MODULE Inbounds ------------------------------
(***************************************************************************)
(* The inbound listeners: main starts the configured ones, the gRPC        *)
(* HandlerService adds and removes others, inbound::Manager keeps one      *)
(* abort handle per tag, AlwaysOnInboundHandler::start binds and serves;   *)
(* what becomes of a connection is in InboundConns.  An abort takes effect *)
(* at the task's next await, so it is a step of its own, and what a        *)
(* listener spawned is a separate task that outlives it.                   *)
(***************************************************************************)
EXTENDS Integers, Sequences, FiniteSets, Functions

CONSTANTS MainConfigs,    \* configuration files: their inbounds, in order
          ApiConfigs,     \* the inbounds API requests ask for
          ApiCalls,       \* concurrent add_inbound requests
          MaxTasks        \* bound: listeners ever spawned

ASSUME MainConfigsAreLists == \A m \in MainConfigs : m \in Seq(Range(m))

Main == "main"
Configs == ApiConfigs \cup UNION {Range(m) : m \in MainConfigs}
Ports == {c.port : c \in Configs}
Tags == {c.tag : c \in Configs}
Unbound == 0

VARIABLES todo,      \* configured inbounds main has not started yet
          call,      \* what main and each request are doing
          tasks,     \* the spawned listeners
          running,   \* Manager::running: a tag's task, or Unbound
          tcpPort, udpPort,   \* the task that holds the port, or Unbound
          loops      \* the loops listeners spawned: task |-> what it waits for
inboundVars == <<todo, call, tasks, running, tcpPort, udpPort, loops>>

InboundInit ==
    /\ todo \in MainConfigs
    /\ call = [c \in ApiCalls \cup {Main} |-> [pc |-> "idle"]]
    /\ tasks = <<>> /\ loops = << >>
    /\ running = [g \in Tags |-> Unbound]
    /\ tcpPort = [p \in Ports |-> Unbound] /\ udpPort = [p \in Ports |-> Unbound]

HasUdp(cfg) == cfg.network \in {"udp", "both"}
HasTcp(cfg) == cfg.network \in {"tcp", "both"}
Loops == DOMAIN loops

-----------------------------------------------------------------------------
(* Starting, adding and removing.  Main does not look whether a tag is     *)
(* taken; a request does, and builds, spawns and registers afterwards.     *)
MainTakes == /\ call[Main].pc = "idle" /\ todo # <<>>
             /\ call' = [call EXCEPT ![Main] = [pc |-> "checked", cfg |-> Head(todo)]]
             /\ todo' = Tail(todo)
             /\ UNCHANGED <<tasks, running, tcpPort, udpPort, loops>>

AddInbound(c, cfg) ==
    /\ todo = <<>> /\ call[Main].pc = "idle" /\ call[c].pc = "idle"
    /\ call' = [call EXCEPT ![c] =
                  IF cfg.valid /\ running[cfg.tag] = Unbound
                  THEN [pc |-> "checked", cfg |-> cfg] ELSE [pc |-> "refused"]]
    /\ UNCHANGED <<todo, tasks, running, tcpPort, udpPort, loops>>

SpawnInbound(c) ==
    /\ call[c].pc = "checked" /\ Len(tasks) < MaxTasks
    /\ tasks' = Append(tasks, [cfg |-> call[c].cfg, pc |-> "start", abort |-> FALSE])
    /\ call' = [call EXCEPT ![c] = [pc |-> "spawned", cfg |-> @.cfg, task |-> Len(tasks) + 1]]
    /\ UNCHANGED <<todo, running, tcpPort, udpPort, loops>>

Aborted(t) == IF t = Unbound THEN tasks ELSE [tasks EXCEPT ![t].abort = TRUE]

BugManagerAdd(c) ==
    /\ call[c].pc = "spawned"
    /\ running' = [running EXCEPT ![call[c].cfg.tag] = call[c].task]
    /\ call' = [call EXCEPT ![c] = [pc |-> IF c = Main THEN "idle" ELSE "added"]]
    /\ UNCHANGED <<todo, tasks, tcpPort, udpPort, loops>>

ManagerAdd(c) ==
    /\ call[c].pc = "spawned"
    /\ running' = [running EXCEPT ![call[c].cfg.tag] = call[c].task]
    /\ tasks' = Aborted(running[call[c].cfg.tag])
    /\ call' = [call EXCEPT ![c] = [pc |-> IF c = Main THEN "idle" ELSE "added"]]
    /\ UNCHANGED <<todo, tcpPort, udpPort, loops>>

RemoveInbound(g) ==
    /\ todo = <<>> /\ call[Main].pc = "idle" /\ running[g] # Unbound
    /\ tasks' = Aborted(running[g]) /\ running' = [running EXCEPT ![g] = Unbound]
    /\ UNCHANGED <<todo, call, tcpPort, udpPort, loops>>

-----------------------------------------------------------------------------
(* AlwaysOnInboundHandler::start.                                          *)
TaskGoes(t, pc) == tasks' = [tasks EXCEPT ![t].pc = pc]
Take(ports, p, t) == [ports EXCEPT ![p] = t]
Freed(ports, t) == [p \in Ports |-> IF ports[p] = t THEN Unbound ELSE ports[p]]
With(ls, t, what) == [u \in DOMAIN ls \cup {t} |-> IF u = t THEN what ELSE ls[u]]

RawStart(t) ==
    LET cfg == tasks[t].cfg IN
    /\ tasks[t].pc = "start" /\ cfg.mode = "raw"
    /\ IF HasUdp(cfg) /\ udpPort[cfg.port] = Unbound
         THEN /\ udpPort' = Take(udpPort, cfg.port, t)
              /\ loops' = With(loops, t, "recv")
         ELSE UNCHANGED <<udpPort, loops>>
    /\ TaskGoes(t, IF HasUdp(cfg) /\ udpPort[cfg.port] # Unbound THEN "ended"
                   ELSE IF HasTcp(cfg) THEN "tcp" ELSE "ended")
    /\ UNCHANGED <<todo, call, running, tcpPort>>

SecureStart(t) ==        \* quic, hysteria and h2 refuse to start without TLS
    LET cfg == tasks[t].cfg IN
    /\ tasks[t].pc = "start" /\ cfg.mode \in {"quic", "hysteria", "h2"}
    /\ IF cfg.mode = "h2" \/ ~cfg.tls \/ udpPort[cfg.port] # Unbound
         THEN UNCHANGED udpPort ELSE udpPort' = Take(udpPort, cfg.port, t)
    /\ TaskGoes(t, IF ~cfg.tls THEN "ended" ELSE IF cfg.mode = "h2" THEN "tcp"
                   ELSE IF udpPort[cfg.port] # Unbound THEN "ended" ELSE "accept")
    /\ UNCHANGED <<todo, call, running, tcpPort, loops>>

StreamStart(t) == /\ tasks[t].pc = "start" /\ tasks[t].cfg.mode = "splithttp"
                  /\ TaskGoes(t, "tcp")
                  /\ UNCHANGED <<todo, call, running, tcpPort, udpPort, loops>>

KcpStart(t) ==
    LET p == tasks[t].cfg.port IN
    /\ tasks[t].pc = "start" /\ tasks[t].cfg.mode = "kcp"
    /\ IF udpPort[p] = Unbound
         THEN TaskGoes(t, "accept") /\ udpPort' = Take(udpPort, p, t)
         ELSE TaskGoes(t, "ended") /\ UNCHANGED udpPort
    /\ UNCHANGED <<todo, call, running, tcpPort, loops>>

(* serve_ws, serve_grpc and httpupgrade's serve bind, spawn their accept   *)
(* loop and return: the listener's task is over while the port is served.  *)
SpawnServe(t) ==
    LET p == tasks[t].cfg.port IN
    /\ tasks[t].pc = "start" /\ tasks[t].cfg.mode = "spawned" /\ TaskGoes(t, "ended")
    /\ IF tcpPort[p] = Unbound
         THEN tcpPort' = Take(tcpPort, p, t) /\ loops' = With(loops, t, "serve")
         ELSE UNCHANGED <<tcpPort, loops>>
    /\ UNCHANGED <<todo, call, running, udpPort>>

BindTcp(t) ==
    LET p == tasks[t].cfg.port IN
    /\ tasks[t].pc = "tcp"
    /\ IF tcpPort[p] = Unbound
         THEN TaskGoes(t, "accept") /\ tcpPort' = Take(tcpPort, p, t)
         ELSE TaskGoes(t, "ended") /\ UNCHANGED tcpPort
    /\ UNCHANGED <<todo, call, running, udpPort, loops>>

TaskCancelled(t) ==      \* dropping the future closes the sockets it owns
    /\ tasks[t].abort /\ tasks[t].pc # "ended" /\ TaskGoes(t, "ended")
    /\ tcpPort' = Freed(tcpPort, t)
    /\ udpPort' = IF t \in Loops THEN udpPort ELSE Freed(udpPort, t)
    /\ UNCHANGED <<todo, call, running, loops>>

-----------------------------------------------------------------------------
(* The datagram loop: one datagram at a time, its answer awaited up to ten *)
(* seconds before the next one is received.                                *)
UdpGoes(t, to) == /\ loops' = [loops EXCEPT ![t] = to]
                  /\ UNCHANGED <<todo, call, tasks, running, tcpPort, udpPort>>
UdpDispatches(t) == loops[t] = "recv" /\ UdpGoes(t, "answer")
UdpAnswered(t) == loops[t] = "answer" /\ UdpGoes(t, "recv")   \* or timed out
LoopEnds(t) ==           \* a failed receive or accept: the socket is dropped
    /\ loops[t] \in {"recv", "serve"}
    /\ loops' = [u \in Loops \ {t} |-> loops[u]]
    /\ udpPort' = Freed(udpPort, t)
    /\ tcpPort' = IF loops[t] = "serve" THEN Freed(tcpPort, t) ELSE tcpPort
    /\ UNCHANGED <<todo, call, tasks, running>>

InboundNext ==
    \/ MainTakes
    \/ \E c \in ApiCalls, cfg \in ApiConfigs : AddInbound(c, cfg)
    \/ \E c \in ApiCalls \cup {Main} : SpawnInbound(c) \/ ManagerAdd(c)
    \/ \E g \in Tags : RemoveInbound(g)
    \/ \E t \in DOMAIN tasks : \/ RawStart(t) \/ SecureStart(t) \/ StreamStart(t) \/ KcpStart(t)
                               \/ SpawnServe(t) \/ BindTcp(t) \/ TaskCancelled(t)
    \/ \E t \in Loops : UdpDispatches(t) \/ UdpAnswered(t) \/ LoopEnds(t)

-----------------------------------------------------------------------------
BeingAdded(t) == \E c \in DOMAIN call : call[c].pc = "spawned" /\ call[c].task = t

(* A listener that serves and is not being aborted is the one its tag's    *)
(* handle in the Manager stops, whatever the order in which main and       *)
(* concurrent add_inbound requests checked, spawned and registered.        *)
ListenerIsRegistered ==
    \A t \in DOMAIN tasks : tasks[t].pc = "accept" /\ ~tasks[t].abort =>
        running[tasks[t].cfg.tag] = t \/ BeingAdded(t)

(* "Abort and remove an inbound" (inbound.rs:604): what serves a tag is    *)
(* what the registry holds for it; a removed inbound serves nothing.  Not  *)
(* an invariant: aborting the task leaves the UDP loops it spawned.        *)
RemovedInboundIsSilent ==
    \A t \in Loops : running[tasks[t].cfg.tag] = t \/ BeingAdded(t)
=============================================================================
