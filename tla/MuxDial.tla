------------------------------- MODULE MuxDial -------------------------------
(***************************************************************************)
(* Choosing a mux connection for an outbound stream: Handler::dial_mux of  *)
(* astra-core-proxyman/src/outbound.rs.  Concurrent dials share one slot,  *)
(* mux_client, behind a lock that is held while a session is opened on the *)
(* client found there, but not while a new connection is made.             *)
(*                                                                         *)
(* A client is abstracted to what dial_mux can see of it: its session      *)
(* count, the closed flag of its table (MuxSessions) and whether its       *)
(* connection is dead.                                                     *)
(***************************************************************************)
EXTENDS Integers, FiniteSets

CONSTANTS
    Dialers,         \* tasks that call dial() again and again
    DialConcurrency,  \* MuxClientStrategy::default().max_concurrency (8)
    MaxClients,      \* bound: connections made
    MaxLateGets      \* bound: dials answered by a dead client that are counted

Clients == 1 .. MaxClients
None == 0

ASSUME DialConstants ==
    /\ None \notin Dialers
    /\ DialConcurrency \in Nat \ {0}
    /\ MaxClients \in Nat /\ MaxLateGets \in Nat

VARIABLES
    mux_client,  \* the slot: a client or None
    lock,        \* the dialer that holds the slot's lock, or None
    dialpc,      \* program counter of each dialer
    cl,          \* the client a dialer is working on
    made,        \* clients created so far
    size,        \* sessions in each client's table
    tableClosed, \* clients whose table is closed
    dead,        \* clients whose read loop has ended
    late         \* history: streams handed out on a client after it died

dialVars == <<mux_client, lock, dialpc, cl, made, size, tableClosed, dead, late>>

PCs == {"start", "opening", "dialing", "first", "inserting", "publish"}

(* The slot and the dialers name clients that exist. *)
DialTypeOK ==
    /\ made \in 0 .. MaxClients
    /\ mux_client \in 0 .. made
    /\ lock \in Dialers \cup {None}
    /\ dialpc \in [Dialers -> PCs]
    /\ cl \in [Dialers -> 0 .. made]
    /\ size \in [Clients -> Nat]
    /\ tableClosed \subseteq 1 .. made /\ dead \subseteq 1 .. made
    /\ late \in [Clients -> 0 .. MaxLateGets]

DialInit ==
    /\ mux_client = None /\ lock = None
    /\ dialpc = [d \in Dialers |-> "start"] /\ cl = [d \in Dialers |-> None]
    /\ made = 0
    /\ size = [c \in Clients |-> 0] /\ late = [c \in Clients |-> 0]
    /\ tableClosed = {} /\ dead = {}

Goto(d, where) == dialpc' = [dialpc EXCEPT ![d] = where]

(* Counting a stream on client c that was handed out after c died. *)
CountLate(c) ==
    /\ c \in dead => late[c] < MaxLateGets
    /\ late' = IF c \in dead THEN [late EXCEPT ![c] = @ + 1] ELSE late
-----------------------------------------------------------------------------
(* dial_mux takes the lock; an empty slot or a closed table sends it on to *)
(* make a connection, and the lock is released.                            *)
DialNoClient(d) ==
    /\ dialpc[d] = "start" /\ lock = None
    /\ mux_client = None \/ mux_client \in tableClosed
    /\ Goto(d, "dialing")
    /\ UNCHANGED <<mux_client, lock, cl, made, size, tableClosed, dead, late>>

(* ... otherwise open_mux_stream goes on under the lock. *)
DialClient(d) ==
    /\ dialpc[d] = "start" /\ lock = None
    /\ mux_client # None /\ mux_client \notin tableClosed
    /\ lock' = d
    /\ cl' = [cl EXCEPT ![d] = mux_client]
    /\ Goto(d, "opening")
    /\ UNCHANGED <<mux_client, made, size, tableClosed, dead, late>>

(* allocate() refuses. *)
ClientFull(c) == size[c] >= DialConcurrency

(* The slot's client is full: a new connection is made. *)
OpenFull(d) ==
    /\ dialpc[d] = "opening"
    /\ ClientFull(cl[d])
    /\ lock' = None
    /\ Goto(d, "dialing")
    /\ UNCHANGED <<mux_client, cl, made, size, tableClosed, dead, late>>

(* A session on the slot's client, whether or not its connection is dead.  *)
OpenSession(d) ==
    /\ dialpc[d] = "opening"
    /\ ~ClientFull(cl[d])
    /\ size' = [size EXCEPT ![cl[d]] = @ + 1]
    /\ CountLate(cl[d])
    /\ lock' = None
    /\ Goto(d, "start")
    /\ UNCHANGED <<mux_client, cl, made, tableClosed, dead>>

(* dial_transport succeeds: MuxClient::new starts the client's tasks. *)
TransportUp(d) ==
    /\ dialpc[d] = "dialing" /\ made < MaxClients
    /\ made' = made + 1
    /\ cl' = [cl EXCEPT ![d] = made']
    /\ Goto(d, "first")
    /\ UNCHANGED <<mux_client, lock, size, tableClosed, dead, late>>

(* dial_transport fails: so does the dial. *)
TransportFails(d) ==
    /\ dialpc[d] = "dialing"
    /\ Goto(d, "start")
    /\ UNCHANGED <<mux_client, lock, cl, made, size, tableClosed, dead, late>>

(* "mux: failed to open initial session": the new client's monitor, whose  *)
(* first tick is immediate, has closed the empty table.                    *)
FirstRefused(d) ==
    /\ dialpc[d] = "first" /\ cl[d] \in tableClosed
    /\ Goto(d, "start")
    /\ UNCHANGED <<mux_client, lock, cl, made, size, tableClosed, dead, late>>

FirstChecked(d) ==
    /\ dialpc[d] = "first" /\ cl[d] \notin tableClosed
    /\ Goto(d, "inserting")
    /\ UNCHANGED <<mux_client, lock, cl, made, size, tableClosed, dead, late>>

FirstSession(d) ==
    /\ dialpc[d] = "inserting"
    /\ size' = [size EXCEPT ![cl[d]] = @ + 1]
    /\ CountLate(cl[d])
    /\ Goto(d, "publish")
    /\ UNCHANGED <<mux_client, lock, cl, made, tableClosed, dead>>

(* The new client replaces whatever the slot then holds. *)
Publish(d) ==
    /\ dialpc[d] = "publish" /\ lock = None
    /\ mux_client' = cl[d]
    /\ Goto(d, "start")
    /\ UNCHANGED <<lock, cl, made, size, tableClosed, dead, late>>
-----------------------------------------------------------------------------
BugRemovedAfterDeath(c) ==
    /\ c <= made
    /\ size[c] > 0
    /\ size' = [size EXCEPT ![c] = @ - 1]
    /\ UNCHANGED <<mux_client, lock, dialpc, cl, made, tableClosed, dead, late>>

(* The peer ends a session (read_loop removes it). *)
PeerEnds(c) ==
    /\ c <= made /\ c \notin dead
    /\ size[c] > 0
    /\ size' = [size EXCEPT ![c] = @ - 1]
    /\ UNCHANGED <<mux_client, lock, dialpc, cl, made, tableClosed, dead, late>>

(* The connection fails: the read loop ends, the table keeps its sessions. *)
ClientDies(c) ==
    /\ c <= made /\ c \notin dead
    /\ dead' = dead \cup {c}
    /\ UNCHANGED <<mux_client, lock, dialpc, cl, made, size, tableClosed, late>>

(* The monitor closes an empty table of a live client. *)
MonitorCloses(c) ==
    /\ c <= made /\ c \notin dead \cup tableClosed
    /\ size[c] = 0
    /\ tableClosed' = tableClosed \cup {c}
    /\ UNCHANGED <<mux_client, lock, dialpc, cl, made, size, dead, late>>

DialNext ==
    \/ \E d \in Dialers :
        \/ DialNoClient(d) \/ DialClient(d) \/ OpenFull(d) \/ OpenSession(d)
        \/ TransportUp(d) \/ TransportFails(d)
        \/ FirstRefused(d) \/ FirstChecked(d) \/ FirstSession(d) \/ Publish(d)
    \/ \E c \in Clients : PeerEnds(c) \/ ClientDies(c) \/ MonitorCloses(c)

DialSpec == DialInit /\ [][DialNext]_dialVars
-----------------------------------------------------------------------------
(* The slot is not cleared when its client dies, so dials go on being      *)
(* answered with streams of a dead connection; but never more often than   *)
(* a table has room: after that a new connection is made.                  *)
DeadClientRunsOut ==
    \A c \in Clients : late[c] <= DialConcurrency

(* No client ever carries more than max_concurrency sessions, although the *)
(* creator of a client opens its first session outside the slot's lock.    *)
ClientNotOverfull ==
    \A c \in Clients : size[c] <= DialConcurrency

(* A client whose table has been closed in good time (empty, connection    *)
(* alive) carries at most the one session that was between the check and   *)
(* the insertion when it was closed.                                       *)
ClosedClientNearlyIdle ==
    \A c \in tableClosed : size[c] <= 1

(* What dial_mux keeps in its slot runs out by itself: a dead client       *)
(* answers at most as many dials as its table has room for, no client is   *)
(* overfull, and one whose table was closed is left with at most the       *)
(* session that was being inserted.                                        *)
ClientsRunOut ==
    DialTypeOK /\ DeadClientRunsOut /\ ClientNotOverfull /\ ClosedClientNearlyIdle
=============================================================================
