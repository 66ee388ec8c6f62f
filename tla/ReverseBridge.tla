---------------------------- MODULE ReverseBridge ----------------------------
(***************************************************************************)
(* The bridge side of a reverse proxy: Bridge::start and BridgeWorker of   *)
(* astra-core-app-reverse/src/lib.rs on top of MuxServer of                *)
(* astra-core-mux/src/server.rs.                                           *)
(*                                                                         *)
(* The processes are the bridge's main loop (it runs the worker inside     *)
(* itself), the server's read loop and its monitor.  The portal is         *)
(* external and conforming: New and End per session, an id is reused only  *)
(* after its End.  A session object is the number of its New frame.  Keep  *)
(* frames only move bytes into a session's channel; MuxStream models them. *)
(***************************************************************************)
EXTENDS Integers, Sequences, FiniteSets, Functions

CONSTANTS
    BridgeIds,          \* session ids the portal uses
    MaxSessions,  \* bound: New frames the portal sends
    MaxDials      \* bound: connections the bridge makes

ASSUME BridgeConstants ==
    /\ MaxSessions \in Nat
    /\ MaxDials \in Nat \ {0}
    /\ 0 \notin BridgeIds

Objs == 1 .. MaxSessions
None == 0

VARIABLES
    brunning,   \* Bridge.running
    dials,     \* connections made so far
    main,      \* the main loop: where it is and the session it handles
    bdone,      \* MuxServer.done
    bup,        \* the connection works
    bwire,      \* frames from the portal: <<status, object, id>>
    portal,    \* external: objects per id that the portal has open, or None
    news,      \* New frames sent so far
    table,     \* SessionManager.sessions: id -> object
    bclosed,    \* SessionManager.closed
    breading,   \* read loop between add()'s closed check and its lock
    bmon,       \* monitor_loop: "tick", a sampled size, or "stopped"
    queue,     \* new_session_rx
    chans,     \* Session.channels of each object
    dispatched \* session objects dispatched so far

bconnVars == <<bwire, portal, table, bclosed, breading, bmon, queue, chans>>
bridgeVars == <<brunning, dials, main, bdone, bup, news, bconnVars, dispatched>>

Frames == {"New", "End"} \X Objs \X BridgeIds

(* Program counters, queues and maps hold what their Rust types allow. *)
BridgeTypeOK ==
    /\ brunning \in BOOLEAN /\ bdone \in BOOLEAN /\ bup \in BOOLEAN /\ bclosed \in BOOLEAN
    /\ dials \in 0 .. MaxDials
    /\ main \in [pc : {"dial", "recv", "got", "attach", "dispatch", "off"},
                 id : BridgeIds \cup {None}, obj : Objs \cup {None}]
    /\ bwire \in Seq(Frames)
    /\ portal \in [BridgeIds -> Objs \cup {None}]
    /\ news \in 0 .. MaxSessions
    /\ DOMAIN table \subseteq BridgeIds /\ Range(table) \subseteq Objs
    /\ breading \in Objs \cup {None}
    /\ bmon \in {"tick", "empty", "busy", "stopped"}
    /\ queue \in Seq(BridgeIds)
    /\ chans \in [Objs -> {"none", "some", "taken"}]
    /\ dispatched \subseteq Objs

(* MuxServer::new on a fresh link: an empty, open table. *)
FreshServer ==
    /\ bwire' = <<>> /\ portal' = [i \in BridgeIds |-> None]
    /\ table' = [i \in {} |-> None] /\ bclosed' = FALSE
    /\ breading' = None /\ bmon' = "tick" /\ queue' = <<>>
    /\ chans' = [o \in Objs |-> "none"]

BridgeInit ==
    /\ brunning = TRUE /\ dials = 0 /\ bdone = FALSE /\ bup = FALSE
    /\ main = [pc |-> "dial", id |-> None, obj |-> None]
    /\ news = 0 /\ dispatched = {}
    /\ bwire = <<>> /\ portal = [i \in BridgeIds |-> None]
    /\ table = [i \in {} |-> None] /\ bclosed = FALSE
    /\ breading = None /\ bmon = "stopped" /\ queue = <<>>
    /\ chans = [o \in Objs |-> "none"]
-----------------------------------------------------------------------------
(* The main loop dispatches the portal domain and starts a server on the   *)
(* link (a failed dispatch sleeps and comes back here).                    *)
MainDial ==
    /\ main.pc = "dial" /\ brunning
    /\ dials < MaxDials
    /\ dials' = dials + 1
    /\ bdone' = FALSE /\ bup' = TRUE
    /\ FreshServer
    /\ main' = [main EXCEPT !.pc = "recv"]
    /\ UNCHANGED <<brunning, news, dispatched>>

MainOff ==
    /\ main.pc = "dial" /\ ~brunning
    /\ main' = [main EXCEPT !.pc = "off"]
    /\ UNCHANGED <<brunning, dials, bdone, bup, news, bconnVars, dispatched>>

(* run(): recv() yields an id; on a finished server the worker returns.     *)
(* recv() never yields None: the worker's own server holds the sender.     *)
WorkerRecv ==
    /\ main.pc = "recv" /\ queue # <<>>
    /\ queue' = Tail(queue)
    /\ main' = IF bdone THEN [main EXCEPT !.pc = "dial"]
                       ELSE [main EXCEPT !.pc = "got", !.id = Head(queue)]
    /\ UNCHANGED <<brunning, dials, bdone, bup, news, bwire, portal, table, bclosed, breading,
                   bmon, chans, dispatched>>

(* handle_session(): look the id up; an unknown id is ignored. *)
WorkerGet ==
    /\ main.pc = "got"
    /\ main' = IF main.id \in DOMAIN table
               THEN [main EXCEPT !.pc = "attach", !.obj = table[main.id]]
               ELSE [main EXCEPT !.pc = "recv", !.id = None]
    /\ UNCHANGED <<brunning, dials, bdone, bup, news, bconnVars, dispatched>>

(* attach_channels() refuses a session that has channels; otherwise the    *)
(* relay task is spawned.                                                  *)
WorkerAttach ==
    /\ main.pc = "attach"
    /\ IF chans[main.obj] = "some"
       THEN main' = [main EXCEPT !.pc = "recv", !.id = None, !.obj = None] /\ UNCHANGED chans
       ELSE main' = [main EXCEPT !.pc = "dispatch"]
            /\ chans' = [chans EXCEPT ![main.obj] = "some"]
    /\ UNCHANGED <<brunning, dials, bdone, bup, news, bwire, portal, table, bclosed, breading,
                   bmon, queue, dispatched>>

(* The dispatch of the session returns. *)
WorkerDispatch ==
    /\ main.pc = "dispatch"
    /\ dispatched' = dispatched \cup {main.obj}
    /\ main' = [main EXCEPT !.pc = "recv", !.id = None, !.obj = None]
    /\ UNCHANGED <<brunning, dials, bdone, bup, news, bconnVars>>

Worker == WorkerRecv \/ WorkerGet \/ WorkerAttach \/ WorkerDispatch

(* Bridge::close(): the loops stop the next time they look. *)
BridgeClose ==
    /\ brunning
    /\ brunning' = FALSE
    /\ UNCHANGED <<dials, main, bdone, bup, news, bconnVars, dispatched>>
-----------------------------------------------------------------------------
PortalNew(i) ==
    /\ bup /\ portal[i] = None /\ news < MaxSessions
    /\ news' = news + 1
    /\ portal' = [portal EXCEPT ![i] = news']
    /\ bwire' = Append(bwire, <<"New", news', i>>)
    /\ UNCHANGED <<brunning, dials, main, bdone, bup, table, bclosed, breading, bmon, queue, chans, dispatched>>

PortalEnd(i) ==
    /\ bup /\ portal[i] # None
    /\ bwire' = Append(bwire, <<"End", portal[i], i>>)
    /\ portal' = [portal EXCEPT ![i] = None]
    /\ UNCHANGED <<brunning, dials, main, bdone, bup, news, table, bclosed, breading, bmon, queue,
                   chans, dispatched>>

ConnectionLost ==
    /\ bup
    /\ bup' = FALSE
    /\ UNCHANGED <<brunning, dials, main, bdone, news, bconnVars, dispatched>>
-----------------------------------------------------------------------------
NextFrame(status) == ~bdone /\ breading = None /\ bwire # <<>> /\ Head(bwire)[1] = status

(* read_loop, New: add() reads `closed` before it awaits the table lock;   *)
(* a refused session is announced all the same.                            *)
ReadNewRefused ==
    /\ NextFrame("New") /\ bclosed
    /\ bwire' = Tail(bwire)
    /\ queue' = Append(queue, Head(bwire)[3])
    /\ UNCHANGED <<brunning, dials, main, bdone, bup, news, portal, table, bclosed, breading, bmon,
                   chans, dispatched>>

ReadNewCheck ==
    /\ NextFrame("New") /\ ~bclosed
    /\ breading' = Head(bwire)[2]
    /\ UNCHANGED <<brunning, dials, main, bdone, bup, news, bwire, portal, table, bclosed, bmon, queue,
                   chans, dispatched>>

(* Variants named Bug... are mistakes the properties must notice; no       *)
(* action uses them.                                                       *)
BugBoundedAnnouncements ==
    /\ breading # None
    /\ LET id == Head(bwire)[3] IN
        /\ table' = [i \in DOMAIN table \cup {id} |-> IF i = id THEN breading ELSE table[i]]
        /\ queue' = IF queue = <<>> THEN <<id>> ELSE queue
    /\ bwire' = Tail(bwire) /\ breading' = None
    /\ UNCHANGED <<brunning, dials, main, bdone, bup, news, portal, bclosed, bmon, chans,
                   dispatched>>

(* ... the insertion, under the lock, and the announcement. *)
ReadNewInsert ==
    /\ breading # None
    /\ LET id == Head(bwire)[3] IN
        /\ table' = [i \in DOMAIN table \cup {id} |-> IF i = id THEN breading ELSE table[i]]
        /\ queue' = Append(queue, id)
    /\ bwire' = Tail(bwire) /\ breading' = None
    /\ UNCHANGED <<brunning, dials, main, bdone, bup, news, portal, bclosed, bmon, chans,
                   dispatched>>

(* read_loop, End: the channels are taken, the id removed. *)
ReadEnd ==
    /\ NextFrame("End")
    /\ LET id == Head(bwire)[3] IN
        /\ chans' = [o \in Objs |-> IF id \in DOMAIN table /\ o = table[id] /\ chans[o] = "some"
                                    THEN "taken" ELSE chans[o]]
        /\ table' = Restrict(table, DOMAIN table \ {id})
    /\ bwire' = Tail(bwire)
    /\ UNCHANGED <<brunning, dials, main, bdone, bup, news, portal, bclosed, breading, bmon, queue, dispatched>>

(* read_frame fails once the link is gone: the loop ends and sets `done`.  *)
BridgeReadLoopEnds ==
    /\ dials > 0 /\ ~bdone /\ ~bup /\ breading = None
    /\ bdone' = TRUE
    /\ UNCHANGED <<brunning, dials, main, bup, news, bconnVars, dispatched>>

ReadLoop == ReadNewRefused \/ ReadNewCheck \/ ReadNewInsert \/ ReadEnd \/ BridgeReadLoopEnds
-----------------------------------------------------------------------------
(* monitor_loop: the first tick of a tokio interval is immediate.  The     *)
(* server allocates no ids, so of the two values sampled only the size     *)
(* can differ later.                                                       *)
BridgeMonitorTick ==
    /\ bmon = "tick"
    /\ bmon' = IF bdone THEN "stopped" ELSE IF DOMAIN table = {} THEN "empty" ELSE "busy"
    /\ UNCHANGED <<brunning, dials, main, bdone, bup, news, bwire, portal, table, bclosed, breading,
                   queue, chans, dispatched>>

(* close_if_no_session_and_idle() *)
BridgeMonitorClose ==
    /\ bmon \in {"empty", "busy"}
    /\ bclosed' = (bclosed \/ (DOMAIN table = {} /\ bmon = "empty"))
    /\ bmon' = IF bclosed' THEN "stopped" ELSE "tick"
    /\ UNCHANGED <<brunning, dials, main, bdone, bup, news, bwire, portal, table, breading, queue,
                   chans, dispatched>>

BridgeNext ==
    \/ MainDial \/ MainOff \/ Worker \/ BridgeClose
    \/ \E i \in BridgeIds : PortalNew(i) \/ PortalEnd(i)
    \/ ConnectionLost
    \/ ReadLoop
    \/ BridgeMonitorTick \/ BridgeMonitorClose

BridgeSpec == BridgeInit /\ [][BridgeNext]_bridgeVars

(* tokio polls the main loop, the read loop and the monitor. *)
BridgeFairSpec ==
    /\ BridgeSpec
    /\ WF_bridgeVars(MainDial \/ MainOff) /\ WF_bridgeVars(Worker)
    /\ WF_bridgeVars(ReadLoop)
    /\ WF_bridgeVars(BridgeMonitorTick \/ BridgeMonitorClose)
-----------------------------------------------------------------------------
(* A session in the table that nobody has attached to is one the worker    *)
(* still has to look at: its id is queued or in the worker's hand.         *)
NoForgottenSession ==
    ~bdone => \A i \in DOMAIN table :
        chans[table[i]] = "none" =>
            \/ \E k \in DOMAIN queue : queue[k] = i
            \/ main.id = i /\ main.pc \in {"got", "attach"}

(* sessions in the table that the worker has not attached yet              *)
Unattached == {i \in DOMAIN table : ~bdone /\ chans[table[i]] = "none"}

(* "For each new mux session, creates a Link pair and dispatches it": a    *)
(* session the portal keeps open is eventually dispatched.                 *)
EverySessionDispatched ==
    \A i \in BridgeIds, o \in Objs :
        (bup /\ portal[i] = o) ~> (~bup \/ portal[i] # o \/ o \in dispatched)

(* "if no workers ..., spawn new one": a running bridge whose connection   *)
(* is lost makes another one.                                              *)
BridgeReconnects ==
    (dials = 1 /\ ~bup) ~> (dials > 1 \/ ~brunning)
=============================================================================
