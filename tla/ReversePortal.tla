---------------------------- MODULE ReversePortal ----------------------------
(***************************************************************************)
(* The portal of the reverse proxy (astra-core-app-reverse): an outbound   *)
(* whose process() either turns a link for the portal's own domain, dialed *)
(* by a bridge, into a worker, or relays a link to one of the workers.     *)
(* The workers are behind one lock, which process() holds from choosing a  *)
(* worker until the relay ends.  A worker is a mux client (MuxSessions),   *)
(* of which the portal sees is_done() and whether allocate() succeeds.     *)
(***************************************************************************)
EXTENDS Integers, Sequences

CONSTANTS BridgeCalls,      \* links a bridge dialed to the portal's domain
          SessionCalls,     \* links to relay
          PortalConcurrency \* sessions a worker carries (8)

VARIABLES picker,    \* workers in the order added: [done, size]
          holder,    \* the call that holds the picker's lock, or << >>
          waiting,   \* the calls waiting for it, first come first served
          ppc,       \* where each call is
          picked     \* the worker a call has chosen, or 0

portalVars == <<picker, holder, waiting, ppc, picked>>

Calls == BridgeCalls \cup SessionCalls
PortalWorkers == DOMAIN picker

PortalInit ==
    /\ picker = << >> /\ holder = << >> /\ waiting = << >>
    /\ ppc = [c \in Calls |-> "start"]
    /\ picked = [c \in Calls |-> 0]

(* process() reaches picker.lock().await; a bridge's link has become the   *)
(* mux client of a new worker by then                                      *)
process(c) ==
    /\ ppc[c] = "start"
    /\ ppc' = [ppc EXCEPT ![c] = "waits"]
    /\ waiting' = Append(waiting, c)
    /\ UNCHANGED <<picker, holder, picked>>

Lock(c) ==
    /\ holder = << >> /\ waiting # << >> /\ Head(waiting) = c
    /\ holder' = <<c>>
    /\ waiting' = Tail(waiting)
    /\ ppc' = [ppc EXCEPT ![c] = "holds"]
    /\ UNCHANGED <<picker, picked>>

(* the call returns and drops its guard                                    *)
Returned(c, how) ==
    /\ holder' = << >>
    /\ ppc' = [ppc EXCEPT ![c] = how]

add_worker(c) ==
    /\ c \in BridgeCalls /\ ppc[c] = "holds"
    /\ picker' = Append(picker, [done |-> FALSE, size |-> 0])
    /\ Returned(c, "ok")
    /\ UNCHANGED <<waiting, picked>>

(* the first worker that is not done, whether or not it has room           *)
pick_available ==
    LET live == {w \in PortalWorkers : ~picker[w].done}
    IN  IF live = {} THEN 0 ELSE CHOOSE w \in live : \A v \in live : w <= v

Pick(c) ==
    /\ c \in SessionCalls /\ ppc[c] = "holds"
    /\ IF pick_available = 0
       THEN Returned(c, "refused") /\ UNCHANGED picked
       ELSE /\ picked' = [picked EXCEPT ![c] = pick_available]
            /\ ppc' = [ppc EXCEPT ![c] = "opening"]
            /\ UNCHANGED holder
    /\ UNCHANGED <<picker, waiting>>

(* open_mux_stream on that worker: None when its table is closed or full   *)
Open(c) ==
    LET w == picked[c]
    IN  /\ ppc[c] = "opening"
        /\ IF picker[w].done \/ picker[w].size >= PortalConcurrency
           THEN Returned(c, "refused") /\ UNCHANGED picker
           ELSE /\ picker' = [picker EXCEPT ![w].size = @ + 1]
                /\ ppc' = [ppc EXCEPT ![c] = "relays"]
                /\ UNCHANGED holder
        /\ UNCHANGED <<waiting, picked>>

(* one direction of the relay ends, which ends the call; the table keeps   *)
(* the session until the bridge ends it                                    *)
RelayEnds(c) ==
    /\ ppc[c] = "relays"
    /\ Returned(c, "ok")
    /\ UNCHANGED <<picker, waiting, picked>>

(* the mux client of a worker: the bridge ends a session, and the monitor  *)
(* closes a table it finds empty                                           *)
SessionEnds(w) ==
    /\ picker[w].size > 0
    /\ picker' = [picker EXCEPT ![w].size = @ - 1]
    /\ UNCHANGED <<holder, waiting, ppc, picked>>

WorkerDone(w) ==
    /\ picker[w].size = 0 /\ ~picker[w].done
    /\ picker' = [picker EXCEPT ![w].done = TRUE]
    /\ UNCHANGED <<holder, waiting, ppc, picked>>

PortalStep(c) == Lock(c) \/ add_worker(c) \/ Pick(c) \/ Open(c) \/ RelayEnds(c)

PortalNext ==
    \/ \E c \in Calls : process(c) \/ PortalStep(c)
    \/ \E w \in PortalWorkers : SessionEnds(w) \/ WorkerDone(w)

-----------------------------------------------------------------------------
(* calls of process() that have not returned                               *)
Inside == {c \in Calls : ppc[c] \notin {"start", "ok", "refused"}}
=============================================================================
