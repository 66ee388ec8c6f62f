----------------------------- MODULE MuxSessions -----------------------------
(***************************************************************************)
(* The session table of one mux connection: SessionManager of              *)
(* astra-core-mux/src/session.rs as the client worker uses it, together    *)
(* with the two tasks MuxClient::new spawns, read_loop (which removes      *)
(* sessions) and monitor_loop (which closes an idle table).                *)
(*                                                                         *)
(* An operation that reads `closed` before it awaits the map lock is two   *)
(* steps here, one on each side of the await.  Session objects are the     *)
(* numbers 1, 2, ... in allocation order; idOf[h] is the u16 put into      *)
(* object h, a counter modulo 2^W.                                         *)
(***************************************************************************)
EXTENDS Integers, FiniteSets, Sequences, Functions

CONSTANTS
    Callers,         \* tasks that call open_session() or close()
    W,               \* width in bits of the session id counter (16 in the code)
    Strategies,      \* the MuxClientStrategy values considered
    MaxOpens         \* bound of the model: session objects ever created

IdSpace == 2^W

ASSUME MuxConstants ==
    /\ IdSpace \in Nat /\ IdSpace > 1
    /\ Strategies \subseteq [max_concurrency : Nat, max_connection : Nat]
    /\ MaxOpens \in Nat

ASSUME CallersFinite == IsFiniteSet(Callers)

Ids == 0 .. IdSpace - 1

NoId == -1

VARIABLES
    strategy,    \* MuxClient.strategy, chosen once; a limit of 0 is no limit
    sessions,    \* id -> session object, the HashMap
    next_id,     \* AtomicU16
    closed,      \* the manager's AtomicBool
    idOf,        \* ids of the session objects created so far, in order
    closedSess,  \* session objects whose own closed flag is set
    pc,          \* what each caller is doing
    ending,      \* read_loop: id of the End frame between get() and remove()
    done,        \* MuxClient.done: the read loop has ended
    mon,         \* monitor_loop: program counter and the two values sampled
    hist         \* history: opens at the monitor's sample and at the moment
                 \* of closing

vars == <<strategy, sessions, next_id, closed, idOf, closedSess, pc, ending, done, mon, hist>>

Opens == Len(idOf)

MaxConcurrency == strategy.max_concurrency

MaxConnection == strategy.max_connection

MonitorStates == {"tick", "count", "check", "locked", "stopped"}

(* Every component of the table has its Rust type; the table maps ids to   *)
(* objects that exist.                                                     *)
TypeOK ==
    /\ strategy \in Strategies
    /\ next_id \in Ids
    /\ closed \in BOOLEAN
    /\ idOf \in Seq(Ids)
    /\ Opens <= MaxOpens
    /\ sessions \in [DOMAIN sessions -> 1 .. Opens]
    /\ DOMAIN sessions \subseteq Ids
    /\ closedSess \subseteq 1 .. Opens
    /\ pc \in [Callers -> {"idle", "allocating", "closing"}]
    /\ ending \in Ids \cup {NoId}
    /\ done \in BOOLEAN
    /\ mon \in [pc : MonitorStates, size : Nat, count : Ids]
    /\ hist \in [sampled : 0 .. Opens, closedAt : 0 .. Opens]

Init ==
    /\ strategy \in Strategies
    /\ sessions = [i \in {} |-> 0]
    /\ next_id = 0
    /\ closed = FALSE
    /\ idOf = <<>>
    /\ closedSess = {}
    /\ pc = [c \in Callers |-> "idle"]
    /\ ending = NoId
    /\ done = FALSE
    /\ mon = [pc |-> "tick", size |-> 0, count |-> 0]
    /\ hist = [sampled |-> 0, closedAt |-> 0]
-----------------------------------------------------------------------------
(* Variants named Bug... are mistakes the properties below must notice; no  *)
(* action uses them.                                                       *)
BugSkipsZero(n) == IF n + 1 = IdSpace THEN 1 ELSE n + 1

(* fetch_add(1).wrapping_add(1) on the u16 counter. *)
WrappingSucc(n) == (n + 1) % IdSpace

BugAllocateUnchecked(c) ==
    /\ pc[c] = "idle"
    /\ pc' = [pc EXCEPT ![c] = "allocating"]
    /\ UNCHANGED <<sessions, next_id, closed, idOf, closedSess, ending, done, mon, hist>>

(* allocate(): a closed manager returns None at once; otherwise the task   *)
(* goes on to await the map lock.                                          *)
AllocateCheck(c) ==
    /\ pc[c] = "idle"
    /\ ~closed
    /\ pc' = [pc EXCEPT ![c] = "allocating"]
    /\ UNCHANGED <<sessions, next_id, closed, idOf, closedSess, ending, done, mon, hist>>

BugFullStrict ==
    \/ MaxConcurrency > 0 /\ Cardinality(DOMAIN sessions) > MaxConcurrency
    \/ MaxConnection > 0 /\ next_id > MaxConnection

(* The two limits, read under the lock. *)
Full ==
    \/ MaxConcurrency > 0 /\ Cardinality(DOMAIN sessions) >= MaxConcurrency
    \/ MaxConnection > 0 /\ next_id >= MaxConnection

(* sessions.insert(id, h): an entry under the same id is replaced. *)
Insert(id, h) == [i \in DOMAIN sessions \cup {id} |-> IF i = id THEN h ELSE sessions[i]]

(* allocate() under the lock, a limit is reached: None. *)
AllocateFull(c) ==
    /\ pc[c] = "allocating"
    /\ Full
    /\ pc' = [pc EXCEPT ![c] = "idle"]
    /\ UNCHANGED <<sessions, next_id, closed, idOf, closedSess, ending, done, mon, hist>>

(* allocate() under the lock: the next id, a new object, the map entry.    *)
(* `closed` is not read again.                                             *)
AllocateLocked(c) ==
    /\ pc[c] = "allocating"
    /\ ~Full
    /\ Opens < MaxOpens
    /\ next_id' = WrappingSucc(next_id)
    /\ idOf' = Append(idOf, next_id')
    /\ sessions' = Insert(next_id', Opens + 1)
    /\ pc' = [pc EXCEPT ![c] = "idle"]
    /\ UNCHANGED <<closed, closedSess, ending, done, mon, hist>>

(* close(): swap the flag; the caller that set it goes on to the lock.     *)
CloseSwap(c) ==
    /\ pc[c] = "idle"
    /\ ~closed
    /\ closed' = TRUE
    /\ hist' = [hist EXCEPT !.closedAt = Opens]
    /\ pc' = [pc EXCEPT ![c] = "closing"]
    /\ UNCHANGED <<sessions, next_id, idOf, closedSess, ending, done, mon>>

(* close() under the lock: every session in the map is closed.             *)
CloseLocked(c) ==
    /\ pc[c] = "closing"
    /\ closedSess' = closedSess \cup Range(sessions)
    /\ pc' = [pc EXCEPT ![c] = "idle"]
    /\ UNCHANGED <<sessions, next_id, closed, idOf, ending, done, mon, hist>>
-----------------------------------------------------------------------------
(* sessions.remove(id) *)
Remove(id) == Restrict(sessions, DOMAIN sessions \ {id})

BugEndGetNotClosing(id) ==
    /\ ~done /\ ending = NoId
    /\ ending' = id
    /\ UNCHANGED <<sessions, next_id, closed, idOf, closedSess, pc, done, mon, hist>>

(* read_loop, End frame: the object found under the id is closed ...       *)
EndGet(id) ==
    /\ ~done /\ ending = NoId
    /\ closedSess' = closedSess \cup {sessions[i] : i \in DOMAIN sessions \cap {id}}
    /\ ending' = id
    /\ UNCHANGED <<sessions, next_id, closed, idOf, pc, done, mon, hist>>

(* ... and, under a second acquisition of the lock, whatever the id then   *)
(* names is removed.                                                       *)
EndRemove ==
    /\ ending # NoId
    /\ sessions' = Remove(ending)
    /\ ending' = NoId
    /\ UNCHANGED <<next_id, closed, idOf, closedSess, pc, done, mon, hist>>

(* read_loop, New frame: the id is removed, its object is not closed.      *)
NewRemove(id) ==
    /\ ~done /\ ending = NoId
    /\ id \in DOMAIN sessions
    /\ sessions' = Remove(id)
    /\ UNCHANGED <<next_id, closed, idOf, closedSess, pc, ending, done, mon, hist>>

(* read_frame fails: the loop breaks and `done` is set; the table keeps    *)
(* what it holds and is not closed.                                        *)
ReadLoopEnds ==
    /\ ~done /\ ending = NoId
    /\ done' = TRUE
    /\ UNCHANGED <<sessions, next_id, closed, idOf, closedSess, pc, ending, mon, hist>>
-----------------------------------------------------------------------------
(* monitor_loop, a tick on a finished client: the task returns.            *)
MonitorDone ==
    /\ mon.pc = "tick" /\ done
    /\ mon' = [mon EXCEPT !.pc = "stopped"]
    /\ UNCHANGED <<sessions, next_id, closed, idOf, closedSess, pc, ending, done, hist>>

(* size() takes and releases the lock. *)
MonitorSize ==
    /\ mon.pc = "tick" /\ ~done
    /\ mon' = [mon EXCEPT !.pc = "count", !.size = Cardinality(DOMAIN sessions)]
    /\ UNCHANGED <<sessions, next_id, closed, idOf, closedSess, pc, ending, done, hist>>

(* total_allocated() reads the counter without the lock. *)
MonitorCount ==
    /\ mon.pc = "count"
    /\ mon' = [mon EXCEPT !.pc = "check", !.count = next_id]
    /\ hist' = [hist EXCEPT !.sampled = Opens]
    /\ UNCHANGED <<sessions, next_id, closed, idOf, closedSess, pc, ending, done>>

(* close_if_no_session_and_idle(): a closed table ends the monitor. *)
MonitorCheck ==
    /\ mon.pc = "check"
    /\ mon' = [mon EXCEPT !.pc = IF closed THEN "stopped" ELSE "locked"]
    /\ UNCHANGED <<sessions, next_id, closed, idOf, closedSess, pc, ending, done, hist>>

BugIdleIgnoresCount ==
    /\ DOMAIN sessions = {}
    /\ mon.size = 0

(* What close_if_no_session_and_idle() requires under the lock. *)
IdleCondition ==
    /\ DOMAIN sessions = {}
    /\ mon.size = 0
    /\ mon.count = next_id

BugBusyStops ==
    /\ mon.pc = "locked"
    /\ ~IdleCondition
    /\ mon' = [mon EXCEPT !.pc = "stopped"]
    /\ UNCHANGED <<sessions, next_id, closed, idOf, closedSess, pc, ending, done, hist>>

(* Under the lock, the table is not idle: wait for the next tick. *)
MonitorBusy ==
    /\ mon.pc = "locked"
    /\ ~IdleCondition
    /\ mon' = [mon EXCEPT !.pc = "tick"]
    /\ UNCHANGED <<sessions, next_id, closed, idOf, closedSess, pc, ending, done, hist>>

(* Under the lock, the table is idle: close it and stop. *)
MonitorClose ==
    /\ mon.pc = "locked"
    /\ IdleCondition
    /\ closed' = TRUE
    /\ hist' = IF closed THEN hist ELSE [hist EXCEPT !.closedAt = Opens]
    /\ mon' = [mon EXCEPT !.pc = "stopped"]
    /\ UNCHANGED <<sessions, next_id, idOf, closedSess, pc, ending, done>>

Monitor ==
    \/ MonitorDone \/ MonitorSize \/ MonitorCount
    \/ MonitorCheck \/ MonitorBusy \/ MonitorClose

Next ==
    /\ UNCHANGED strategy
    /\ \/ \E c \in Callers :
            \/ AllocateCheck(c) \/ AllocateFull(c) \/ AllocateLocked(c)
            \/ CloseSwap(c) \/ CloseLocked(c)
       \/ \E id \in Range(idOf) : EndGet(id) \/ NewRemove(id)  \* ids the peer was given
       \/ EndRemove
       \/ ReadLoopEnds
       \/ Monitor

Spec == Init /\ [][Next]_vars

(* tokio keeps polling the monitor's task, and gives it the map lock: no   *)
(* holder of the lock awaits anything else while it has it.                *)
FairSpec ==
    /\ Spec
    /\ WF_vars(Monitor /\ UNCHANGED strategy)
-----------------------------------------------------------------------------
(* allocate() never lets the table grow beyond max_concurrency, however    *)
(* many tasks are between its `closed` check and the lock.                 *)
ConcurrencyBound ==
    MaxConcurrency > 0 => Cardinality(DOMAIN sessions) <= MaxConcurrency

(* A max_connection that fits the u16 counter bounds the sessions ever     *)
(* opened on the connection, so the counter never wraps ...                *)
ConnectionBound ==
    MaxConnection \in 1 .. IdSpace - 1 => Opens <= MaxConnection

(* ... and no two sessions of the connection ever had the same id.         *)
IdsUnique ==
    MaxConnection \in 1 .. IdSpace - 1 =>
        \A g, h \in 1 .. Opens : idOf[g] = idOf[h] => g = h

(* With no max_connection (the default) ids are reused, but only after     *)
(* the whole id space has gone by: an allocate() that replaces a live      *)
(* session replaces one that is at least 2^W allocations old.              *)
OverwriteNeedsWrap ==
    [][\A i \in DOMAIN sessions \cap DOMAIN sessions' :
          sessions'[i] # sessions[i] => sessions'[i] - sessions[i] >= IdSpace]_vars

(* The read loop's second lookup removes the object it has closed, not a   *)
(* session opened in between (while the counter has not wrapped).          *)
EndRemovesWhatItClosed ==
    [][ending # NoId /\ ending' = NoId /\ Opens < IdSpace =>
          \A i \in DOMAIN sessions \ DOMAIN sessions' : sessions[i] \in closedSess]_vars

(* The monitor closes a table only if it is empty and nothing was opened   *)
(* since it sampled the counter (while the counter has not wrapped).       *)
IdleCloseSound ==
    [][mon.pc = "locked" /\ mon'.pc = "stopped" /\ Opens < IdSpace =>
          DOMAIN sessions = {} /\ Opens = hist.sampled]_vars

(* After the table is closed at most one more session per task appears:    *)
(* the ones whose allocate() had passed the check.                         *)
LateOpensBounded ==
    closed => Opens <= hist.closedAt + Cardinality(Callers)

(* A table that stays empty on a live connection is closed by the monitor. *)
IdleEventuallyClosed ==
    <>[](DOMAIN sessions = {} /\ ~done) => <>closed
-----------------------------------------------------------------------------
(* The parts of the inductive invariant behind the properties above.       *)

(* Until the counter wraps, object h has id h and the counter is their number. *)
CounterCountsOpens ==
    Opens < IdSpace => next_id = Opens /\ \A h \in 1 .. Opens : idOf[h] = h

(* A table entry carries the id it is stored under. *)
TableNamesItsObjects == \A i \in DOMAIN sessions : idOf[sessions[i]] = i

(* The last 2^W objects have the ids that lead up to the counter, modulo 2^W. *)
WindowIds ==
    \A h \in 1 .. Opens :
        LET back == Opens - h IN
        back < IdSpace =>
            idOf[h] = IF next_id >= back THEN next_id - back ELSE next_id - back + IdSpace

Allocating == {c \in Callers : pc[c] = "allocating"}

(* Every session opened after closing has used up one pending allocate(). *)
PendingBounded ==
    closed => Opens + Cardinality(Allocating) <= hist.closedAt + Cardinality(Callers)

(* The monitor's sample of the counter is the number of opens it saw. *)
SampleExact ==
    mon.pc \in {"check", "locked"} /\ Opens < IdSpace => mon.count = hist.sampled

(* Between its two lookups the read loop has closed what the id names. *)
EndingClosed ==
    ending # NoId /\ Opens < IdSpace =>
        /\ ending \in 1 .. Opens
        /\ ending \in DOMAIN sessions => sessions[ending] \in closedSess

IndInv ==
    /\ TypeOK
    /\ ConcurrencyBound
    /\ CounterCountsOpens
    /\ WindowIds
    /\ TableNamesItsObjects
    /\ ConnectionBound
    /\ PendingBounded
    /\ SampleExact
    /\ EndingClosed
=============================================================================
