------------------------------- MODULE Common -------------------------------
(***************************************************************************)
(* The concurrency helpers of astra-core-common, each on its own: the Done *)
(* signal, the ActivityTimer, the Periodic task, parallel_for_n, the LRU   *)
(* cache and the dual-stack dial.  Time is abstracted to which of the      *)
(* sleeping parties wakes next.                                            *)
(***************************************************************************)
EXTENDS Integers, Sequences, FiniteSets, SequencesExt

CONSTANTS Waiters, Closers,     \* callers of Done::wait and Done::close
          Starts,               \* calls of set_timeout and of Periodic::start
          PIndexes,             \* n of parallel_for_n
          PWorkers,             \* workers of parallel_for_n
          LruKeys, LruCap, LruMax,  \* keys, capacity; bound: cache operations
          RaceAddrs             \* bound: addresses a lookup returns

NoStart == 0

VARIABLES dpc, dclosed, listening, woken,             \* Done
          tpc, permit, consumed, thandle, fired,      \* ActivityTimer
          starter, lpc, prunning, phandle, closing, extra,   \* Periodic
          wat, werr, ran, pfail, pn,                  \* parallel_for_n
          lmap, order, uses,                          \* LruCache
          race                                        \* dial_tcp_race

doneVars == <<dpc, dclosed, listening, woken>>
timerVars == <<tpc, permit, consumed, thandle, fired>>
periodicVars == <<starter, lpc, prunning, phandle, closing, extra>>
parallelVars == <<wat, werr, ran, pfail, pn>>
lruVars == <<lmap, order, uses>>

-----------------------------------------------------------------------------
(* Done.  A Notified future hears every notify_waiters that comes after    *)
(* its creation, polled or not.                                            *)
DoneInit == /\ dpc = [p \in Waiters \cup Closers |-> "start"]
            /\ dclosed = FALSE /\ listening = {} /\ woken = {}

DoneGoes(p, to) == dpc' = [dpc EXCEPT ![p] = to]

WaitFirstCheck(w) ==
    /\ dpc[w] = "start"
    /\ DoneGoes(w, IF dclosed THEN "returned" ELSE "create")
    /\ UNCHANGED <<dclosed, listening, woken>>

WaitCreate(w) == /\ dpc[w] = "create"
                 /\ DoneGoes(w, "check") /\ listening' = listening \cup {w}
                 /\ UNCHANGED <<dclosed, woken>>

BugWaitSecondCheck(w) == /\ dpc[w] = "check" /\ DoneGoes(w, "await")
                         /\ UNCHANGED <<dclosed, listening, woken>>

WaitSecondCheck(w) ==
    /\ dpc[w] = "check"
    /\ DoneGoes(w, IF dclosed THEN "returned" ELSE "await")
    /\ UNCHANGED <<dclosed, listening, woken>>

WaitWoken(w) == /\ dpc[w] = "await" /\ w \in woken
                /\ DoneGoes(w, "returned")
                /\ UNCHANGED <<dclosed, listening, woken>>

CloseSwap(c) == /\ dpc[c] = "start"
                /\ DoneGoes(c, IF dclosed THEN "returned" ELSE "notify")
                /\ dclosed' = TRUE /\ UNCHANGED <<listening, woken>>

NotifyWaiters(c) == /\ dpc[c] = "notify"
                    /\ DoneGoes(c, "returned") /\ woken' = listening
                    /\ UNCHANGED <<dclosed, listening>>

DoneSteps == \/ \E w \in Waiters : \/ WaitFirstCheck(w) \/ WaitCreate(w)
                                   \/ WaitSecondCheck(w) \/ WaitWoken(w)
             \/ \E c \in Closers : NotifyWaiters(c)

DoneNext == DoneSteps \/ \E c \in Closers : CloseSwap(c)

-----------------------------------------------------------------------------
(* ActivityTimer.  Each set_timeout spawns a loop of its own; notify_one   *)
(* wakes one loop or leaves one permit; only the last loop's handle is     *)
(* kept.                                                                   *)
TimerInit == /\ tpc = [t \in Starts |-> "unset"] /\ permit = FALSE
             /\ consumed = FALSE /\ thandle = NoStart /\ fired = <<>>

Update == permit' = TRUE /\ UNCHANGED <<tpc, consumed, thandle, fired>>

(* A zero timeout calls on_timeout at once and marks nothing as consumed.  *)
SetTimeout(t, zero) ==
    /\ tpc[t] = "unset"
    /\ tpc' = [tpc EXCEPT ![t] = IF consumed \/ zero THEN "done" ELSE "asleep"]
    /\ fired' = IF ~consumed /\ zero THEN Append(fired, "at once") ELSE fired
    /\ thandle' = IF consumed \/ zero THEN thandle ELSE t
    /\ UNCHANGED <<permit, consumed>>

LoopUpdated(t) == /\ tpc[t] = "asleep" /\ permit /\ permit' = FALSE
                  /\ UNCHANGED <<tpc, consumed, thandle, fired>>

BugLoopFires(t) ==
    /\ tpc[t] = "asleep"
    /\ fired' = Append(fired, IF consumed THEN "late" ELSE "idle")
    /\ consumed' = TRUE /\ tpc' = [tpc EXCEPT ![t] = "done"]
    /\ UNCHANGED <<permit, thandle>>

LoopFires(t) ==
    /\ tpc[t] = "asleep"
    /\ fired' = IF consumed THEN fired ELSE Append(fired, "idle")
    /\ consumed' = TRUE /\ tpc' = [tpc EXCEPT ![t] = "done"]
    /\ UNCHANGED <<permit, thandle>>

(* cancel() marks the timer consumed, then aborts the last loop.           *)
CancelStore == consumed' = TRUE /\ UNCHANGED <<tpc, permit, thandle, fired>>

CancelAbort == /\ consumed /\ thandle # NoStart
               /\ tpc' = [tpc EXCEPT ![thandle] = "done"] /\ thandle' = NoStart
               /\ UNCHANGED <<permit, consumed, fired>>

TimerNext == \/ Update \/ CancelStore \/ CancelAbort
             \/ \E t \in Starts : \/ LoopUpdated(t) \/ LoopFires(t)
                                  \/ \E zero \in BOOLEAN : SetTimeout(t, zero)

-----------------------------------------------------------------------------
(* Periodic.  start() and close() each take two steps, because the lock on *)
(* the join handle is awaited.  `extra` counts the runs of a loop since    *)
(* running was last cleared.                                               *)
PeriodicInit == /\ starter = [s \in Starts |-> "idle"]
                /\ lpc = [s \in Starts |-> "none"]
                /\ prunning = FALSE /\ phandle = NoStart /\ closing = FALSE
                /\ extra = [s \in Starts |-> 0]

StartSwap(s) ==
    /\ starter[s] = "idle"
    /\ prunning' = TRUE
    /\ IF prunning THEN starter' = [starter EXCEPT ![s] = "returned"] /\ UNCHANGED lpc
       ELSE /\ starter' = [starter EXCEPT ![s] = "spawned"]
            /\ lpc' = [lpc EXCEPT ![s] = "check"]
    /\ extra' = [l \in Starts |-> 0]
    /\ UNCHANGED <<phandle, closing>>

StartStore(s) == /\ starter[s] = "spawned"
                 /\ phandle' = s /\ starter' = [starter EXCEPT ![s] = "returned"]
                 /\ UNCHANGED <<lpc, prunning, closing, extra>>

LoopChecks(s) ==
    /\ lpc[s] = "check"
    /\ lpc' = [lpc EXCEPT ![s] = IF prunning THEN "tick" ELSE "ended"]
    /\ UNCHANGED <<starter, prunning, phandle, closing, extra>>

LoopExecutes(s) ==
    /\ lpc[s] = "tick" /\ extra[s] < 3
    /\ lpc' = [lpc EXCEPT ![s] = "check"]
    /\ extra' = [extra EXCEPT ![s] = IF prunning THEN 0 ELSE @ + 1]
    /\ UNCHANGED <<starter, prunning, phandle, closing>>

CloseClear == /\ ~closing /\ closing' = TRUE /\ prunning' = FALSE
              /\ UNCHANGED <<starter, lpc, phandle, extra>>

CloseAbort ==
    /\ closing /\ closing' = FALSE /\ phandle' = NoStart
    /\ lpc' = IF phandle = NoStart THEN lpc ELSE [lpc EXCEPT ![phandle] = "ended"]
    /\ UNCHANGED <<starter, prunning, extra>>

PeriodicNext == \/ CloseClear \/ CloseAbort
                \/ \E s \in Starts : \/ StartSwap(s) \/ StartStore(s)
                                     \/ LoopChecks(s) \/ LoopExecutes(s)

-----------------------------------------------------------------------------
(* parallel_for_n.  pfail is the set of indexes whose call fails.          *)
IndexChunk(n) == LET k == IF PWorkers < n THEN PWorkers ELSE n
            IN  IF n = 0 THEN 0 ELSE (n + k - 1) \div k

(* The indexes of worker w, from 0; none when its start is past the end.   *)
StartOf(w) == w * IndexChunk(pn)
EndOf(w) == IF StartOf(w) + IndexChunk(pn) < pn THEN StartOf(w) + IndexChunk(pn) ELSE pn

ParallelInit ==
    /\ pn \in PIndexes /\ pfail \in SUBSET (0 .. pn - 1)
    /\ wat = [w \in 0 .. PWorkers - 1 |-> IF w < pn THEN StartOf(w) ELSE pn]
    /\ werr = {} /\ ran = <<>>

(* The error slot is looked at under the lock before each call ...         *)
WorkerLooks(w) ==
    /\ wat[w] < EndOf(w) /\ werr # {}
    /\ wat' = [wat EXCEPT ![w] = pn]
    /\ UNCHANGED <<werr, ran, pfail, pn>>

(* ... and an error is stored in it unless there is one.                   *)
WorkerCalls(w) ==
    /\ wat[w] < EndOf(w)
    /\ ran' = Append(ran, wat[w])
    /\ wat' = [wat EXCEPT ![w] = IF wat[w] \in pfail THEN pn ELSE @ + 1]
    /\ werr' = IF wat[w] \in pfail /\ werr = {} THEN {wat[w]} ELSE werr
    /\ UNCHANGED <<pfail, pn>>

ParallelNext == \E w \in 0 .. PWorkers - 1 : WorkerLooks(w) \/ WorkerCalls(w)

Joined == \A w \in 0 .. PWorkers - 1 : wat[w] >= EndOf(w)

-----------------------------------------------------------------------------
(* LruCache                                                                *)
LruInit == lmap = <<>> /\ order = <<>> /\ uses = <<>>

MoveToBack(k) == Append(SelectSeq(order, LAMBDA x : x # k), k)

Get(k) ==
    /\ Len(uses) < LruMax
    /\ k \in DOMAIN lmap
    /\ order' = MoveToBack(k) /\ uses' = Append(uses, <<k, lmap[k]>>)
    /\ UNCHANGED lmap

(* get_key_from_value touches the key that the scan finds.                 *)
GetKeyFromValue(v) ==
    \E k \in DOMAIN lmap : lmap[k] = v /\ Get(k)

Evicted == IF Len(order) >= LruCap /\ order # <<>> THEN {Head(order)} ELSE {}

Put(k, v) ==
    /\ Len(uses) < LruMax
    /\ LET gone == IF k \in DOMAIN lmap THEN {} ELSE Evicted
           kept == DOMAIN lmap \ gone
       IN  /\ lmap' = [x \in kept \cup {k} |-> IF x = k THEN v ELSE lmap[x]]
           /\ order' = Append(SelectSeq(order, LAMBDA x : x \in kept \ {k}), k)
    /\ uses' = Append(uses, <<k, v>>)

LruNext == \/ \E k \in LruKeys : Get(k) \/ \E v \in {0, 1} : Put(k, v)
           \/ \E v \in {0, 1} : GetKeyFromValue(v)

-----------------------------------------------------------------------------
(* dial_tcp_race: one address after the other, in the order interleave     *)
(* gives; an address is <<family, position>>.                              *)
TakeTurns(p, o) ==
    LET n == IF Len(p) > Len(o) THEN Len(p) ELSE Len(o)
        at(s, i) == IF i <= Len(s) THEN <<s[i]>> ELSE <<>>
    IN  FlattenSeq([i \in 1 .. n |-> at(p, i) \o at(o, i)])

SortAddresses(addrs, v6first) ==
    LET v6 == SelectSeq(addrs, LAMBDA a : a[1] = 6)
        v4 == SelectSeq(addrs, LAMBDA a : a[1] = 4)
    IN  IF v6first THEN TakeTurns(v6, v4) ELSE TakeTurns(v4, v6)

RaceInit ==
    \E n \in 0 .. RaceAddrs : \E fam \in [1 .. n -> {4, 6}], v6first \in BOOLEAN :
      LET addrs == [i \in 1 .. n |-> <<fam[i], i>>] IN
      race = [addrs |-> addrs, prefer |-> IF v6first THEN 6 ELSE 4,
              left |-> SortAddresses(addrs, v6first), tried |-> <<>>,
              pc |-> IF n = 0 THEN "failed" ELSE "dialing"]

Try(ok) ==
    /\ race.pc = "dialing"
    /\ race' = [race EXCEPT !.tried = Append(@, Head(race.left)),
                            !.left = Tail(@),
                            !.pc = CASE ok -> "connected"
                                     [] ~ok /\ Len(race.left) = 1 -> "failed"
                                     [] OTHER -> "dialing"]

RaceNext == \E ok \in BOOLEAN : Try(ok)

-----------------------------------------------------------------------------
(* One helper per behaviour.                                               *)
VARIABLE prim
primVars == <<doneVars, timerVars, periodicVars, parallelVars, lruVars, race>>

IdleParallel == pn = 0 /\ pfail = {} /\ wat = [w \in 0 .. PWorkers - 1 |-> 0]
                /\ werr = {} /\ ran = <<>>
IdleRace == race = [addrs |-> <<>>, prefer |-> 4, left |-> <<>>, tried |-> <<>>, pc |-> "failed"]

CommonInit ==
    /\ prim \in {"done", "timer", "periodic", "parallel", "lru", "race"}
    /\ DoneInit /\ TimerInit /\ PeriodicInit /\ LruInit
    /\ IF prim = "parallel" THEN ParallelInit ELSE IdleParallel
    /\ IF prim = "race" THEN RaceInit ELSE IdleRace

CommonNext ==
    /\ UNCHANGED prim
    /\ \/ prim = "done" /\ DoneNext
          /\ UNCHANGED <<timerVars, periodicVars, parallelVars, lruVars, race>>
       \/ prim = "timer" /\ TimerNext
          /\ UNCHANGED <<doneVars, periodicVars, parallelVars, lruVars, race>>
       \/ prim = "periodic" /\ PeriodicNext
          /\ UNCHANGED <<doneVars, timerVars, parallelVars, lruVars, race>>
       \/ prim = "parallel" /\ ParallelNext
          /\ UNCHANGED <<doneVars, timerVars, periodicVars, lruVars, race>>
       \/ prim = "lru" /\ LruNext
          /\ UNCHANGED <<doneVars, timerVars, periodicVars, parallelVars, race>>
       \/ prim = "race" /\ RaceNext
          /\ UNCHANGED <<doneVars, timerVars, periodicVars, parallelVars, lruVars>>

(* Waiters that Done::close has not released yet.                          *)
Unreleased == {w \in Waiters : dclosed /\ dpc[w] # "returned"}

(* An inactivity timer calls on_timeout for idleness at most once, however *)
(* many loops set_timeout left behind, and never after cancel().           *)
TimerFiresOnce == Len(SelectSeq(fired, LAMBDA f : f # "at once")) <= 1

(* Once running is cleared, a loop that close() could not abort, because   *)
(* start() had not stored its handle yet, runs at most once more.          *)
ClosedPeriodicStops == ~prunning => \A s \in Starts : extra[s] <= 1

(* parallel_for_n calls f for every index exactly once when it reports     *)
(* success; the error it reports is one that a call returned.              *)
EveryIndexOnce ==
    /\ IsInjective(ran)
    /\ Joined /\ werr = {} => ToSet(ran) = 0 .. pn - 1
    /\ werr \subseteq pfail \cap ToSet(ran)

(* The cache holds the LruCap keys used last, with their last values.      *)
LastUse(k) == CHOOSE i \in DOMAIN uses : uses[i][1] = k
                 /\ \A j \in i + 1 .. Len(uses) : uses[j][1] # k
CacheIsLru ==
    LET used == {uses[i][1] : i \in DOMAIN uses}
        newer(k) == {j \in used : LastUse(j) > LastUse(k)}
    IN  /\ ToSet(order) = DOMAIN lmap
        /\ DOMAIN lmap = {k \in used : Cardinality(newer(k)) < LruCap}
        /\ \A k \in DOMAIN lmap : lmap[k] = uses[LastUse(k)][2]

(* A dial fails only after every address was tried once, and it tries the  *)
(* two families in turn, the preferred one first, while both last.         *)
EveryAddressTried ==
    /\ IsInjective(race.tried) /\ ToSet(race.tried) \subseteq ToSet(race.addrs)
    /\ race.pc = "failed" => ToSet(race.tried) = ToSet(race.addrs)
    /\ \A i \in 1 .. Len(race.tried) :
         LET mine == race.tried[i][1]
             want == IF i % 2 = 1 THEN race.prefer ELSE 10 - race.prefer
             more == {a \in ToSet(race.addrs) : a[1] # mine}
                       \ ToSet(SubSeq(race.tried, 1, i))
         IN  mine = want \/ more = {}
=============================================================================
