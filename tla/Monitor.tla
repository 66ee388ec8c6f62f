------------------------------ MODULE Monitor ------------------------------
(***************************************************************************)
(* What the core measures about itself: the observatory's probe, the burst *)
(* observer (HealthPing and its ring of round-trip times), the registry of *)
(* counters and channels with the StatsService that reads and resets it,   *)
(* and the map of online users.  Instants are ticks of a clock, which may  *)
(* stand still between two calls.                                          *)
(***************************************************************************)
EXTENDS Integers, Sequences, FiniteSets, SequencesExt, FiniteSetsExt, Functions, TLC

CONSTANTS ObsTags,          \* the observatory's selector
          ProbeMethods,     \* what from_config may be given
          ReadCap,          \* the 64 KiB a response may have, in reads
          PingTags, Sampling,   \* tags and samples of a burst check
          Validity, LastTick,   \* result validity; bound: the clock
          Relays, StatNames,    \* connections that count; names they count under
          MaxAdds, MaxIds,      \* bounds: increments, counters created
          Emails, OnlineIps, OnlineTtl      \* users, addresses and lifetime of OnlineMap

VARIABLES oprobe, oalive, ostatus,               \* Observatory
          pings, presults, pround,               \* HealthPing
          ring, idx, scache, updated,            \* HealthPingRTTS
          counters, values, handles, ledger, reading,   \* StatsManager
          online,                                \* OnlineMap
          tick                                   \* Instant::now()

obsVars == <<oprobe, oalive, ostatus>>
pingVars == <<pings, presults, pround>>
ringVars == <<ring, idx, scache, updated>>
statVars == <<counters, values, handles, ledger, reading>>

MonitorTick == tick < LastTick /\ tick' = tick + 1

-----------------------------------------------------------------------------
(* Observatory.  A method is <<type, url>> with the url's scheme, or ""    *)
(* where none is given: an http url wins over the configured type.         *)
from_config(type, scheme) ==
    IF scheme \in {"http", "https"} THEN scheme
    ELSE IF type \in {"http", "https"} THEN type ELSE "tcp"

with_probe(method) ==
    /\ oalive = ObsTags /\ ostatus = [t \in ObsTags |-> TRUE]
    /\ oprobe = [method |-> method, pc |-> "connect", buf |-> 0]

ObsInit(methods) == \E m \in methods : with_probe(from_config(m[1], m[2]))

(* run(): the probe's one verdict goes to every tag of the selector, in    *)
(* both tables under both locks; then the loop sleeps.                     *)
Verdict(ok) ==
    /\ oalive' = IF ok THEN oalive \cup ObsTags ELSE oalive \ ObsTags
    /\ ostatus' = [t \in ObsTags |-> ok]
    /\ oprobe' = [oprobe EXCEPT !.pc = "asleep"]

At(step) == /\ oprobe.pc = step
            /\ UNCHANGED <<oalive, ostatus>>

ProbeFails == oprobe.pc # "asleep" /\ Verdict(FALSE)   \* an error, or 5 s pass

ProbeConnects ==
    \/ oprobe.method = "tcp" /\ oprobe.pc = "connect" /\ Verdict(TRUE)
    \/ /\ oprobe.method # "tcp" /\ At("connect")
       /\ oprobe' = [oprobe EXCEPT
              !.pc = IF oprobe.method = "https" THEN "handshake" ELSE "write"]

http_over_tls == At("handshake") /\ oprobe' = [oprobe EXCEPT !.pc = "write"]

http_write == At("write") /\ oprobe' = [oprobe EXCEPT !.pc = "read", !.buf = 0]

(* A read that does not complete the header: the loop goes on until the    *)
(* buffer is over the limit, whatever the server still has to say.         *)
ReadMore == /\ At("read") /\ oprobe.buf <= ReadCap
            /\ oprobe' = [oprobe EXCEPT !.buf = @ + 1]

(* Header complete, end of stream, or too long: parse_http_success looks   *)
(* for a code of 200 to 399 in what was read.                              *)
parse_http_success == \E code \in {0, 199, 204, 399, 400} :
    /\ oprobe.pc = "read"
    /\ Verdict(code \in 200 .. 399)

ObsWakes == At("asleep") /\ oprobe' = [oprobe EXCEPT !.pc = "connect"]

ProbeGoesOn == \/ ProbeConnects \/ http_over_tls \/ http_write \/ ReadMore
               \/ oprobe.buf > ReadCap /\ parse_http_success
ObsNext == ProbeGoesOn \/ ProbeFails \/ parse_http_success \/ ObsWakes

-----------------------------------------------------------------------------
(* HealthPing.  do_check spawns Sampling pings for each tag.  A ping that  *)
(* fails is dropped; one that succeeds takes the results with              *)
(* blocking_lock, which panics inside a task of the runtime, so the task   *)
(* ends before the entry is made.  The panics are ignored by h.await.      *)
PingInit == /\ pings = [p \in PingTags \X (1 .. Sampling) |-> "asleep"]
            /\ presults = {} /\ pround = 1

PingTo(p, to) == /\ pings' = [pings EXCEPT ![p] = to] /\ UNCHANGED <<presults, pround>>

PingWakes(p) == pings[p] = "asleep" /\ PingTo(p, "measuring")
PingFailed(p) == pings[p] = "measuring" /\ PingTo(p, "failed")
PingAnswered(p) == pings[p] = "measuring" /\ PingTo(p, "panicked")

Ended == {"failed", "panicked"}

(* The scheduler's next round, after the stale tags were dropped.          *)
do_check == \E kept \in SUBSET PingTags :
    /\ \A p \in DOMAIN pings : pings[p] \in Ended
    /\ pround < 2 /\ pround' = pround + 1
    /\ presults' = presults \cap kept
    /\ pings' = [p \in DOMAIN pings |-> IF p[1] \in kept THEN "asleep" ELSE "failed"]

PingNext == do_check \/ \E p \in DOMAIN pings :
                            PingWakes(p) \/ PingFailed(p) \/ PingAnswered(p)

-----------------------------------------------------------------------------
(* HealthPingRTTS: a ring of the last cap results.  A value is a delay,    *)
(* "failed" is FailedRtt and "untested" is Untested.                       *)
Untested == 0
FailedRtt == -1
NoStats == [all |-> -1, fail |-> -1, sum |-> -1, max |-> -1, min |-> -1]

RingInit == /\ idx = 0 /\ scache = NoStats /\ updated = 0
            /\ ring = [i \in 0 .. Sampling - 1 |-> [time |-> 0, value |-> Untested]]

RingSet(value) ==
    LET at == (idx + 1) % Sampling
    IN  idx' = at /\ ring' = [ring EXCEPT ![at] = [time |-> tick, value |-> value]]

put(delay) == RingSet(delay) /\ scache' = NoStats /\ UNCHANGED <<updated, tick>>

put_fail == RingSet(FailedRtt) /\ scache' = NoStats /\ UNCHANGED <<updated, tick>>

(* compute_stats at an instant; the sum stands for the average and the     *)
(* deviation.                                                              *)
ComputeStats(now) ==
    LET live == {i \in DOMAIN ring : now - ring[i].time <= Validity
                                     /\ ring[i].value # Untested}
        good == {i \in live : ring[i].value # FailedRtt}
        rtts == {ring[i].value : i \in good}
    IN  [all |-> Cardinality(live), fail |-> Cardinality(live) - Cardinality(good),
         sum |-> MapThenSumSet(LAMBDA i : ring[i].value, good),
         max |-> IF good = {} THEN 0 ELSE Max(rtts),
         min |-> IF good = {} THEN 0 ELSE Min(rtts)]

CacheHolds == scache # NoStats /\ \A i \in DOMAIN ring : ring[i].time <= updated

get_stats == /\ ~CacheHolds
             /\ scache' = ComputeStats(tick) /\ updated' = tick
             /\ UNCHANGED <<ring, idx, tick>>

RingNext == \/ \E d \in 1 .. 2 : put(d)
            \/ put_fail \/ get_stats
            \/ MonitorTick /\ UNCHANGED ringVars

(* What get_stats() returns counts every result put so far, also one put   *)
(* in the same instant as the last reading: a cached answer is served only *)
(* while it is the answer for the ring as it stands.  It may be older than *)
(* the validity of its results.                                            *)
StatsCurrent == CacheHolds => scache = ComputeStats(updated)

-----------------------------------------------------------------------------
(* StatsManager.  A counter (and a channel alike) is an Arc: who           *)
(* registered it keeps it after its name is removed.  ledger counts, for   *)
(* each name, what was added and what resets erased, and whether the name  *)
(* was ever removed.  StatsService takes the Arcs first and then resets    *)
(* and reads each one, in two atomic operations.                           *)
NoId == 0
StatInit == /\ counters = [n \in StatNames |-> NoId] /\ values = <<>>
            /\ handles = [r \in Relays |-> <<>>]
            /\ ledger = [n \in StatNames |-> [added |-> 0, erased |-> 0, removed |-> FALSE]]
            /\ reading = [reset |-> FALSE, todo |-> {}, got |-> <<>>]

NewCounter(n) == /\ Len(values) < MaxIds
                 /\ values' = Append(values, 0)
                 /\ counters' = [counters EXCEPT ![n] = Len(values) + 1]

BugEntry(n) == NewCounter(n)

(* entry().or_insert_with() under the write lock.                          *)
Entry(n) == IF counters[n] = NoId THEN NewCounter(n)
            ELSE UNCHANGED <<counters, values>>

register_counter(r, n) ==
    /\ handles[r] = <<>> /\ Entry(n)
    /\ handles' = [handles EXCEPT ![r] = <<n, counters'[n]>>]
    /\ UNCHANGED <<ledger, reading>>

CounterAdd(r) ==
    /\ handles[r] # <<>>
    /\ MapThenSumSet(LAMBDA n : ledger[n].added, StatNames) < MaxAdds
    /\ values' = [values EXCEPT ![handles[r][2]] = @ + 1]
    /\ ledger' = [ledger EXCEPT ![handles[r][1]].added = @ + 1]
    /\ UNCHANGED <<counters, handles, reading>>

remove_counter(n) ==
    /\ counters[n] # NoId
    /\ counters' = [counters EXCEPT ![n] = NoId]
    /\ ledger' = [ledger EXCEPT ![n].removed = TRUE]
    /\ UNCHANGED <<values, handles, reading>>

(* get_stats asks for one name, query_stats for those that match.          *)
StatsRequest(names, reset) ==
    /\ reading.todo = {}
    /\ reading' = [reset |-> reset, got |-> <<>>,
                   todo |-> {<<n, counters[n], ~reset>> : n \in
                                {m \in names : counters[m] # NoId}}]
    /\ UNCHANGED <<counters, values, handles, ledger>>

StatsReset(t) ==
    /\ t \in reading.todo /\ ~t[3]
    /\ values' = [values EXCEPT ![t[2]] = 0]
    /\ ledger' = [ledger EXCEPT ![t[1]].erased = @ + values[t[2]]]
    /\ reading' = [reading EXCEPT !.todo = (@ \ {t}) \cup {<<t[1], t[2], TRUE>>}]
    /\ UNCHANGED <<counters, handles>>

StatsRead(t) ==
    /\ t \in reading.todo /\ t[3]
    /\ reading' = [reading EXCEPT !.todo = @ \ {t}, !.got = Append(@, values[t[2]])]
    /\ UNCHANGED <<counters, values, handles, ledger>>

StatNext == \/ \E r \in Relays : CounterAdd(r) \/ \E n \in StatNames : register_counter(r, n)
            \/ \E n \in StatNames : remove_counter(n)
            \/ \E ns \in SUBSET StatNames, reset \in BOOLEAN : StatsRequest(ns, reset)
            \/ \E t \in reading.todo : StatsReset(t) \/ StatsRead(t)

(* Connections that register one name in any order count into one counter: *)
(* until the name is removed, nothing added is missing from it but what a  *)
(* reset erased.                                                           *)
StatsConserved == \A n \in StatNames :
    ~ledger[n].removed /\ counters[n] # NoId =>
        values[counters[n]] + ledger[n].erased = ledger[n].added

-----------------------------------------------------------------------------
(* OnlineMap: for each user the last access, and that of each address.     *)
OnlineInit == online = <<>>

(* find() the address and touch it, or push a new one.                     *)
Seen(entry, ip) == [seen |-> tick, ips |-> (ip :> tick) @@ entry.ips]

record_access(email, ip) ==
    LET entry == IF email \in DOMAIN online THEN online[email]
                 ELSE [seen |-> tick, ips |-> <<>>]
    IN  /\ online' = (email :> Seen(entry, ip)) @@ online
        /\ UNCHANGED tick

Fresh(at) == tick - at < OnlineTtl

get_all_users == {e \in DOMAIN online : Fresh(online[e].seen)}

cleanup ==
    /\ online' = [e \in get_all_users |->
           [online[e] EXCEPT !.ips =
               Restrict(@, {ip \in DOMAIN @ : Fresh(online[e].ips[ip])})]]
    /\ UNCHANGED tick

OnlineNext == \/ \E e \in Emails, ip \in OnlineIps : record_access(e, ip)
              \/ cleanup
              \/ MonitorTick /\ UNCHANGED online

(* A user is online through an address: the user's last access is that of  *)
(* one of the addresses, so cleanup() leaves no user without any.          *)
OnlineHasAddress == \A e \in DOMAIN online :
    \E ip \in DOMAIN online[e].ips : online[e].ips[ip] = online[e].seen

-----------------------------------------------------------------------------
(* One part per behaviour.                                                 *)
VARIABLE mpart
monVars == <<mpart, obsVars, pingVars, ringVars, statVars, online, tick>>

MonitorInit == /\ mpart \in {"observatory", "ping", "rtts", "stats", "online"}
               /\ ObsInit(IF mpart = "observatory" THEN ProbeMethods ELSE {<<"tcp", "">>})
               /\ PingInit /\ RingInit /\ StatInit /\ OnlineInit /\ tick = 0

MonitorNext == /\ UNCHANGED mpart
    /\ \/ /\ mpart = "observatory" /\ ObsNext
          /\ UNCHANGED <<pingVars, ringVars, statVars, online, tick>>
       \/ /\ mpart = "ping" /\ PingNext
          /\ UNCHANGED <<obsVars, ringVars, statVars, online, tick>>
       \/ /\ mpart = "rtts" /\ RingNext
          /\ UNCHANGED <<obsVars, pingVars, statVars, online>>
       \/ /\ mpart = "stats" /\ StatNext
          /\ UNCHANGED <<obsVars, pingVars, ringVars, online, tick>>
       \/ /\ mpart = "online" /\ OnlineNext
          /\ UNCHANGED <<obsVars, pingVars, ringVars, statVars>>

(* A probe is under way.                                                   *)
Probing == mpart = "observatory" /\ oprobe.pc # "asleep"
=============================================================================
