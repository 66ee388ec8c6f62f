------------------------------ MODULE FakeDns ------------------------------
(***************************************************************************)
(* FakeDnsResolver of astra-core-dns: a pool of made-up IPv4 addresses     *)
(* handed out one per domain name, and the dispatcher's reverse lookup     *)
(* (enrich_with_fake_dns) that turns such an address back into its name.   *)
(*                                                                         *)
(* An address is its offset from the pool's base.  Clients are tasks that  *)
(* call resolve(); the steps between two of its awaits are separate        *)
(* actions, so several calls for one name interleave.                      *)
(* Variants named Bug... are mistakes the properties below must notice; no *)
(* action uses them.                                                       *)
(***************************************************************************)
EXTENDS Integers, FiniteSets

CONSTANTS
    FakeClients,    \* tasks that may be inside resolve()
    Names,          \* names as callers spell them
    Lower,          \* to_lowercase, a function on Names
    CounterSize,    \* values of the AtomicU32 `next` (2^32 in the code)
    PoolCount,      \* addresses in the pool: 1 << (32 - prefix)
    BlockSize,      \* addresses that share their first two octets (65536)
    MaxAllocs,      \* bound: calls of allocate() explored
    None            \* Option::None

Domains == {Lower[n] : n \in Names}
Offsets == 0 .. CounterSize - 1

ASSUME FakeConstants ==
    /\ CounterSize \in Nat \ {0}
    /\ PoolCount \in 1 .. CounterSize
    /\ BlockSize \in Nat \ {0}
    /\ MaxAllocs \in Nat
    /\ None \notin Domains /\ None \notin Offsets /\ None \notin FakeClients

VARIABLES
    next,           \* FakeIpPool.next
    domain_to_ip,
    ip_to_domain,
    mapsLock,       \* the client inside the section that holds both maps
    fpc,            \* where each client stands in resolve()
    lower,          \* its local `lower`
    ip,             \* its local `ip`
    allocs,         \* history: calls of allocate()
    answers,        \* history: the pairs <<domain, address>> returned
    enriched        \* history: the latest reverse lookup

fakeVars == <<next, domain_to_ip, ip_to_domain, mapsLock, fpc, lower, ip,
              allocs, answers, enriched>>

FakeInit ==
    /\ next = 1 % CounterSize
    /\ domain_to_ip = [d \in Domains |-> None]
    /\ ip_to_domain = [o \in Offsets |-> None]
    /\ mapsLock = None
    /\ fpc = [c \in FakeClients |-> "idle"]
    /\ lower = [c \in FakeClients |-> None]
    /\ ip = [c \in FakeClients |-> None]
    /\ allocs = 0
    /\ answers = {}
    /\ enriched = [ip |-> None, due |-> {}, got |-> None]

(***************************************************************************)
(* resolve(): the name is looked up under the first map's lock ...         *)
(***************************************************************************)
BugHitOtherKey(c, n) ==
    /\ fpc[c] = "idle" /\ mapsLock = None
    /\ \E d \in Domains :
          /\ domain_to_ip[d] # None
          /\ answers' = answers \cup {<<Lower[n], domain_to_ip[d]>>}
    /\ UNCHANGED <<next, domain_to_ip, ip_to_domain, mapsLock, fpc, lower, ip,
                   allocs, enriched>>

ResolveHit(c, n) ==
    /\ fpc[c] = "idle" /\ mapsLock = None
    /\ domain_to_ip[Lower[n]] # None
    /\ answers' = answers \cup {<<Lower[n], domain_to_ip[Lower[n]]>>}
    /\ UNCHANGED <<next, domain_to_ip, ip_to_domain, mapsLock, fpc, lower, ip,
                   allocs, enriched>>

ResolveMiss(c, n) ==
    /\ fpc[c] = "idle" /\ mapsLock = None
    /\ domain_to_ip[Lower[n]] = None
    /\ fpc' = [fpc EXCEPT ![c] = "allocate"]
    /\ lower' = [lower EXCEPT ![c] = Lower[n]]
    /\ UNCHANGED <<next, domain_to_ip, ip_to_domain, mapsLock, ip, allocs,
                   answers, enriched>>

(***************************************************************************)
(* ... a miss takes the next offset; past the pool the call fails, with    *)
(* the counter advanced all the same ...                                   *)
(***************************************************************************)
FetchAdd == (next + 1) % CounterSize

Allocate(c) ==
    /\ fpc[c] = "allocate"
    /\ allocs < MaxAllocs
    /\ allocs' = allocs + 1
    /\ next' = FetchAdd
    /\ \/ /\ next >= PoolCount
          /\ fpc' = [fpc EXCEPT ![c] = "idle"]
          /\ lower' = [lower EXCEPT ![c] = None]
          /\ UNCHANGED ip
       \/ /\ next < PoolCount
          /\ fpc' = [fpc EXCEPT ![c] = "insert"]
          /\ ip' = [ip EXCEPT ![c] = next]
          /\ UNCHANGED lower
    /\ UNCHANGED <<domain_to_ip, ip_to_domain, mapsLock, answers, enriched>>

(***************************************************************************)
(* ... and both maps are written in one section that holds both locks.     *)
(***************************************************************************)
LockMaps(c) ==
    /\ fpc[c] = "insert" /\ mapsLock = None
    /\ mapsLock' = c
    /\ fpc' = [fpc EXCEPT ![c] = "locked"]
    /\ UNCHANGED <<next, domain_to_ip, ip_to_domain, lower, ip, allocs,
                   answers, enriched>>

Insert(c) ==
    /\ fpc[c] = "locked"
    /\ domain_to_ip' = [domain_to_ip EXCEPT ![lower[c]] = ip[c]]
    /\ ip_to_domain' = [ip_to_domain EXCEPT ![ip[c]] = lower[c]]
    /\ answers' = answers \cup {<<lower[c], ip[c]>>}
    /\ mapsLock' = None
    /\ fpc' = [fpc EXCEPT ![c] = "idle"]
    /\ lower' = [lower EXCEPT ![c] = None]
    /\ ip' = [ip EXCEPT ![c] = None]
    /\ UNCHANGED <<next, allocs, enriched>>

(***************************************************************************)
(* The dispatcher: is_fake_ip compares two octets, get_domain gives up     *)
(* when the reverse map is locked: by a client inside its section, or by   *)
(* another connection's get_domain (contended).                            *)
(***************************************************************************)
is_fake_ip(o) == o < BlockSize

get_domain(o, contended) ==
    IF mapsLock # None \/ contended THEN None ELSE ip_to_domain[o]

DueDomains(o) == {d \in Domains : <<d, o>> \in answers}

enrich_with_fake_dns(o, contended) ==
    /\ enriched' = [ip |-> o, due |-> DueDomains(o),
                    got |-> IF is_fake_ip(o) THEN get_domain(o, contended)
                                             ELSE None]
    /\ UNCHANGED <<next, domain_to_ip, ip_to_domain, mapsLock, fpc, lower, ip,
                   allocs, answers>>

FakeStep(c) ==
    \/ \E n \in Names : ResolveHit(c, n) \/ ResolveMiss(c, n)
    \/ Allocate(c) \/ LockMaps(c) \/ Insert(c)

FakeNext ==
    \/ \E c \in FakeClients : FakeStep(c)
    \/ \E o \in 0 .. PoolCount - 1, contended \in BOOLEAN :
          enrich_with_fake_dns(o, contended)

FakeSpec == FakeInit /\ [][FakeNext]_fakeVars

-----------------------------------------------------------------------------
(* The resolver's variables hold values of their types.                    *)
FakeTypeOK ==
    /\ next \in Offsets
    /\ domain_to_ip \in [Domains -> Offsets \cup {None}]
    /\ ip_to_domain \in [Offsets -> Domains \cup {None}]
    /\ mapsLock \in FakeClients \cup {None}
    /\ fpc \in [FakeClients -> {"idle", "allocate", "insert", "locked"}]
    /\ lower \in [FakeClients -> Domains \cup {None}]
    /\ ip \in [FakeClients -> Offsets \cup {None}]
    /\ \A c \in FakeClients :
          /\ fpc[c] # "idle" => lower[c] \in Domains
          /\ fpc[c] \in {"insert", "locked"} => ip[c] \in 0 .. PoolCount - 1
          /\ fpc[c] = "locked" => mapsLock = c
    /\ allocs \in Nat
    /\ answers \subseteq Domains \X Offsets
    /\ enriched \in [ip : Offsets \cup {None}, due : SUBSET Domains,
                     got : Domains \cup {None}]

(* The counter has not come round: every call of allocate() so far has     *)
(* drawn another offset.                                                   *)
NotWrapped == allocs <= CounterSize

(* Until the 32-bit counter comes round, every address resolve() has ever  *)
(* answered stays registered for the name it was answered for, however     *)
(* many calls for equal and different names interleave: ip_to_domain takes *)
(* each answer back to its name.                                           *)
AnswersReversible ==
    NotWrapped => \A a \in answers : ip_to_domain[a[2]] = a[1]

(* Until the counter comes round, an address registered for a name is      *)
(* never registered for another one, an exhausted pool included: the       *)
(* insert section only ever writes a fresh key of ip_to_domain.            *)
RegistrationIsFinal ==
    [][NotWrapped' => \A o \in Offsets :
          ip_to_domain[o] # None => ip_to_domain'[o] = ip_to_domain[o]]_fakeVars

(* enrich_with_fake_dns's promise: "If the target IP is a fake IP, look up *)
(* the real domain and set target_domain."  An address that was answered   *)
(* for a name gets that name as target_domain.                             *)
FakeTargetsAreNamed ==
    NotWrapped /\ enriched.due # {} => enriched.got \in enriched.due
=============================================================================
