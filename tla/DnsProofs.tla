----------------------------- MODULE DnsProofs -----------------------------
(***************************************************************************)
(* The two ways astra-core-dns answers, each for every value of its        *)
(* constants.                                                              *)
(*   FakeDns:     until the address counter comes round, every fake        *)
(*                address answered to a caller leads back to the caller's  *)
(*                name, for any number of clients, names and addresses.    *)
(*   DnsResolver: a lookup's answer is that of the first server in order   *)
(*                that has one and may answer for the name, and an answer  *)
(*                out of the cache is younger than its time to live, for   *)
(*                any configuration and any number of concurrent lookups.  *)
(***************************************************************************)
EXTENDS FakeDns, DnsResolver, Counting


(* The number of the allocate() call that draws offset o, counting from 0. *)
Draw(o) == IF o = 0 THEN CounterSize - 1 ELSE o - 1

(* A client between allocate() and the insert section owns its offset.     *)
Owns(c) == fpc[c] \in {"insert", "locked"}

(* The counter is the number of draws, and no offset in use is undrawn.    *)
CounterCountsDraws ==
    /\ allocs < CounterSize => Draw(next) = allocs
    /\ \A c \in FakeClients : Owns(c) => Draw(ip[c]) < allocs
    /\ \A o \in Offsets : ip_to_domain[o] # None => Draw(o) < allocs

(* An owned offset is owned once and not registered.                       *)
OwnedIsFresh ==
    \A c \in FakeClients : Owns(c) =>
        /\ ip_to_domain[ip[c]] = None
        /\ \A e \in FakeClients : Owns(e) /\ ip[e] = ip[c] => e = c

(* The forward map and the answers lead back to their names.               *)
MapsAgree ==
    /\ \A d \in Domains :
          domain_to_ip[d] # None => ip_to_domain[domain_to_ip[d]] = d
    /\ \A d \in Domains, o \in Offsets :
          <<d, o>> \in answers => ip_to_domain[o] = d

(* The inductive invariant.                                                *)
FakeInv ==
    /\ FakeTypeOK
    /\ NotWrapped => CounterCountsDraws /\ OwnedIsFresh /\ MapsAgree

(* What fetch_add does to the counter, case by case.                       *)
LEMMA FetchAddLemma ==
    ASSUME next \in Offsets
    PROVE  /\ FetchAdd \in Offsets
           /\ FetchAdd = IF next = CounterSize - 1 THEN 0 ELSE next + 1
<1>. USE FakeConstants DEF Offsets
<1>1. CASE next = CounterSize - 1
  <2>1. (next + 1) % CounterSize = 0
    BY <1>1
  <2>. QED  BY <1>1, <2>1 DEF FetchAdd
<1>2. CASE next # CounterSize - 1
  <2>1. next + 1 \in 0 .. CounterSize - 1
    BY <1>2
  <2>2. (next + 1) % CounterSize = next + 1
    BY <2>1
  <2>. QED  BY <1>2, <2>1, <2>2 DEF FetchAdd
<1>. QED  BY <1>1, <1>2

(* resolve() looks names up in lower case.                                  *)
LEMMA LowerIsDomain ==
    ASSUME NEW n \in Names  PROVE Lower[n] \in Domains
BY DEF Domains

(* A new resolver, with empty maps and a full pool, satisfies it.           *)
LEMMA InvInit == FakeInit => FakeInv
<1>. SUFFICES ASSUME FakeInit PROVE FakeInv
  OBVIOUS
<1>. USE FakeConstants DEF FakeInit
<1>1. 1 % CounterSize \in Offsets /\ 1 % CounterSize = IF CounterSize = 1 THEN 0 ELSE 1
  BY DEF Offsets
<1>2. FakeTypeOK
  <2>1. enriched \in [ip : Offsets \cup {None}, due : SUBSET Domains,
                     got : Domains \cup {None}]
    OBVIOUS
  <2>. QED  BY <1>1, <2>1 DEF FakeTypeOK
<1>3. CounterCountsDraws
  BY <1>1 DEF CounterCountsDraws, Draw, Owns
<1>4. OwnedIsFresh /\ MapsAgree
  BY SMTT(20) DEF OwnedIsFresh, MapsAgree, Owns
<1>. QED  BY <1>2, <1>3, <1>4 DEF FakeInv

(* Type correctness is kept by every step.                                 *)
LEMMA TypeStep == FakeTypeOK /\ [FakeNext]_fakeVars => FakeTypeOK'
<1>. SUFFICES ASSUME FakeTypeOK, [FakeNext]_fakeVars PROVE FakeTypeOK'
  OBVIOUS
<1>. USE FakeConstants DEF FakeTypeOK
<1>1. ASSUME NEW c \in FakeClients, NEW n \in Names, ResolveHit(c, n)
      PROVE  FakeTypeOK'
  <2>1. <<Lower[n], domain_to_ip[Lower[n]]>> \in Domains \X Offsets
    BY <1>1, LowerIsDomain DEF ResolveHit
  <2>. QED  BY <1>1, <2>1 DEF ResolveHit
<1>2. ASSUME NEW c \in FakeClients, NEW n \in Names, ResolveMiss(c, n)
      PROVE  FakeTypeOK'
  BY <1>2, LowerIsDomain DEF ResolveMiss
<1>3. ASSUME NEW c \in FakeClients, Allocate(c)
      PROVE  FakeTypeOK'
  <2>1. next' \in Offsets
    BY <1>3, FetchAddLemma DEF Allocate
  <2>2. next < PoolCount => next \in 0 .. PoolCount - 1
    BY DEF Offsets
  <2>3. allocs' \in Nat
    BY <1>3 DEF Allocate
  <2>4. next \in Offsets /\ next' = FetchAdd
    BY <1>3 DEF Allocate
  <2>5. CASE next >= PoolCount
    <3>1. /\ fpc' = [fpc EXCEPT ![c] = "idle"]
          /\ lower' = [lower EXCEPT ![c] = None]
          /\ UNCHANGED <<ip, domain_to_ip, ip_to_domain, mapsLock, answers,
                         enriched>>
      BY <1>3, <2>5 DEF Allocate, Offsets
    <3>. QED  BY <1>3, <2>1, <2>3, <3>1 DEF Allocate
  <2>6. CASE next < PoolCount
    <3>1. /\ fpc[c] = "allocate"
          /\ fpc' = [fpc EXCEPT ![c] = "insert"]
          /\ ip' = [ip EXCEPT ![c] = next]
          /\ UNCHANGED <<lower, domain_to_ip, ip_to_domain, mapsLock, answers,
                         enriched>>
      BY <1>3, <2>4, <2>6 DEF Allocate, Offsets
    <3>2. /\ fpc' \in [FakeClients -> {"idle", "allocate", "insert", "locked"}]
          /\ ip' \in [FakeClients -> Offsets \cup {None}]
      BY <2>4, <3>1
    <3>3. ASSUME NEW e \in FakeClients
          PROVE  /\ fpc'[e] # "idle" => lower'[e] \in Domains
                 /\ fpc'[e] \in {"insert", "locked"} => ip'[e] \in 0 .. PoolCount - 1
                 /\ fpc'[e] = "locked" => mapsLock' = e
      <4>1. CASE e = c
        BY <2>2, <2>6, <3>1, <4>1
      <4>2. CASE e # c
        BY <3>1, <4>2
      <4>. QED  BY <4>1, <4>2
    <3>. QED  BY <2>1, <2>3, <3>1, <3>2, <3>3
  <2>. QED  BY <1>3, <2>5, <2>6 DEF Allocate
<1>4. ASSUME NEW c \in FakeClients, LockMaps(c)
      PROVE  FakeTypeOK'
  BY <1>4 DEF LockMaps
<1>5. ASSUME NEW c \in FakeClients, Insert(c)
      PROVE  FakeTypeOK'
  <2>1. lower[c] \in Domains /\ ip[c] \in 0 .. PoolCount - 1 /\ ip[c] \in Offsets
    BY <1>5 DEF Insert, Offsets
  <2>2. answers' \subseteq Domains \X Offsets
    BY <1>5, <2>1 DEF Insert
  <2>. QED  BY <1>5, <2>1, <2>2 DEF Insert
<1>6. ASSUME NEW o \in 0 .. PoolCount - 1, NEW contended \in BOOLEAN,
             enrich_with_fake_dns(o, contended)
      PROVE  FakeTypeOK'
  <2>1. o \in Offsets
    BY DEF Offsets
  <2>2. get_domain(o, contended) \in Domains \cup {None}
    BY <2>1 DEF get_domain
  <2>3. DueDomains(o) \in SUBSET Domains
    BY DEF DueDomains
  <2>4. enriched' \in [ip : Offsets \cup {None}, due : SUBSET Domains,
                      got : Domains \cup {None}]
    BY <1>6, <2>1, <2>2, <2>3 DEF enrich_with_fake_dns
  <2>. QED  BY <1>6, <2>4 DEF enrich_with_fake_dns
<1>7. CASE UNCHANGED fakeVars
  BY <1>7 DEF fakeVars
<1>. QED  BY <1>1, <1>2, <1>3, <1>4, <1>5, <1>6, <1>7 DEF FakeNext, FakeStep

(* The maps, the counter and the owners stay consistent.                   *)
LEMMA InvStep == FakeInv /\ [FakeNext]_fakeVars => FakeInv'
<1>. SUFFICES ASSUME FakeInv, [FakeNext]_fakeVars PROVE FakeInv'
  OBVIOUS
<1>t. FakeTypeOK /\ FakeTypeOK'
  BY TypeStep DEF FakeInv
<1>. SUFFICES ASSUME NotWrapped' PROVE (CounterCountsDraws /\ OwnedIsFresh /\ MapsAgree)'
  BY <1>t DEF FakeInv
<1>. USE FakeConstants
<1>n. NotWrapped
  <2>1. allocs' = allocs \/ allocs' = allocs + 1
    BY DEF FakeNext, FakeStep, ResolveHit, ResolveMiss, Allocate, LockMaps,
           Insert, enrich_with_fake_dns, fakeVars
  <2>. QED  BY <2>1, <1>t DEF NotWrapped, FakeTypeOK
<1>i. CounterCountsDraws /\ OwnedIsFresh /\ MapsAgree
  BY <1>n DEF FakeInv
<1>1. ASSUME NEW c \in FakeClients, NEW n \in Names, ResolveHit(c, n)
      PROVE  (CounterCountsDraws /\ OwnedIsFresh /\ MapsAgree)'
  <2>. USE <1>1, <1>i, <1>t DEF ResolveHit, FakeTypeOK
  <2>1. CounterCountsDraws'
    BY DEF CounterCountsDraws, Owns
  <2>2. OwnedIsFresh'
    BY DEF OwnedIsFresh, Owns
  <2>3. MapsAgree'
    BY LowerIsDomain DEF MapsAgree
  <2>. QED  BY <2>1, <2>2, <2>3
<1>2. ASSUME NEW c \in FakeClients, NEW n \in Names, ResolveMiss(c, n)
      PROVE  (CounterCountsDraws /\ OwnedIsFresh /\ MapsAgree)'
  <2>. USE <1>2, <1>i, <1>t DEF ResolveMiss, FakeTypeOK
  <2>1. CounterCountsDraws'
    BY DEF CounterCountsDraws, Owns
  <2>2. OwnedIsFresh'
    BY DEF OwnedIsFresh, Owns
  <2>3. MapsAgree'
    BY DEF MapsAgree
  <2>. QED  BY <2>1, <2>2, <2>3
<1>3. ASSUME NEW c \in FakeClients, Allocate(c)
      PROVE  (CounterCountsDraws /\ OwnedIsFresh /\ MapsAgree)'
  <2>1. allocs' = allocs + 1 /\ allocs < CounterSize /\ allocs \in Nat
    BY <1>3, <1>t DEF Allocate, NotWrapped, FakeTypeOK
  <2>2. Draw(next) = allocs
    BY <1>i, <2>1 DEF CounterCountsDraws
  <2>3. next \in Offsets /\ UNCHANGED <<ip_to_domain, domain_to_ip, answers>>
    BY <1>3, <1>t DEF Allocate, FakeTypeOK
  <2>4. allocs' < CounterSize => Draw(next') = allocs'
    <3>1. next' = IF next = CounterSize - 1 THEN 0 ELSE next + 1
      BY <1>3, <2>3, FetchAddLemma DEF Allocate
    <3>. QED  BY <2>1, <2>2, <2>3, <3>1 DEF Draw, Offsets
  <2>5. \A e \in FakeClients :
          Owns(e)' => \/ e = c /\ ip'[e] = next
                      \/ e # c /\ Owns(e) /\ ip'[e] = ip[e]
    <3>1. fpc \in [FakeClients -> {"idle", "allocate", "insert", "locked"}]
          /\ ip \in [FakeClients -> Offsets \cup {None}]
      BY <1>t DEF FakeTypeOK
    <3>2. CASE fpc' = [fpc EXCEPT ![c] = "idle"] /\ ip' = ip
      <4>. SUFFICES ASSUME NEW e \in FakeClients, Owns(e)'
                    PROVE  e # c /\ Owns(e)
        BY <3>2
      <4>1. e # c
        BY <3>1, <3>2 DEF Owns
      <4>2. fpc'[e] = fpc[e]
        BY <3>1, <3>2, <4>1
      <4>. QED  BY <4>1, <4>2 DEF Owns
    <3>3. CASE fpc' = [fpc EXCEPT ![c] = "insert"] /\ ip' = [ip EXCEPT ![c] = next]
      <4>. TAKE e \in FakeClients
      <4>. HAVE Owns(e)'
      <4>1. CASE e = c
        BY <3>1, <3>3, <4>1
      <4>2. CASE e # c
        <5>1. fpc'[e] = fpc[e] /\ ip'[e] = ip[e]
          BY <3>1, <3>3, <4>2
        <5>. QED  BY <5>1, <4>2 DEF Owns
      <4>. QED  BY <4>1, <4>2
    <3>. QED  BY <1>3, <3>2, <3>3 DEF Allocate
  <2>6. /\ ip_to_domain[next] = None
        /\ \A e \in FakeClients : Owns(e) => ip[e] # next
    BY <1>i, <2>1, <2>2, <2>3 DEF CounterCountsDraws
  <2>7. CounterCountsDraws'
    <3>1. \A e \in FakeClients : Owns(e)' => Draw(ip'[e]) < allocs'
      <4>. SUFFICES ASSUME NEW e \in FakeClients, Owns(e)'
                    PROVE  Draw(ip'[e]) < allocs'
        OBVIOUS
      <4>1. CASE e = c
        BY <4>1, <2>1, <2>2, <2>5
      <4>2. CASE e # c
        <5>1. Draw(ip[e]) < allocs /\ Owns(e) /\ ip'[e] = ip[e]
          BY <4>2, <2>5, <1>i DEF CounterCountsDraws
        <5>2. Draw(ip[e]) \in Int
          BY <5>1, <1>t DEF Draw, Owns, FakeTypeOK
        <5>. QED  BY <5>1, <5>2, <2>1
      <4>. QED  BY <4>1, <4>2
    <3>2. \A o \in Offsets : ip_to_domain'[o] # None => Draw(o) < allocs'
      BY <2>1, <2>3, <1>i DEF CounterCountsDraws, Draw, Offsets
    <3>. QED  BY <2>4, <3>1, <3>2 DEF CounterCountsDraws, Draw
  <2>8. OwnedIsFresh'
    BY <2>3, <2>5, <2>6, <1>i DEF OwnedIsFresh
  <2>9. MapsAgree'
    BY <2>3, <1>i DEF MapsAgree
  <2>. QED  BY <2>7, <2>8, <2>9
<1>4. ASSUME NEW c \in FakeClients, LockMaps(c)
      PROVE  (CounterCountsDraws /\ OwnedIsFresh /\ MapsAgree)'
  <2>. USE <1>4, <1>i, <1>t DEF LockMaps, FakeTypeOK
  <2>1. CounterCountsDraws'
    BY DEF CounterCountsDraws, Owns
  <2>2. OwnedIsFresh'
    BY DEF OwnedIsFresh, Owns
  <2>3. MapsAgree'
    BY DEF MapsAgree
  <2>. QED  BY <2>1, <2>2, <2>3
<1>5. ASSUME NEW c \in FakeClients, Insert(c)
      PROVE  (CounterCountsDraws /\ OwnedIsFresh /\ MapsAgree)'
  <2>1. Owns(c) /\ lower[c] \in Domains /\ ip[c] \in Offsets
    BY <1>5, <1>t DEF Insert, Owns, FakeTypeOK, Offsets
  <2>2. ip_to_domain[ip[c]] = None /\ Draw(ip[c]) < allocs
    BY <2>1, <1>i DEF OwnedIsFresh, CounterCountsDraws
  <2>3. \A e \in FakeClients :
          Owns(e)' => e # c /\ Owns(e) /\ ip'[e] = ip[e] /\ ip[e] # ip[c]
    BY <1>5, <1>t, <1>i, <2>1 DEF Insert, Owns, FakeTypeOK, OwnedIsFresh
  <2>4. /\ ip_to_domain' = [ip_to_domain EXCEPT ![ip[c]] = lower[c]]
        /\ domain_to_ip' = [domain_to_ip EXCEPT ![lower[c]] = ip[c]]
        /\ answers' = answers \cup {<<lower[c], ip[c]>>}
        /\ UNCHANGED <<next, allocs>>
    BY <1>5 DEF Insert
  <2>5. CounterCountsDraws'
    BY <2>1, <2>2, <2>3, <2>4, <1>i, <1>t DEF CounterCountsDraws, FakeTypeOK, Draw
  <2>6. OwnedIsFresh'
    <3>. SUFFICES ASSUME NEW e \in FakeClients, Owns(e)'
                  PROVE  /\ ip_to_domain'[ip'[e]] = None
                         /\ \A f \in FakeClients : Owns(f)' /\ ip'[f] = ip'[e] => f = e
      BY DEF OwnedIsFresh
    <3>1. e # c /\ Owns(e) /\ ip'[e] = ip[e] /\ ip[e] # ip[c] /\ ip[e] \in Offsets
      BY <2>3, <1>t, SMTT(20) DEF Owns, FakeTypeOK, Offsets
    <3>2. ip_to_domain[ip[e]] = None
      BY <3>1, <1>i, SMTT(20) DEF OwnedIsFresh
    <3>3. ip_to_domain'[ip'[e]] = None
      BY <3>1, <3>2, <2>4, <1>t, SMTT(20) DEF FakeTypeOK
    <3>4. \A f \in FakeClients : Owns(f)' /\ ip'[f] = ip'[e] => f = e
      BY <3>1, <2>3, <1>i, SMTT(20) DEF OwnedIsFresh
    <3>. QED  BY <3>3, <3>4
  <2>7. \A d \in Domains :
          domain_to_ip'[d] # None => ip_to_domain'[domain_to_ip'[d]] = d
    BY <2>1, <2>2, <2>4, <1>i, <1>t, SMTT(20) DEF MapsAgree, FakeTypeOK
  <2>8. \A d \in Domains, o \in Offsets :
          <<d, o>> \in answers' => ip_to_domain'[o] = d
    BY <2>1, <2>2, <2>4, <1>i, <1>t DEF MapsAgree, FakeTypeOK
  <2>. QED  BY <2>5, <2>6, <2>7, <2>8 DEF MapsAgree
<1>6. ASSUME NEW o \in 0 .. PoolCount - 1, NEW contended \in BOOLEAN,
             enrich_with_fake_dns(o, contended)
      PROVE  (CounterCountsDraws /\ OwnedIsFresh /\ MapsAgree)'
  BY <1>6, <1>i, SMTT(20) DEF enrich_with_fake_dns, CounterCountsDraws, OwnedIsFresh,
                    MapsAgree, Owns
<1>7. CASE UNCHANGED fakeVars
  BY <1>7, <1>i DEF fakeVars, CounterCountsDraws, OwnedIsFresh, MapsAgree, Owns
<1>. QED  BY <1>1, <1>2, <1>3, <1>4, <1>5, <1>6, <1>7 DEF FakeNext, FakeStep

(* The invariant holds in every reachable state.                           *)
LEMMA InvHolds == FakeSpec => []FakeInv
<1>. QED  BY InvInit, InvStep, PTL DEF FakeSpec

(* The resolver's variables keep their types.                              *)
THEOREM FakeTypeCorrect == FakeSpec => []FakeTypeOK
<1>1. FakeInv => FakeTypeOK
  BY DEF FakeInv
<1>. QED  BY <1>1, InvHolds, PTL

(* Every answered address leads back to its name until the counter comes   *)
(* round.                                                                  *)
THEOREM FakeAnswersReversible == FakeSpec => []AnswersReversible
<1>1. FakeInv => AnswersReversible
  BY DEF FakeInv, FakeTypeOK, AnswersReversible, MapsAgree
<1>. QED  BY <1>1, InvHolds, PTL

(* A registered address is never registered for another name before then.  *)
THEOREM FakeRegistrationFinal == FakeSpec => RegistrationIsFinal
<1>. DEFINE Kept == NotWrapped' => \A o \in Offsets :
               ip_to_domain[o] # None => ip_to_domain'[o] = ip_to_domain[o]
<1>1. FakeInv /\ [FakeNext]_fakeVars => [Kept]_fakeVars
  <2>. SUFFICES ASSUME FakeInv, [FakeNext]_fakeVars, NotWrapped',
                       NEW o \in Offsets, ip_to_domain[o] # None
                PROVE  ip_to_domain'[o] = ip_to_domain[o]
    OBVIOUS
  <2>1. CASE \E c \in FakeClients : Insert(c)
    <3>1. PICK c \in FakeClients : Insert(c)
      BY <2>1
    <3>2. NotWrapped
      BY <3>1 DEF Insert, NotWrapped
    <3>3. Owns(c) /\ ip_to_domain[ip[c]] = None
      BY <3>1, <3>2, SMTT(20) DEF FakeInv, OwnedIsFresh, Owns, Insert
    <3>. QED  BY <3>1, <3>3 DEF Insert, FakeInv, FakeTypeOK
  <2>2. CASE ~ \E c \in FakeClients : Insert(c)
    BY <2>2 DEF FakeNext, FakeStep, ResolveHit, ResolveMiss, Allocate, LockMaps,
                enrich_with_fake_dns, fakeVars
  <2>. QED  BY <2>1, <2>2
<1>. QED  BY <1>1, InvHolds, PTL DEF FakeSpec, RegistrationIsFinal


-----------------------------------------------------------------------------
(* The lists of servers: the i-th of InOrder(S) is the one with i - 1      *)
(* others of S before it.                                                  *)
LEMMA InOrderLists ==
  ASSUME NEW n \in Nat, NEW S, S \subseteq 1 .. n
  PROVE  InOrder(S) \in Seq(S) /\ IsInjective(InOrder(S))
  <1> DEFINE Below(s) == {r \in S : r < s}
             rank == [s \in S |-> Cardinality(Below(s))]
             m == Cardinality(S)
  <1>1. IsFiniteSet(S) /\ m \in Nat /\ \A s \in S : s \in Nat
    <2>1. IsFiniteSet(1 .. n)
      BY FS_Interval
    <2>2. IsFiniteSet(S)
      BY <2>1, FS_Subset
    <2> QED BY <2>2, FS_CardinalityType
  <1>2. ASSUME NEW s \in S PROVE IsFiniteSet(Below(s)) /\ Cardinality(Below(s)) \in 0 .. m - 1
    <2>1. Below(s) \in SUBSET S /\ s \notin Below(s)
      BY <1>1
    <2>2. Below(s) # S
      BY <2>1
    <2> HIDE DEF Below
    <2>3. IsFiniteSet(Below(s)) /\ Cardinality(Below(s)) <= m /\ Cardinality(Below(s)) # m
      BY <1>1, <2>1, <2>2, FS_Subset
    <2>4. Cardinality(Below(s)) \in Nat
      BY <2>3, FS_CardinalityType
    <2> HIDE DEF m
    <2> QED BY <1>1, <2>3, <2>4
  <1>3. ASSUME NEW r \in S, NEW s \in S, r < s PROVE Cardinality(Below(r)) # Cardinality(Below(s))
    <2>1. Below(r) \in SUBSET Below(s) /\ r \in Below(s) /\ r \notin Below(r)
      <3>1. \A x \in S : x < r => x < s
        BY <1>1, <1>3
      <3>2. ~(r < r)
        BY <1>1
      <3> QED BY <1>3, <3>1, <3>2, Zenon
    <2>2. Below(r) # Below(s) /\ IsFiniteSet(Below(s))
      BY <1>2, <2>1
    <2> HIDE DEF Below
    <2> QED BY <2>1, <2>2, FS_Subset
  <1>4. \A r, s \in S : Cardinality(Below(r)) = Cardinality(Below(s)) => r = s
    <2> HIDE DEF Below
    <2> QED BY <1>1, <1>3
  <1>5. rank \in Injection(S, 0 .. m - 1)
    <2> HIDE DEF Below, m
    <2> QED BY <1>2, <1>4 DEF Injection, IsInjective
  <1>6. IsFiniteSet(0 .. m - 1) /\ Cardinality(0 .. m - 1) = m
    <2> HIDE DEF m
    <2>1. m - 1 \in Int
      BY <1>1
    <2>2. IsFiniteSet(0 .. m - 1) /\ Cardinality(0 .. m - 1) = IF 0 > m - 1 THEN 0 ELSE (m - 1) - 0 + 1
      BY <2>1, FS_Interval
    <2> QED BY <1>1, <2>2
  <1>7. rank \in Surjection(S, 0 .. m - 1)
    <2> HIDE DEF rank
    <2> QED BY <1>5, <1>6, FS_Injection
  <1>8. \A i \in 1 .. m : \E s \in S : Cardinality(Below(s)) = i - 1
    <2> HIDE DEF Below, m
    <2>1. \A i \in 1 .. m : i - 1 \in 0 .. m - 1
      BY <1>1
    <2> QED BY <1>7, <2>1 DEF Surjection
  <1>9. InOrder(S) = [i \in 1 .. m |-> CHOOSE s \in S : Cardinality(Below(s)) = i - 1]
    BY Zenon DEF InOrder
  <1> HIDE DEF Below, m, rank
  <1>10. PICK q : q = InOrder(S)
    BY Zenon
  <1>11. q \in Seq(S) /\ DOMAIN q = 1 .. m
    BY <1>1, <1>8, <1>9, <1>10
  <1>12. \A i \in 1 .. m : Cardinality(Below(q[i])) = i - 1
    BY <1>8, <1>9, <1>10
  <1>13. \A i, j \in 1 .. m : q[i] = q[j] => i = j
    <2> TAKE i, j \in 1 .. m
    <2> HAVE q[i] = q[j]
    <2>1. i - 1 = j - 1
      BY <1>12
    <2> QED BY <2>1
  <1> QED BY <1>10, <1>11, <1>13, Zenon DEF IsInjective

-----------------------------------------------------------------------------
(* The static hosts: the recursive definition has a solution, and what it  *)
(* finds are addresses of the table or a name.                             *)
Entry(hosts, g, left, d) ==
    IF left = 0 \/ d \notin DOMAIN hosts THEN NotListed
    ELSE IF hosts[d].ips # {}
         THEN [found |-> "ips", ips |-> hosts[d].ips, name |-> d]
    ELSE LET rest == g[left - 1][hosts[d].to]
         IN  IF rest = NotListed
             THEN [found |-> "name", ips |-> {}, name |-> hosts[d].to]
             ELSE rest

Entries(hosts, g, left) == [d \in HostNames |-> Entry(hosts, g, left, d)]

LEMMA EntriesSame ==
  ASSUME NEW hosts, NEW g, NEW h, NEW left, left = 0 \/ g[left - 1] = h[left - 1]
  PROVE  Entries(hosts, g, left) = Entries(hosts, h, left)
  <1>1. \A d : Entry(hosts, g, left, d) = Entry(hosts, h, left, d)
    BY Zenon DEF Entry
  <1> QED BY <1>1, Zenon DEF Entries

LEMMA ChainExists ==
  ASSUME NEW hosts, NEW m \in Nat
  PROVE  \E g : g = [left \in 0 .. m |-> Entries(hosts, g, left)]
  <1> DEFINE Upto(n) == \E g : DOMAIN g = 0 .. n /\ \A i \in 0 .. n : g[i] = Entries(hosts, g, i)
             N == {n \in Nat : Upto(n)}
  <1>1. 0 \in N
    <2>1. PICK x : x = Entries(hosts, <<>>, 0)
      BY Zenon
    <2>2. PICK g : g = [i \in 0 .. 0 |-> x]
      BY Zenon
    <2>3. DOMAIN g = 0 .. 0 /\ g[0] = x
      BY <2>2
    <2>4. Entries(hosts, g, 0) = x
      BY <2>1, EntriesSame, Zenon
    <2>5. \A i \in 0 .. 0 : i = 0
      OBVIOUS
    <2>6. \A i \in 0 .. 0 : g[i] = Entries(hosts, g, i)
      BY <2>3, <2>4, <2>5, Zenon
    <2>7. Upto(0)
      BY <2>3, <2>6, Zenon
    <2> HIDE DEF Upto
    <2> QED BY <2>7
  <1>2. ASSUME NEW n \in Nat, n \in N PROVE n + 1 \in N
    <2>1. PICK g : DOMAIN g = 0 .. n /\ \A i \in 0 .. n : g[i] = Entries(hosts, g, i)
      BY <1>2, Zenon
    <2>2. PICK x : x = Entries(hosts, g, n + 1)
      BY Zenon
    <2>3. PICK h : h = [i \in 0 .. n + 1 |-> IF i = n + 1 THEN x ELSE g[i]]
      BY Zenon
    <2>4. DOMAIN h = 0 .. n + 1 /\ h[n + 1] = x /\ \A i \in 0 .. n : h[i] = g[i]
      BY <2>3
    <2>5. ASSUME NEW i \in 0 .. n + 1 PROVE h[i] = Entries(hosts, h, i)
      <3>1. i = 0 \/ g[i - 1] = h[i - 1]
        BY <2>4
      <3>2. Entries(hosts, g, i) = Entries(hosts, h, i)
        BY <3>1, EntriesSame, Zenon
      <3>3. i = n + 1 \/ i \in 0 .. n
        OBVIOUS
      <3> QED BY <2>1, <2>2, <2>4, <3>2, <3>3, Zenon
    <2>6. Upto(n + 1)
      BY <2>4, <2>5, Zenon
    <2> HIDE DEF Upto
    <2> QED BY <2>6
  <1>3. m \in N
    <2> HIDE DEF N
    <2> QED BY <1>1, <1>2, NatInductive
  <1>4. PICK g : DOMAIN g = 0 .. m /\ \A i \in 0 .. m : g[i] = Entries(hosts, g, i)
    BY <1>3, Zenon
  <1>5. PICK h : h = [i \in 0 .. m |-> g[i]]
    BY Zenon
  <1>6. \A i \in 0 .. m : h[i] = g[i]
    BY <1>5
  <1>7. \A i \in 0 .. m : h[i] = Entries(hosts, h, i)
    <2> TAKE i \in 0 .. m
    <2>1. h[i] = g[i] /\ (i = 0 \/ g[i - 1] = h[i - 1])
      BY <1>6
    <2>2. Entries(hosts, g, i) = Entries(hosts, h, i)
      BY <2>1, EntriesSame, Zenon
    <2> QED BY <1>4, <2>1, <2>2, Zenon
  <1>8. h = [left \in 0 .. m |-> Entries(hosts, h, left)]
    BY <1>5, <1>7
  <1> QED BY <1>8, Zenon

Found(h) ==
    /\ h.found = "ips" => h.ips # {} /\ h.ips \subseteq HostIps
    /\ h.found = "name" => h.name \in HostNames

LEMMA LookupFinds ==
  ASSUME cfg \in Configs, NEW domain \in HostNames
  PROVE  Found(lookup_recursive(cfg.hosts, domain))
  <1> DEFINE hosts == cfg.hosts
             Body(g) == [left \in 0 .. MaxHops |-> Entries(hosts, g, left)]
             chain == CHOOSE g : g = Body(g)
  <1>0. MaxHops \in Nat
    BY DEF MaxHops
  <1>1. \E g : g = Body(g)
    BY <1>0, ChainExists, Zenon
  <1>2. lookup_recursive(hosts, domain) = chain[MaxHops][domain]
    BY Zenon DEF lookup_recursive, Entries, Entry
  <1>3. chain = Body(chain)
    <2> HIDE DEF Body
    <2> QED BY <1>1, Zenon
  <1>4. \A n \in 0 .. MaxHops, d \in HostNames : chain[n][d] = Entry(hosts, chain, n, d)
    <2> HIDE DEF chain
    <2>1. \A n \in 0 .. MaxHops : chain[n] = Entries(hosts, chain, n)
      BY <1>3, Zenon
    <2> QED BY <2>1, Zenon DEF Entries
  <1>5. Found(NotListed)
    BY DEF Found, NotListed
  <1>6. \A d \in DOMAIN hosts : hosts[d].ips = {} => hosts[d].to \in HostNames
    BY ConfigsShape
  <1>7. \A d \in DOMAIN hosts : hosts[d].ips \subseteq HostIps
    BY DEF HostIps, Range
  <1> HIDE DEF hosts, chain, Body
  <1> DEFINE N == {n \in Nat : n <= MaxHops => \A d \in HostNames : Found(chain[n][d])}
  <1>8. 0 \in N
    <2>1. \A d \in HostNames : chain[0][d] = NotListed
      <3>1. 0 \in 0 .. MaxHops
        BY <1>0
      <3>2. \A d \in HostNames : chain[0][d] = Entry(hosts, chain, 0, d)
        BY <1>4, <3>1, Zenon
      <3> QED BY <3>2, Zenon DEF Entry
    <2> QED BY <1>5, <2>1
  <1>9. ASSUME NEW n \in Nat, n \in N PROVE n + 1 \in N
    <2> SUFFICES ASSUME n + 1 <= MaxHops, NEW d \in HostNames PROVE Found(chain[n + 1][d])
      OBVIOUS
    <2>1. n + 1 \in 0 .. MaxHops /\ n <= MaxHops /\ n + 1 # 0 /\ (n + 1) - 1 = n
      BY <1>0
    <2>2. \A e \in HostNames : Found(chain[n][e])
      BY <1>9, <2>1
    <2>3. chain[n + 1][d] = Entry(hosts, chain, n + 1, d)
      BY <1>4, <2>1, Zenon
    <2>4. CASE d \notin DOMAIN hosts
      BY <1>5, <2>3, <2>4, Zenon DEF Entry
    <2>5. CASE d \in DOMAIN hosts /\ hosts[d].ips # {}
      <3>1. chain[n + 1][d] = [found |-> "ips", ips |-> hosts[d].ips, name |-> d]
        BY <2>1, <2>3, <2>5, Zenon DEF Entry
      <3> QED BY <1>7, <2>5, <3>1 DEF Found
    <2>6. CASE d \in DOMAIN hosts /\ hosts[d].ips = {}
      <3>1. PICK rest : rest = chain[n][hosts[d].to]
        BY Zenon
      <3>2. Found(rest) /\ hosts[d].to \in HostNames
        BY <1>6, <2>2, <2>6, <3>1, Zenon
      <3>3. chain[n + 1][d] = IF rest = NotListed
                              THEN [found |-> "name", ips |-> {}, name |-> hosts[d].to] ELSE rest
        BY <2>1, <2>3, <2>6, <3>1, Zenon DEF Entry
      <3>4. CASE rest = NotListed
        <4>1. chain[n + 1][d] = [found |-> "name", ips |-> {}, name |-> hosts[d].to]
          BY <3>3, <3>4, Zenon
        <4> QED BY <3>2, <4>1 DEF Found
      <3>5. CASE rest # NotListed
        BY <3>2, <3>3, <3>5, Zenon
      <3> QED BY <3>4, <3>5
    <2> QED BY <2>4, <2>5, <2>6
  <1>10. MaxHops \in N
    <2> HIDE DEF N
    <2> QED BY <1>0, <1>8, <1>9, NatInductive
  <1> QED BY <1>0, <1>2, <1>10 DEF hosts

-----------------------------------------------------------------------------
(* The servers that are asked for a name may answer for it, and none is    *)
(* listed twice.                                                           *)
MayAnswer(d, s) ==
    s \in Servers => \/ s \in Matched(d)
                     \/ /\ ~cfg.nameservers[s].skip_fallback
                        /\ ~HasFinal(d)
                        /\ ~FallbackDisabled(d)

Listed(order, d) ==
    /\ order \in Seq(Range(order)) /\ IsInjective(order)
    /\ \A s \in Range(order) : s \in Servers \cup {Upstream} /\ MayAnswer(d, s)

LEMMA Lists ==
  ASSUME NEW S, NEW p \in Seq(S)
  PROVE  p \in Seq(Range(p)) /\ Range(p) \subseteq S
  BY DEF Range

LEMMA Widened ==
  ASSUME NEW S, NEW T, S \subseteq T, NEW p \in Seq(S)
  PROVE  p \in Seq(T)
  OBVIOUS

LEMMA ServersAreListed ==
  ASSUME cfg \in Configs
  PROVE  \E n \in Nat : Servers = 1 .. n
  <1>1. PICK ns, R : ns = cfg.nameservers /\ ns \in Seq(R)
    BY ConfigsShape, Zenon
  <1>2. DOMAIN ns = 1 .. Len(ns) /\ Len(ns) \in Nat
    BY <1>1
  <1> QED BY <1>1, <1>2, Zenon DEF Servers

LEMMA OrderListed ==
  ASSUME cfg \in Configs, NEW d
  PROVE  Listed(ServersToAsk(d), d)
  <1>1. PICK n \in Nat : Servers = 1 .. n
    BY ServersAreListed
  <1>2. PICK M, F : /\ M = Matched(d)
                    /\ F = {s \in Servers \ M : ~cfg.nameservers[s].skip_fallback}
    BY Zenon
  <1>3. M \subseteq 1 .. n /\ F \subseteq 1 .. n /\ M \cap F = {} /\ M \subseteq Servers /\ F \subseteq Servers
    BY <1>1, <1>2, Zenon DEF Matched
  <1>4. PICK p, q : p = InOrder(M) /\ q = InOrder(F)
    BY Zenon
  <1>5. p \in Seq(M) /\ IsInjective(p) /\ q \in Seq(F) /\ IsInjective(q)
    BY <1>3, <1>4, InOrderLists, Zenon
  <1>6. p \in Seq(Range(p)) /\ Range(p) \subseteq M /\ Range(q) \subseteq F
    BY <1>5, Lists, Zenon
  <1>7. \A s \in M : s \in Servers \cup {Upstream} /\ MayAnswer(d, s)
    BY <1>2, <1>3, Zenon DEF MayAnswer
  <1>8. Listed(p, d)
    BY <1>5, <1>6, <1>7, Zenon DEF Listed
  <1>9. Listed(UpstreamOnly, d)
    <2>1. PICK u : u = <<0>>
      BY Zenon
    <2>2. u \in Seq({0}) /\ DOMAIN u = {1} /\ u[1] = 0 /\ 0 \notin 1 .. n
      BY <2>1
    <2>3. Range(u) = {0}
      BY <2>2 DEF Range
    <2>4. IsInjective(u)
      BY <2>2, Zenon DEF IsInjective
    <2>5. MayAnswer(d, 0)
      BY <1>1, <2>2, Zenon DEF MayAnswer
    <2> QED BY <2>1, <2>2, <2>3, <2>4, <2>5, Zenon DEF Listed, UpstreamOnly, Upstream
  <1>10. ASSUME HasFinal(d) PROVE Listed(sort_clients_by_domain(d), d)
    <2>1. sort_clients_by_domain(d) = p \o <<>>
      BY <1>2, <1>4, <1>10, Zenon DEF sort_clients_by_domain
    <2>2. p \o <<>> = p
      BY <1>5
    <2> QED BY <1>8, <2>1, <2>2, Zenon
  <1>11. ASSUME ~HasFinal(d), ~FallbackDisabled(d) PROVE Listed(sort_clients_by_domain(d), d)
    <2>1. sort_clients_by_domain(d) = p \o q
      BY <1>2, <1>4, <1>11, Zenon DEF sort_clients_by_domain
    <2>2. p \in Seq(1 .. n) /\ q \in Seq(1 .. n) /\ Range(p) \cap Range(q) = {}
      <3>1. p \in Seq(1 .. n) /\ q \in Seq(1 .. n)
        BY <1>3, <1>5, Widened
      <3> QED BY <1>3, <1>6, <3>1, Zenon
    <2>3. PICK r : r = p \o q
      BY Zenon
    <2>4. r \in Seq(1 .. n) /\ IsInjective(r) /\ Range(r) = Range(p) \cup Range(q)
      <3>1. p \o q \in Seq(1 .. n) /\ IsInjective(p \o q) /\ Range(p \o q) = Range(p) \cup Range(q)
        BY <1>5, <2>2, Joined
      <3> QED BY <2>3, <3>1, Zenon
    <2>5. r \in Seq(Range(r))
      BY <2>4, Lists, Zenon
    <2>6. \A s \in F : s \in Servers \cup {Upstream} /\ MayAnswer(d, s)
      <3>1. \A s \in F : s \in Servers /\ ~cfg.nameservers[s].skip_fallback
        BY <1>2, Zenon
      <3> QED BY <1>11, <3>1, Zenon DEF MayAnswer
    <2> QED BY <1>6, <1>7, <2>1, <2>3, <2>4, <2>5, <2>6, Zenon DEF Listed
  <1>12. ~FallbackDisabled(d) => Listed(sort_clients_by_domain(d), d)
    BY <1>10, <1>11
  <1>13. CASE cfg.kind = "udp"
    <2>1. ServersToAsk(d) = UdpServers(d)
      BY <1>13, Zenon DEF ServersToAsk
    <2> QED BY <1>2, <1>4, <1>8, <1>12, <2>1, Zenon DEF UdpServers
  <1>14. CASE cfg.kind = "tcp"
    <2>1. cfg.kind # "udp"
      BY <1>14
    <2>2. ~FallbackDisabled(d)
      BY <2>1, Zenon DEF FallbackDisabled
    <2>3. ServersToAsk(d) = TcpServers(d)
      BY <1>14, <2>1, Zenon DEF ServersToAsk
    <2> QED BY <1>12, <2>2, <2>3, Zenon DEF TcpServers
  <1>15. CASE cfg.kind # "udp" /\ cfg.kind # "tcp"
    <2>1. ServersToAsk(d) = UpstreamOnly
      BY <1>15 DEF ServersToAsk
    <2> QED BY <1>9, <2>1, Zenon
  <1> QED BY <1>13, <1>14, <1>15

-----------------------------------------------------------------------------
(* The inductive invariant.  A running call asks servers that may answer;  *)
(* in a serial lookup every server before one that was asked has failed.   *)
(* A finished call, if it is Ok, has what the properties ask of it.  What  *)
(* is cached for a name came from a server that may answer for it, and     *)
(* expires a time to live after it came.                                   *)
IsQuery(c) ==
    c.pc = "query" /\ c \in [pc : {"query"}, domain : {c.domain}, order : {c.order}, q : {c.q},
                             got : {c.got}, over : {c.over}]

QueryInv(c) ==
    /\ IsQuery(c) /\ c.domain \in HostNames
    /\ Listed(c.order, c.domain) /\ c.order # <<>>
    /\ c.got \in [Range(c.order) -> SUBSET Ips]
    /\ c.over \subseteq Range(c.order)
    /\ ~Parallel => \A s \in c.over : \A b \in Before(c.order, s) : b \in c.over /\ c.got[b] = {}

DoneInv(c) ==
    /\ c.pc = "done" /\ c.answer \in Answer
    /\ c.answer.ok =>
          /\ c.answer.ips # {} /\ MayAnswer(c.domain, c.answer.from)
          /\ c.served \in Nat /\ c.served - c.answer.at < Ttl
          /\ c.order # <<>> => \A b \in Before(c.order, c.answer.from) : b \in DOMAIN c.got /\ c.got[b] = {}

CallInv(c) == c = NoCall \/ QueryInv(c) \/ DoneInv(c)

RecordInv(d, r) ==
    /\ r.ips \in SUBSET Ips /\ r.ips # {}
    /\ r.from \in Servers \cup {Upstream} /\ MayAnswer(d, r.from)
    /\ r.at \in 0 .. now /\ r.expiry = r.at + Ttl

ResolverInv ==
    /\ cfg \in Configs /\ now \in 0 .. MaxTime
    /\ DOMAIN cache \subseteq HostNames
    /\ \A d \in DOMAIN cache : RecordInv(d, cache[d])
    /\ DOMAIN call = Tasks
    /\ \A t \in Tasks : CallInv(call[t])

LEMMA CallStates ==
  ASSUME NEW c, CallInv(c)
  PROVE  /\ c.pc \in {"idle", "query", "done"}
         /\ c.pc = "query" => QueryInv(c)
         /\ c.pc = "done" => DoneInv(c)
  <1>1. c = NoCall => c.pc = "idle"
    BY DEF NoCall
  <1>2. QueryInv(c) => c.pc = "query"
    BY Zenon DEF QueryInv, IsQuery
  <1>3. DoneInv(c) => c.pc = "done"
    BY Zenon DEF DoneInv
  <1>4. "query" # "idle" /\ "query" # "done" /\ "done" # "idle"
    OBVIOUS
  <1> QED BY <1>1, <1>2, <1>3, <1>4, Zenon DEF CallInv

-----------------------------------------------------------------------------
(* The configuration never changes, and with it everything read from it.   *)
LEMMA SameCfg ==
  ASSUME cfg' = cfg
  PROVE  /\ \A d, s : MayAnswer(d, s)' <=> MayAnswer(d, s)
         /\ \A c : CallInv(c)' <=> CallInv(c)
         /\ Servers' = Servers
  <1>1. Servers' = Servers
    BY Zenon DEF Servers
  <1>2. ASSUME NEW d PROVE Matched(d)' = Matched(d)
    BY <1>1, Zenon DEF Matched
  <1>3. ASSUME NEW d PROVE HasFinal(d)' <=> HasFinal(d)
    BY <1>2, Zenon DEF HasFinal
  <1>4. ASSUME NEW d PROVE FallbackDisabled(d)' <=> FallbackDisabled(d)
    BY <1>2, <1>3, Zenon DEF FallbackDisabled
  <1>5. ASSUME NEW d, NEW s PROVE MayAnswer(d, s)' <=> MayAnswer(d, s)
    BY <1>1, <1>2, <1>3, <1>4, Zenon DEF MayAnswer
  <1>6. ASSUME NEW o, NEW d PROVE Listed(o, d)' <=> Listed(o, d)
    BY <1>1, <1>5, Zenon DEF Listed, Upstream
  <1>7. Parallel' <=> Parallel
    BY Zenon DEF Parallel
  <1>8. Answer' = Answer
    <2>1. HostIps' = HostIps
      BY Zenon DEF HostIps
    <2> QED BY <1>1, <2>1, Zenon DEF Answer, Upstream, Hosts
  <1>9. ASSUME NEW c PROVE QueryInv(c)' <=> QueryInv(c)
    BY <1>6, <1>7, Zenon DEF QueryInv, IsQuery
  <1>10. ASSUME NEW c PROVE DoneInv(c)' <=> DoneInv(c)
    BY <1>5, <1>8, Zenon DEF DoneInv
  <1>11. ASSUME NEW c PROVE CallInv(c)' <=> CallInv(c)
    BY <1>9, <1>10, Zenon DEF CallInv, NoCall
  <1> QED BY <1>1, <1>5, <1>11, Zenon

LEMMA SameRecord ==
  ASSUME cfg' = cfg, now \in Nat, now' \in Nat, now <= now', NEW d, NEW r, RecordInv(d, r)
  PROVE  RecordInv(d, r)'
  <1>1. r.at \in 0 .. now'
    BY DEF RecordInv
  <1> QED BY <1>1, SameCfg, Zenon DEF RecordInv, Upstream

(* One call's step.                                                        *)
LEMMA OneCall ==
  ASSUME ResolverInv, NEW t \in Tasks, NEW c, CallInv(c), call' = [call EXCEPT ![t] = c],
         cfg' = cfg, now' = now, DOMAIN cache' \subseteq HostNames,
         \A d \in DOMAIN cache' : RecordInv(d, cache'[d])
  PROVE  ResolverInv'
  <1>1. now \in Nat /\ now <= now
    BY DnsConstants DEF ResolverInv
  <1>2. ASSUME NEW d \in DOMAIN cache' PROVE RecordInv(d, cache[d])'
    <2>1. PICK r : r = cache'[d]
      BY Zenon
    <2>2. RecordInv(d, r)
      BY <2>1, Zenon
    <2>3. RecordInv(d, r)'
      BY <1>1, <2>2, SameRecord
    <2> QED BY <2>1, <2>3, Zenon
  <1>3. DOMAIN call' = Tasks /\ \A u \in Tasks : call'[u] = c \/ call'[u] = call[u]
    BY DEF ResolverInv
  <1>4. ASSUME NEW u \in Tasks PROVE CallInv(call[u])'
    <2>1. PICK x : x = call'[u]
      BY Zenon
    <2>2. CallInv(x)
      BY <1>3, <2>1, Zenon DEF ResolverInv
    <2>3. CallInv(x)'
      BY <2>2, SameCfg, Zenon
    <2> QED BY <2>1, <2>3, Zenon
  <1> QED BY <1>2, <1>3, <1>4, Zenon DEF ResolverInv

LEMMA OneCallOnly ==
  ASSUME ResolverInv, NEW t \in Tasks, NEW c, CallInv(c), call' = [call EXCEPT ![t] = c],
         UNCHANGED <<cfg, now, cache>>
  PROVE  ResolverInv'
  <1>1. DOMAIN cache' \subseteq HostNames /\ \A d \in DOMAIN cache' : RecordInv(d, cache'[d])
    BY Zenon DEF ResolverInv
  <1> QED BY <1>1, OneCall

-----------------------------------------------------------------------------
(* resolve() up to its first query: each way it can end or go on.          *)
LEMMA AnsweredInv ==
  ASSUME ResolverInv, NEW d, NEW a, a \in Answer, NEW order, NEW got,
         a.ok => /\ a.ips # {} /\ MayAnswer(d, a.from) /\ now - a.at < Ttl
                 /\ order # <<>> => \A b \in Before(order, a.from) : b \in DOMAIN got /\ got[b] = {}
  PROVE  CallInv(Done(d, a, order, got))
  <1>1. PICK c : c = Done(d, a, order, got)
    BY Zenon
  <1>2. /\ c.pc = "done" /\ c.domain = d /\ c.answer = a /\ c.order = order
        /\ c.got = got /\ c.served = now
    BY <1>1, Zenon DEF Done
  <1>3. now \in Nat
    BY DnsConstants DEF ResolverInv
  <1>4. DoneInv(c)
    BY <1>2, <1>3, Zenon DEF DoneInv
  <1> QED BY <1>1, <1>4, Zenon DEF CallInv

LEMMA HostsAnswer ==
  ASSUME ResolverInv, NEW d, NEW ips, ips \subseteq HostIps, ips # {}
  PROVE  CallInv(Done(d, [ok |-> TRUE, ips |-> ips, from |-> Hosts, at |-> now], <<>>, <<>>))
  <1>1. PICK a : a = [ok |-> TRUE, ips |-> ips, from |-> Hosts, at |-> now]
    BY Zenon
  <1>2. now \in 0 .. MaxTime /\ cfg \in Configs
    BY Zenon DEF ResolverInv
  <1>3. a \in Answer
    <2>1. ips \in SUBSET (Ips \cup HostIps) /\ Hosts \in Servers \cup {Upstream, Hosts}
      BY Zenon
    <2> QED BY <1>1, <1>2, <2>1, Zenon DEF Answer
  <1>4. a.ok /\ a.ips = ips /\ a.from = Hosts /\ a.at = now
    BY <1>1, Zenon
  <1>5. MayAnswer(d, Hosts)
    <2>1. PICK n \in Nat : Servers = 1 .. n
      BY <1>2, ServersAreListed
    <2>2. Hosts \notin Servers
      BY <2>1 DEF Hosts
    <2> QED BY <2>2, Zenon DEF MayAnswer
  <1>6. now - now < Ttl
    BY <1>2, DnsConstants
  <1>7. CallInv(Done(d, a, <<>>, <<>>))
    BY <1>3, <1>4, <1>5, <1>6, AnsweredInv, Zenon
  <1> QED BY <1>1, <1>7, Zenon

LEMMA CacheAnswer ==
  ASSUME ResolverInv, NEW d, NEW r \in find(d)
  PROVE  CallInv(Done(d, [ok |-> TRUE, ips |-> r.ips, from |-> r.from, at |-> r.at], <<>>, <<>>))
  <1>1. PICK a : a = [ok |-> TRUE, ips |-> r.ips, from |-> r.from, at |-> r.at]
    BY Zenon
  <1>2. d \in DOMAIN cache /\ r = cache[d] /\ r.expiry > now
    BY Zenon DEF find
  <1>3. RecordInv(d, r)
    BY <1>2, Zenon DEF ResolverInv
  <1>4. /\ r.ips \in SUBSET Ips /\ r.ips # {} /\ r.from \in Servers \cup {Upstream}
        /\ MayAnswer(d, r.from) /\ r.at \in 0 .. now /\ r.expiry = r.at + Ttl
    BY <1>3, Zenon DEF RecordInv
  <1>5. PICK at, x : at = r.at /\ x = r.expiry
    BY Zenon
  <1>6. at \in 0 .. now /\ x = at + Ttl /\ x > now /\ now \in 0 .. MaxTime
    BY <1>2, <1>4, <1>5, Zenon DEF ResolverInv
  <1>7. at \in 0 .. MaxTime /\ now - at < Ttl
    BY <1>6, DnsConstants
  <1>8. a \in Answer
    <2>1. r.ips \in SUBSET (Ips \cup HostIps) /\ r.from \in Servers \cup {Upstream, Hosts}
      BY <1>4, Zenon
    <2> QED BY <1>1, <1>5, <1>7, <2>1, Zenon DEF Answer
  <1>9. a.ips = r.ips /\ a.from = r.from /\ a.at = r.at
    BY <1>1, Zenon
  <1>10. CallInv(Done(d, a, <<>>, <<>>))
    BY <1>4, <1>5, <1>7, <1>8, <1>9, AnsweredInv, Zenon
  <1> QED BY <1>1, <1>10, Zenon

LEMMA FailedAnswer ==
  ASSUME ResolverInv, NEW d, NEW order, NEW got
  PROVE  CallInv(Done(d, Failed, order, got))
  <1>1. 0 \in 0 .. MaxTime
    BY DnsConstants
  <1>2. {} \in SUBSET (Ips \cup HostIps) /\ Upstream \in Servers \cup {Upstream, Hosts} /\ FALSE \in BOOLEAN
    BY Zenon
  <1>3. Failed \in Answer /\ ~Failed.ok
    BY <1>1, <1>2, Zenon DEF Failed, Answer
  <1> QED BY <1>3, AnsweredInv, Zenon

QueryOf(d, order) ==
    [pc |-> "query", domain |-> d, order |-> order, q |-> [s \in Range(order) |-> 1],
     got |-> [s \in Range(order) |-> {}], over |-> {}]

LEMMA QueryStarts ==
  ASSUME ResolverInv, NEW d \in HostNames, ServersToAsk(d) # <<>>
  PROVE  CallInv(QueryOf(d, ServersToAsk(d)))
  <1>1. PICK order : order = ServersToAsk(d)
    BY Zenon
  <1>2. PICK c : c = QueryOf(d, order)
    BY Zenon
  <1>3. PICK q, got : q = [s \in Range(order) |-> 1] /\ got = [s \in Range(order) |-> {}]
    BY Zenon
  <1>4. c = [pc |-> "query", domain |-> d, order |-> order, q |-> q, got |-> got, over |-> {}]
    BY <1>2, <1>3, Zenon DEF QueryOf
  <1>5. /\ c.pc = "query" /\ c.domain = d /\ c.order = order /\ c.q = q /\ c.got = got /\ c.over = {}
        /\ c \in [pc : {"query"}, domain : {d}, order : {order}, q : {q}, got : {got}, over : {{}}]
    BY <1>4, Zenon
  <1>6. IsQuery(c)
    BY <1>5, Zenon DEF IsQuery
  <1>7. cfg \in Configs
    BY Zenon DEF ResolverInv
  <1>8. Listed(order, d) /\ order # <<>>
    BY <1>1, <1>7, OrderListed, Zenon
  <1>9. got \in [Range(order) -> SUBSET Ips]
    BY <1>3
  <1>10. QueryInv(c)
    BY <1>5, <1>6, <1>8, <1>9, Zenon DEF QueryInv
  <1> QED BY <1>1, <1>2, <1>10, Zenon DEF CallInv

LEMMA ResolveKeeps ==
  ASSUME ResolverInv, NEW t \in Tasks, NEW spelling \in Spellings, Resolve(t, spelling)
  PROVE  ResolverInv'
  <1>1. PICK host : host = lookup_recursive(cfg.hosts, Normal[spelling])
    BY Zenon
  <1>2. PICK d : d = IF host.found = "name" THEN host.name ELSE Normal[spelling]
    BY Zenon
  <1>3. Found(host)
    <2>1. cfg \in Configs /\ Normal[spelling] \in HostNames
      BY Zenon DEF ResolverInv, HostNames
    <2> QED BY <1>1, <2>1, LookupFinds, Zenon
  <1>4. d \in HostNames
    BY <1>2, <1>3, Zenon DEF Found, HostNames
  <1>5. /\ UNCHANGED <<cfg, now, cache>>
        /\ \/ /\ host.found = "ips"
              /\ call' = [call EXCEPT ![t] = Done(d,
                    [ok |-> TRUE, ips |-> host.ips, from |-> Hosts, at |-> now], <<>>, <<>>)]
           \/ \E rec \in find(d) :
                 call' = [call EXCEPT ![t] = Done(d,
                    [ok |-> TRUE, ips |-> rec.ips, from |-> rec.from, at |-> rec.at], <<>>, <<>>)]
           \/ call' = [call EXCEPT ![t] =
                    IF ServersToAsk(d) = <<>> THEN Done(d, Failed, <<>>, <<>>)
                    ELSE QueryOf(d, ServersToAsk(d))]
    BY <1>1, <1>2, Zenon DEF Resolve, QueryOf
  <1>6. \E c : CallInv(c) /\ call' = [call EXCEPT ![t] = c]
    <2>1. CASE /\ host.found = "ips"
               /\ call' = [call EXCEPT ![t] = Done(d,
                     [ok |-> TRUE, ips |-> host.ips, from |-> Hosts, at |-> now], <<>>, <<>>)]
      <3>1. PICK ips : ips = host.ips /\ ips # {} /\ ips \subseteq HostIps
        BY <1>3, <2>1, Zenon DEF Found
      <3> QED BY <2>1, <3>1, HostsAnswer, Zenon
    <2>2. CASE \E rec \in find(d) :
                 call' = [call EXCEPT ![t] = Done(d,
                    [ok |-> TRUE, ips |-> rec.ips, from |-> rec.from, at |-> rec.at], <<>>, <<>>)]
      BY <2>2, CacheAnswer, Zenon
    <2>3. CASE call' = [call EXCEPT ![t] =
                    IF ServersToAsk(d) = <<>> THEN Done(d, Failed, <<>>, <<>>)
                    ELSE QueryOf(d, ServersToAsk(d))]
      <3>1. CASE ServersToAsk(d) = <<>>
        BY <2>3, <3>1, FailedAnswer, Zenon
      <3>2. CASE ServersToAsk(d) # <<>>
        BY <1>4, <2>3, <3>2, QueryStarts, Zenon
      <3> QED BY <3>1, <3>2, Zenon
    <2> QED BY <1>5, <2>1, <2>2, <2>3, Zenon
  <1> QED BY <1>5, <1>6, OneCallOnly, Zenon

-----------------------------------------------------------------------------
(* One query ends: in a serial lookup only the server whose predecessors   *)
(* all failed is being asked.                                              *)
LEMMA ReplyKeeps ==
  ASSUME ResolverInv, NEW t \in Tasks, call[t].pc = "query", NEW s \in Asking(call[t]), NEW net,
         NEW ips \in SUBSET Ips, Reply(t, s, net, ips)
  PROVE  ResolverInv'
  <1>1. PICK c : c = call[t]
    BY Zenon
  <1>2. QueryInv(c)
    <2>1. CallInv(c) /\ c.pc = "query"
      BY <1>1, ZenonT(30) DEF ResolverInv
    <2> QED BY <2>1, CallStates, Zenon
  <1>3. PICK useful : useful = filter_expected(ips, s)
    BY Zenon
  <1> DEFINE over == TurnOver(c, s, net, useful)
  <1>4. useful \in SUBSET Ips
    BY <1>3 DEF filter_expected
  <1>5. PICK G, O, Q : /\ G = [c.got EXCEPT ![s] = useful]
                       /\ O = IF over THEN c.over \cup {s} ELSE c.over
                       /\ Q = [c.q EXCEPT ![s] = IF over THEN @ ELSE @ + 1]
    BY Zenon
  <1>6. PICK r : r = [c EXCEPT !.got = G, !.over = O, !.q = Q]
    BY Zenon
  <1>7. c \in [pc : {"query"}, domain : {c.domain}, order : {c.order}, q : {c.q},
               got : {c.got}, over : {c.over}]
    BY <1>2, Zenon DEF QueryInv, IsQuery
  <1>8. call' = [call EXCEPT ![t] = r] /\ UNCHANGED <<cfg, now, cache>>
    <2> DEFINE Turn(x, u) == TurnOver(x, s, net, u)
               Next1(x, u) == [x EXCEPT !.got[s] = u,
                                        !.over = IF Turn(x, u) THEN @ \cup {s} ELSE @,
                                        !.q[s] = IF Turn(x, u) THEN @ ELSE @ + 1]
    <2>1. call' = [call EXCEPT ![t] = Next1(call[t], filter_expected(ips, s))] /\ UNCHANGED <<cfg, now, cache>>
      BY Zenon DEF Reply
    <2>2. Next1(c, useful) = r
      BY <1>5, <1>6, <1>7
    <2> HIDE DEF Next1
    <2> QED BY <1>1, <1>3, <2>1, <2>2, Zenon
  <1>9. /\ r.pc = "query" /\ r.domain = c.domain /\ r.order = c.order /\ r.q = Q /\ r.got = G /\ r.over = O
         /\ r \in [pc : {"query"}, domain : {c.domain}, order : {c.order}, q : {Q}, got : {G}, over : {O}]
    BY <1>6, <1>7
  <1>10. PICK order, got, old : order = c.order /\ got = c.got /\ old = c.over
    BY Zenon
  <1>11. /\ got \in [Range(order) -> SUBSET Ips] /\ old \subseteq Range(order)
         /\ ~Parallel => \A x \in old : \A b \in Before(order, x) : b \in old /\ got[b] = {}
    BY <1>2, <1>10, Zenon DEF QueryInv
  <1>12. /\ s \in Range(order) /\ s \notin old
         /\ ~Parallel => \A b \in Before(order, s) : b \in old /\ got[b] = {}
    BY <1>1, <1>10, Zenon DEF Asking
  <1>13. G \in [Range(order) -> SUBSET Ips] /\ \A b \in old : G[b] = got[b]
    BY <1>4, <1>5, <1>10, <1>11, <1>12
  <1>14. O \subseteq Range(order) /\ old \subseteq O /\ \A x \in O : x \in old \/ x = s
    BY <1>5, <1>10, <1>11, <1>12, Zenon
  <1>15. ~Parallel => \A x \in O : \A b \in Before(order, x) : b \in O /\ G[b] = {}
    BY <1>11, <1>12, <1>13, <1>14, Zenon
  <1>16. IsQuery(r)
    BY <1>9, Zenon DEF IsQuery
  <1>17. r.domain \in HostNames /\ Listed(r.order, r.domain) /\ r.order # <<>>
    BY <1>2, <1>9, Zenon DEF QueryInv
  <1>18. QueryInv(r)
    BY <1>9, <1>10, <1>13, <1>14, <1>15, <1>16, <1>17, Zenon DEF QueryInv
  <1> QED BY <1>8, <1>18, OneCallOnly, Zenon DEF CallInv

-----------------------------------------------------------------------------
(* The end of a lookup.  Of the servers that had an answer one comes first *)
(* in the order.                                                           *)
LEMMA FirstOf ==
  ASSUME NEW R, NEW order \in Seq(R), IsInjective(order), NEW W, W \subseteq Range(order), W # {}
  PROVE  \E s \in W : Before(order, s) \cap W = {}
  <1> DEFINE K == {k \in DOMAIN order : order[k] \in W}
  <1>1. DOMAIN order = 1 .. Len(order) /\ Len(order) \in Nat
    OBVIOUS
  <1>2. K \in SUBSET Nat /\ K # {}
    BY <1>1 DEF Range
  <1>3. PICK k \in K : \A i \in K : k <= i
    BY <1>2, LeastNat
  <1>4. k \in DOMAIN order /\ order[k] \in W /\ k \in 1 .. Len(order)
    BY <1>1, <1>3
  <1>5. (CHOOSE j \in DOMAIN order : order[j] = order[k]) = k
    <2>1. \A j \in DOMAIN order : order[j] = order[k] => j = k
      BY <1>4, Zenon DEF IsInjective
    <2> QED BY <1>4, <2>1
  <1>6. Before(order, order[k]) = {order[i] : i \in 1 .. k - 1}
    BY <1>5, Zenon DEF Before
  <1>7. \A i \in 1 .. k - 1 : i \in DOMAIN order /\ ~(k <= i)
    BY <1>1, <1>4
  <1>8. \A i \in 1 .. k - 1 : order[i] \notin W
    BY <1>3, <1>7, Zenon
  <1> QED BY <1>4, <1>6, <1>8, Zenon

LEMMA BeforeListed ==
  ASSUME NEW R, NEW order \in Seq(R), NEW s \in Range(order)
  PROVE  Before(order, s) \subseteq Range(order)
  <1>1. PICK k : k = CHOOSE j \in DOMAIN order : order[j] = s
    BY Zenon
  <1>2. k \in DOMAIN order
    BY <1>1 DEF Range
  <1>3. \A i \in 1 .. k - 1 : i \in DOMAIN order
    BY <1>2
  <1>4. Before(order, s) = {order[i] : i \in 1 .. k - 1}
    BY <1>1, Zenon DEF Before
  <1> QED BY <1>3, <1>4, Zenon DEF Range

LEMMA RecordUpdate ==
  ASSUME ResolverInv, NEW d \in HostNames, NEW answer, NEW s,
         answer.ips \in SUBSET Ips, answer.ips # {}, answer.from = s,
         s \in Servers \cup {Upstream}, MayAnswer(d, s), cache' = update(d, answer)
  PROVE  DOMAIN cache' \subseteq HostNames /\ \A x \in DOMAIN cache' : RecordInv(x, cache'[x])
  <1>1. DOMAIN cache \subseteq HostNames /\ \A x \in DOMAIN cache : RecordInv(x, cache[x])
    BY Zenon DEF ResolverInv
  <1>2. CASE cfg.disable_cache
    BY <1>1, <1>2, Zenon DEF update
  <1>3. CASE ~cfg.disable_cache
    <2>1. PICK r : r = [ips |-> answer.ips, expiry |-> now + Ttl, from |-> answer.from, at |-> now]
      BY Zenon
    <2>2. cache' = [x \in DOMAIN cache \cup {d} |-> IF x = d THEN r ELSE cache[x]]
      BY <1>3, <2>1, Zenon DEF update
    <2>3. now \in 0 .. now
      BY DnsConstants DEF ResolverInv
    <2>4. r.ips = answer.ips /\ r.expiry = now + Ttl /\ r.from = s /\ r.at = now
      BY <2>1, Zenon
    <2>5. RecordInv(d, r)
      BY <2>3, <2>4, Zenon DEF RecordInv
    <2>6. DOMAIN cache' = DOMAIN cache \cup {d}
      BY <2>2, Zenon
    <2>7. \A x \in DOMAIN cache' : cache'[x] = IF x = d THEN r ELSE cache[x]
      BY <2>2, Zenon
    <2> QED BY <1>1, <2>5, <2>6, <2>7, Zenon
  <1> QED BY <1>2, <1>3, Zenon

FirstIn(c) == CHOOSE s \in Winners(c) : Before(c.order, s) \cap Winners(c) = {}
AnswerOf(c) == IF Winners(c) = {} THEN Failed
               ELSE [ok |-> TRUE, ips |-> c.got[FirstIn(c)], from |-> FirstIn(c), at |-> now]

LEMMA FinishKeeps ==
  ASSUME ResolverInv, NEW t \in Tasks, Finish(t)
  PROVE  ResolverInv'
  <1>1. PICK c : c = call[t]
    BY Zenon
  <1>2. QueryInv(c) /\ QueriesOver(c)
    <2>1. CallInv(c) /\ c.pc = "query" /\ QueriesOver(c)
      BY <1>1, ZenonT(30) DEF ResolverInv, Finish
    <2> QED BY <2>1, CallStates, Zenon
  <1>3. PICK first : first = FirstIn(c)
    BY Zenon
  <1>4. PICK answer : answer = AnswerOf(c)
    BY Zenon
  <1>5. PICK got : got = Restrict(c.got, c.over)
    BY Zenon
  <1>6. /\ call' = [call EXCEPT ![t] = Done(c.domain, answer, c.order, got)]
        /\ cache' = IF answer.ok /\ ~SystemLookup /\ ~FallbackDisabled(c.domain)
                    THEN update(c.domain, answer) ELSE cache
        /\ UNCHANGED <<cfg, now>>
    <2>1. /\ call' = [call EXCEPT ![t] = Done(call[t].domain, AnswerOf(call[t]), call[t].order,
                                              Restrict(call[t].got, call[t].over))]
          /\ cache' = IF AnswerOf(call[t]).ok /\ ~SystemLookup /\ ~FallbackDisabled(call[t].domain)
                      THEN update(call[t].domain, AnswerOf(call[t])) ELSE cache
          /\ UNCHANGED <<cfg, now>>
      BY Zenon DEF Finish, AnswerOf, FirstIn
    <2> QED BY <1>1, <1>4, <1>5, <2>1, Zenon
  <1>7. DOMAIN cache \subseteq HostNames /\ \A d \in DOMAIN cache : RecordInv(d, cache[d])
    BY Zenon DEF ResolverInv
  <1>8. CASE Winners(c) = {}
    <2>1. answer = Failed /\ ~answer.ok
      BY <1>4, <1>8, Zenon DEF AnswerOf, Failed
    <2>2. CallInv(Done(c.domain, answer, c.order, got)) /\ cache' = cache
      BY <1>6, <2>1, FailedAnswer, Zenon
    <2>3. DOMAIN cache' \subseteq HostNames /\ \A d \in DOMAIN cache' : RecordInv(d, cache'[d])
      BY <1>7, <2>2, Zenon
    <2> QED BY <1>6, <2>2, <2>3, OneCall, Zenon
  <1>9. CASE Winners(c) # {}
    <2>1. PICK d, order, old, brought : d = c.domain /\ order = c.order /\ old = c.over /\ brought = c.got
      BY Zenon
    <2>2. /\ d \in HostNames /\ Listed(order, d) /\ brought \in [Range(order) -> SUBSET Ips]
          /\ old \subseteq Range(order)
          /\ ~Parallel => \A s \in old : \A b \in Before(order, s) : b \in old /\ brought[b] = {}
      BY <1>2, <2>1, Zenon DEF QueryInv
    <2>3. PICK W : W = Winners(c)
      BY Zenon
    <2>4. W = {s \in old : brought[s] # {}}
      BY <2>1, <2>3, Zenon DEF Winners
    <2>5. order \in Seq(Range(order)) /\ IsInjective(order)
      BY <2>2, Zenon DEF Listed
    <2>6. W \subseteq Range(order) /\ W # {}
      BY <1>9, <2>2, <2>3, <2>4, Zenon
    <2>7. first \in W /\ Before(order, first) \cap W = {}
      <3>1. \E s \in W : Before(order, s) \cap W = {}
        BY <2>5, <2>6, FirstOf
      <3>2. first = CHOOSE s \in W : Before(order, s) \cap W = {}
        BY <1>3, <2>1, <2>3, Zenon DEF FirstIn
      <3> QED BY <3>1, <3>2, Zenon
    <2>8. first \in old /\ brought[first] # {} /\ first \in Range(order) /\ brought[first] \in SUBSET Ips
      <3>1. first \in old /\ brought[first] # {} /\ first \in Range(order)
        BY <2>4, <2>6, <2>7, Zenon
      <3> QED BY <2>2, <3>1, Zenon
    <2>9. first \in Servers \cup {Upstream} /\ MayAnswer(d, first)
      BY <2>2, <2>8, Zenon DEF Listed
    <2>10. Before(order, first) \subseteq Range(order)
      BY <2>5, <2>8, BeforeListed
    <2>11. DOMAIN got = old /\ \A b \in old : got[b] = brought[b]
      <3>1. DOMAIN brought = Range(order)
        BY <2>2, Zenon
      <3>2. got = [x \in old |-> brought[x]]
        BY <1>5, <2>1, Zenon DEF Restrict
      <3> QED BY <3>2, Zenon
    <2>12. \A b \in Before(order, first) : b \in old /\ brought[b] = {}
      <3>1. old = Range(order) \/ ~Parallel
        BY <1>2, <2>1, Zenon DEF QueriesOver
      <3>2. CASE old = Range(order)
        BY <2>4, <2>7, <2>10, <3>2, Zenon
      <3>3. CASE ~Parallel
        BY <2>2, <2>8, <3>3, Zenon
      <3> QED BY <3>1, <3>2, <3>3, Zenon
    <2>13. answer = [ok |-> TRUE, ips |-> brought[first], from |-> first, at |-> now]
      BY <1>3, <1>4, <1>9, <2>1, Zenon DEF AnswerOf
    <2>14. /\ answer.ok /\ answer.ips = brought[first] /\ answer.from = first /\ answer.at = now
      BY <2>13, Zenon
    <2>15. answer \in Answer
      <3>1. brought[first] \in SUBSET (Ips \cup HostIps) /\ first \in Servers \cup {Upstream, Hosts}
        BY <2>8, <2>9, Zenon
      <3>2. now \in 0 .. MaxTime
        BY Zenon DEF ResolverInv
      <3> QED BY <2>13, <3>1, <3>2, Zenon DEF Answer
    <2>16. now - now < Ttl
      BY DnsConstants DEF ResolverInv
    <2>17. \A b \in Before(order, answer.from) : b \in DOMAIN got /\ got[b] = {}
      BY <2>11, <2>12, <2>14, Zenon
    <2>18. CallInv(Done(d, answer, order, got))
      BY <2>8, <2>9, <2>14, <2>15, <2>16, <2>17, AnsweredInv, Zenon
    <2>19. DOMAIN cache' \subseteq HostNames /\ \A x \in DOMAIN cache' : RecordInv(x, cache'[x])
      <3>1. CASE cache' = cache
        BY <1>7, <3>1, Zenon
      <3>2. CASE cache' = update(d, answer)
        BY <2>2, <2>8, <2>9, <2>14, <3>2, RecordUpdate, Zenon
      <3> QED BY <1>6, <2>1, <3>1, <3>2, Zenon
    <2> QED BY <1>6, <2>1, <2>18, <2>19, OneCall, Zenon
  <1> QED BY <1>8, <1>9, Zenon

-----------------------------------------------------------------------------
LEMMA ResolverInvInit ==
  ASSUME DnsInit
  PROVE  ResolverInv
  <1>1. DOMAIN cache = {}
    BY DEF DnsInit
  <1>2. DOMAIN call = Tasks /\ \A t \in Tasks : call[t] = NoCall
    BY Zenon DEF DnsInit
  <1>3. cfg \in Configs /\ now \in 0 .. MaxTime
    BY DnsConstants DEF DnsInit
  <1> QED BY <1>1, <1>2, <1>3, Zenon DEF ResolverInv, CallInv

LEMMA ResolverInvNext ==
  ASSUME ResolverInv, [DnsNext]_dnsVars
  PROVE  ResolverInv'
  <1>1. CASE Tick
    <2>1. /\ now \in 0 .. MaxTime /\ now < MaxTime /\ now' = now + 1
          /\ cfg' = cfg /\ cache' = cache /\ call' = call
      BY <1>1, Zenon DEF Tick, ResolverInv
    <2>2. now \in Nat /\ now' \in Nat /\ now <= now' /\ now' \in 0 .. MaxTime
      BY <2>1, DnsConstants
    <2>3. \A d \in DOMAIN cache : RecordInv(d, cache[d])'
      <3> TAKE d \in DOMAIN cache
      <3>1. PICK r : r = cache[d]
        BY Zenon
      <3>2. RecordInv(d, r)'
        BY <2>1, <2>2, <3>1, SameRecord, Zenon DEF ResolverInv
      <3> QED BY <2>1, <3>1, <3>2, Zenon
    <2>4. \A t \in Tasks : CallInv(call[t])'
      <3> TAKE t \in Tasks
      <3>1. PICK x : x = call[t]
        BY Zenon
      <3>2. CallInv(x)'
        BY <2>1, <3>1, SameCfg, Zenon DEF ResolverInv
      <3> QED BY <2>1, <3>1, <3>2, Zenon
    <2>5. cfg \in Configs /\ DOMAIN cache \subseteq HostNames /\ DOMAIN call = Tasks
      BY Zenon DEF ResolverInv
    <2> QED BY <2>1, <2>2, <2>3, <2>4, <2>5, Zenon DEF ResolverInv
  <1>2. ASSUME NEW t \in Tasks, DnsStep(t) PROVE ResolverInv'
    <2>1. CASE \E spelling \in Spellings : Resolve(t, spelling)
      BY <2>1, ResolveKeeps, Zenon
    <2>2. CASE AnyReply(t)
      <3>1. {} \in SUBSET Ips
        OBVIOUS
      <3>2. /\ call[t].pc = "query"
            /\ \E s \in Asking(call[t]), net \in BOOLEAN, ips \in SUBSET Ips : Reply(t, s, net, ips)
        BY <2>2, <3>1, Zenon DEF AnyReply
      <3> QED BY <3>2, ReplyKeeps, Zenon
    <2>3. CASE Finish(t)
      BY <2>3, FinishKeeps
    <2>4. CASE Return(t)
      <3>1. CallInv(NoCall)
        BY Zenon DEF CallInv
      <3> QED BY <2>4, <3>1, OneCallOnly, Zenon DEF Return
    <2> QED BY <1>2, <2>1, <2>2, <2>3, <2>4, Zenon DEF DnsStep
  <1>3. CASE UNCHANGED dnsVars
    <2>1. cfg' = cfg /\ now' = now /\ cache' = cache /\ call' = call
      BY <1>3, Zenon DEF dnsVars
    <2>2. now \in Nat /\ now <= now
      BY DnsConstants DEF ResolverInv
    <2>3. \A d \in DOMAIN cache : RecordInv(d, cache[d])'
      <3> TAKE d \in DOMAIN cache
      <3>1. PICK r : r = cache[d] /\ RecordInv(d, r)
        BY Zenon DEF ResolverInv
      <3>2. RecordInv(d, r)'
        BY <2>1, <2>2, <3>1, SameRecord, Zenon
      <3> QED BY <2>1, <3>1, <3>2, Zenon
    <2>4. \A t \in Tasks : CallInv(call[t])'
      <3> TAKE t \in Tasks
      <3>1. PICK x : x = call[t] /\ CallInv(x)
        BY Zenon DEF ResolverInv
      <3> QED BY <2>1, <3>1, SameCfg, Zenon
    <2>5. cfg \in Configs /\ DOMAIN cache \subseteq HostNames /\ DOMAIN call = Tasks /\ now \in 0 .. MaxTime
      BY Zenon DEF ResolverInv
    <2> QED BY <2>1, <2>3, <2>4, <2>5, Zenon DEF ResolverInv
  <1> QED BY <1>1, <1>2, <1>3, Zenon DEF DnsNext

(* The name servers and the cache (resolve, do_nameserver_lookup and       *)
(* CacheController): for every configuration, number of tasks and clock    *)
(* bound, an answer comes from the first server in order that has one and  *)
(* may answer for the name.                                                *)
THEOREM ServersAnswerInOrder == DnsSpec => []RightServerAnswers
  <1>1. ResolverInv => RightServerAnswers
    <2> SUFFICES ASSUME ResolverInv PROVE RightServerAnswers
      OBVIOUS
    <2>1. ASSUME NEW t \in Tasks
          PROVE  /\ call[t].pc \in {"idle", "query", "done"}
                 /\ call[t].pc = "done" => DoneInv(call[t])
      BY CallStates, Zenon DEF ResolverInv
    <2>2. OnlyAllowedServersAnswer
      BY <2>1, Zenon DEF OnlyAllowedServersAnswer, Answered, DoneInv, MayAnswer
    <2>3. FirstServerWins
      BY <2>1, Zenon DEF FirstServerWins, Answered, DoneInv
    <2>4. \A d \in DOMAIN cache : cache[d].ips # {} /\ cache[d].at <= now
      <3> TAKE d \in DOMAIN cache
      <3>1. PICK r, at : r = cache[d] /\ at = r.at /\ r.ips # {} /\ at \in 0 .. now
        BY Zenon DEF ResolverInv, RecordInv
      <3>2. at <= now
        BY <3>1
      <3> QED BY <3>1, <3>2, Zenon
    <2>5. \A t \in Tasks :
            /\ call[t].pc \in {"idle", "query", "done"}
            /\ call[t].pc = "done" =>
                  /\ call[t].answer \in Answer
                  /\ call[t].answer.ok => call[t].answer.ips # {}
      BY <2>1, Zenon DEF DoneInv
    <2>6. cfg \in Configs /\ now \in 0 .. MaxTime /\ DOMAIN cache \subseteq HostNames
      BY Zenon DEF ResolverInv
    <2> QED BY <2>2, <2>3, <2>4, <2>5, <2>6, Zenon DEF RightServerAnswers, DnsTypeOK
  <1> QED BY <1>1, ResolverInvInit, ResolverInvNext, PTL DEF DnsSpec

(* CacheController::find and update: an answer is never older than its     *)
(* time to live when it is served, whatever lookups ran meanwhile.         *)
THEOREM CacheIsFresh == DnsSpec => []CacheServesFresh
  <1>1. ResolverInv => CacheServesFresh
    <2> SUFFICES ASSUME ResolverInv, NEW t \in Tasks, Answered(t)
                 PROVE  call[t].served - call[t].answer.at < Ttl
      BY Zenon DEF CacheServesFresh
    <2>1. PICK c : c = call[t] /\ CallInv(c) /\ c.pc = "done" /\ c.answer.ok
      BY Zenon DEF ResolverInv, Answered
    <2>2. DoneInv(c)
      BY <2>1, CallStates, Zenon
    <2> QED BY <2>1, <2>2, Zenon DEF DoneInv
  <1> QED BY <1>1, ResolverInvInit, ResolverInvNext, PTL DEF DnsSpec
=============================================================================
