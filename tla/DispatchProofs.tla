--------------------------- MODULE DispatchProofs ---------------------------
(***************************************************************************)
(* Proofs about the dispatcher: for any rules, balancers, observed tags    *)
(* and number of sessions, routing decides as RoutingDecides says, a dead  *)
(* outbound is avoided, and the round robin is even.                       *)
(***************************************************************************)
EXTENDS Dispatch, Counting

-----------------------------------------------------------------------------
(* The filter of Balancer::pick: its recursive definition has a solution,  *)
(* and what it keeps are members of the selector that are in the set.      *)
KeptStep(s, S, g, i) == IF s[i] \in S THEN Append(g[i - 1], s[i]) ELSE g[i - 1]

LEMMA KeptExists ==
  ASSUME NEW T, NEW s \in Seq(T), NEW S
  PROVE  \E g : g = [i \in 0 .. Len(s) |-> IF i = 0 THEN <<>> ELSE KeptStep(s, S, g, i)]
  <1> DEFINE Upto(n) == \E g : DOMAIN g = 0 .. n /\ g[0] = <<>> /\ \A i \in 1 .. n : g[i] = KeptStep(s, S, g, i)
             N == {n \in Nat : Upto(n)}
  <1>1. 0 \in N
    <2>1. PICK g : g = [i \in 0 .. 0 |-> <<>>]
      BY Zenon
    <2>2. DOMAIN g = 0 .. 0 /\ g[0] = <<>> /\ \A i \in 1 .. 0 : g[i] = KeptStep(s, S, g, i)
      BY <2>1
    <2> QED BY <2>2
  <1>2. ASSUME NEW n \in Nat, n \in N PROVE n + 1 \in N
    <2>1. PICK g : DOMAIN g = 0 .. n /\ g[0] = <<>> /\ \A i \in 1 .. n : g[i] = KeptStep(s, S, g, i)
      BY <1>2
    <2>2. PICK x : x = IF s[n + 1] \in S THEN Append(g[n], s[n + 1]) ELSE g[n]
      BY Zenon
    <2>3. PICK h : h = [i \in 0 .. n + 1 |-> IF i = n + 1 THEN x ELSE g[i]]
      BY Zenon
    <2>4. DOMAIN h = 0 .. n + 1 /\ h[0] = <<>> /\ h[n + 1] = x /\ \A i \in 0 .. n : h[i] = g[i]
      BY <2>1, <2>3
    <2>5. \A i \in 1 .. n + 1 : h[i] = KeptStep(s, S, h, i)
      <3> TAKE i \in 1 .. n + 1
      <3>1. CASE i = n + 1
        <4>1. h[i - 1] = g[n]
          BY <2>4, <3>1
        <4> QED BY <2>2, <2>4, <3>1, <4>1 DEF KeptStep
      <3>2. CASE i \in 1 .. n
        <4>1. h[i - 1] = g[i - 1] /\ h[i] = g[i]
          BY <2>4, <3>2
        <4> QED BY <2>1, <3>2, <4>1 DEF KeptStep
      <3> QED BY <3>1, <3>2
    <2> QED BY <2>4, <2>5
  <1>3. Len(s) \in N
    <2> HIDE DEF N
    <2> QED BY <1>1, <1>2, NatInductive
  <1>4. PICK g : DOMAIN g = 0 .. Len(s) /\ g[0] = <<>> /\ \A i \in 1 .. Len(s) : g[i] = KeptStep(s, S, g, i)
    BY <1>3
  <1>5. PICK h : h = [i \in 0 .. Len(s) |-> g[i]]
    BY Zenon
  <1>6. \A i \in 0 .. Len(s) : h[i] = g[i]
    BY <1>5
  <1>7. \A i \in 1 .. Len(s) : h[i] = KeptStep(s, S, h, i)
    <2> TAKE i \in 1 .. Len(s)
    <2>1. h[i] = g[i] /\ h[i - 1] = g[i - 1]
      BY <1>6
    <2> QED BY <1>4, <2>1 DEF KeptStep
  <1>8. h = [i \in 0 .. Len(s) |-> IF i = 0 THEN <<>> ELSE KeptStep(s, S, h, i)]
    BY <1>4, <1>5, <1>6, <1>7
  <1> QED BY <1>8

LEMMA KeptEquation ==
  ASSUME NEW T, NEW s \in Seq(T), NEW S
  PROVE  Kept(s, S) = [i \in 0 .. Len(s) |-> IF i = 0 THEN <<>> ELSE KeptStep(s, S, Kept(s, S), i)]
  <1> DEFINE Body(g) == [i \in 0 .. Len(s) |-> IF i = 0 THEN <<>> ELSE KeptStep(s, S, g, i)]
  <1>1. \E g : g = Body(g)
    BY KeptExists, Zenon
  <1>2. Kept(s, S) = CHOOSE g : g = Body(g)
    BY DEF Kept, KeptStep
  <1> HIDE DEF Body
  <1>3. Kept(s, S) = Body(Kept(s, S))
    BY <1>1, <1>2
  <1> QED BY <1>3 DEF Body

LEMMA KeptInside ==
  ASSUME NEW T, NEW s \in Seq(T), NEW S
  PROVE  Kept(s, S)[Len(s)] \in Seq(Range(s) \cap S)
  <1>1. PICK R : R = Range(s) \cap S
    BY Zenon
  <1>2. PICK K : K = Kept(s, S) /\ K = [i \in 0 .. Len(s) |-> IF i = 0 THEN <<>> ELSE KeptStep(s, S, K, i)]
    BY KeptEquation, Zenon
  <1>3. K[0] = <<>> /\ \A i \in 1 .. Len(s) : K[i] = KeptStep(s, S, K, i)
    <2>1. Len(s) \in Nat
      OBVIOUS
    <2>2. PICK k \in Nat : k = Len(s)
      BY <2>1
    <2>3. K = [i \in 0 .. k |-> IF i = 0 THEN <<>> ELSE KeptStep(s, S, K, i)]
      BY <1>2, <2>2, Zenon
    <2>4. K[0] = <<>> /\ \A i \in 1 .. k : K[i] = KeptStep(s, S, K, i)
      BY <2>3
    <2> QED BY <2>2, <2>4, Zenon
  <1>4. \A i \in 1 .. Len(s) : s[i] \in Range(s)
    BY DEF Range
  <1> DEFINE N == {n \in Nat : n <= Len(s) => K[n] \in Seq(R)}
  <1>5. 0 \in N
    <2>1. <<>> \in Seq(R) /\ 0 \in Nat
      OBVIOUS
    <2> QED BY <1>3, <2>1, Zenon
  <1>6. ASSUME NEW n \in Nat, n \in N PROVE n + 1 \in N
    <2> SUFFICES ASSUME n + 1 <= Len(s) PROVE K[n + 1] \in Seq(R)
      OBVIOUS
    <2>1. n <= Len(s) /\ n + 1 \in 1 .. Len(s) /\ (n + 1) - 1 = n
      OBVIOUS
    <2>2. K[n] \in Seq(R)
      BY <1>6, <2>1
    <2>3. K[n + 1] = IF s[n + 1] \in S THEN Append(K[n], s[n + 1]) ELSE K[n]
      BY <1>3, <2>1 DEF KeptStep
    <2>4. s[n + 1] \in S => s[n + 1] \in R
      BY <1>1, <1>4, <2>1
    <2> QED BY <2>2, <2>3, <2>4
  <1>7. Len(s) \in N
    <2> HIDE DEF N
    <2> QED BY <1>5, <1>6, NatInductive
  <1>8. K[Len(s)] \in Seq(R)
    BY <1>7
  <1> QED BY <1>1, <1>2, <1>8, Zenon

-----------------------------------------------------------------------------
(* pick_route returns the first rule that matches and has a tag.           *)
LEMMA PickRoute ==
  ASSUME conf \in DOMAIN Confs, NEW ctx
  PROVE  /\ pick_route(ctx) \in 0 .. Len(Conf.rules) /\ Len(Conf.rules) \in Nat
         /\ Hits(ctx) = {} => pick_route(ctx) = 0
         /\ Hits(ctx) # {} => IsFirst(pick_route(ctx), Hits(ctx)) /\ pick_route(ctx) # 0
         /\ pick_route(ctx) # 0 => Conf.rules[pick_route(ctx)].tag \in (Tags \cup Balancers) \ {NoTag}
  <1>1. PICK rules : rules = Conf.rules
    BY Zenon
  <1>2. /\ rules \in Seq(Range(rules))
        /\ \A i \in DOMAIN rules : rules[i].tag \in Tags \cup Balancers \cup {NoTag}
    BY <1>1, ConfsShape, Zenon DEF Conf, Balancers
  <1>3. PICK n \in Nat : n = Len(rules) /\ DOMAIN rules = 1 .. n
    BY <1>2
  <1>4. PICK H : H = {i \in DOMAIN rules : matches(rules[i], ctx) /\ rules[i].tag # NoTag}
    BY Zenon
  <1>5. Hits(ctx) = H
    BY <1>1, <1>4, Zenon DEF Hits
  <1>6. PICK p : p = pick_route(ctx)
    BY Zenon
  <1>7. p = IF H = {} THEN 0 ELSE CHOOSE i \in H : \A j \in H : i <= j
    BY <1>1, <1>4, <1>6 DEF pick_route
  <1>8. H \subseteq 1 .. n /\ \A i \in H : rules[i].tag # NoTag
    BY <1>3, <1>4
  <1>9. CASE H = {}
    <2>1. p = 0 /\ p \in 0 .. n
      BY <1>7, <1>9
    <2> QED BY <1>1, <1>3, <1>5, <1>6, <1>9, <2>1, Zenon
  <1>10. CASE H # {}
    <2>1. H \in SUBSET Nat
      BY <1>8
    <2>2. \E i \in H : \A j \in H : i <= j
      BY <1>10, <2>1, LeastNat, Zenon
    <2>3. IsFirst(p, H)
      BY <1>7, <1>10, <2>2, Zenon DEF IsFirst
    <2>4. p \in 1 .. n /\ rules[p].tag # NoTag
      BY <1>8, <2>3, Zenon DEF IsFirst
    <2>5. rules[p].tag \in Tags \cup Balancers \cup {NoTag}
      BY <1>2, <1>3, <2>4, Zenon
    <2>6. rules[p].tag \in (Tags \cup Balancers) \ {NoTag}
      BY <2>4, <2>5, Zenon
    <2>7. p \in 0 .. n /\ p # 0
      BY <2>4
    <2> QED BY <1>1, <1>3, <1>5, <1>6, <1>10, <2>3, <2>6, <2>7, Zenon
  <1> QED BY <1>9, <1>10

(* The candidates are members of the selector, and alive if observed.      *)
LEMMA CandidatesInside ==
  ASSUME conf \in DOMAIN Confs, NEW b \in Balancers
  PROVE  LET M == Range(Conf.balancers[b].selector)
         IN  Candidates(b) \in Seq(M) /\ M \subseteq Tags
             /\ (Observed(b) => Candidates(b) \in Seq(M \cap alive))
  <1>1. PICK s : s = Conf.balancers[b].selector
    BY Zenon
  <1>2. s \in Seq(Tags)
    BY <1>1, ConfsShape DEF Conf, Balancers
  <1>3. s \in Seq(Range(s)) /\ Range(s) \subseteq Tags
    BY <1>2 DEF Range
  <1>4. Kept(s, alive)[Len(s)] \in Seq(Range(s) \cap alive)
    BY <1>2, KeptInside, Zenon
  <1>5. Kept(s, alive)[Len(s)] \in Seq(Range(s))
    BY <1>4
  <1> QED BY <1>1, <1>3, <1>4, <1>5, Zenon DEF Candidates

-----------------------------------------------------------------------------
(* The inductive invariant.  A session's record has all its fields.  Until *)
(* its domain was resolved it is routed as it asked to be; it is resolved  *)
(* only when the strategy says so, once, and under IpIfNonMatch only when  *)
(* nothing matched before.  From the draw on, its rule is the one          *)
(* pick_route found, and its tag is what that rule, or the rule's          *)
(* balancer, chose among tags alive at some time since the session came.   *)
IsRecord(r) ==
    r \in [pc : {r.pc}, session : {r.session}, ctx : {r.ctx}, asked : {r.asked},
           resolved : {r.resolved}, rule : {r.rule}, tag : {r.tag},
           candidates : {r.candidates}, handler : {r.handler}, depth : {r.depth},
           seen : {r.seen}]

MayResolve(ctx) ==
    \/ Conf.strategy = "IpOnDemand"
    \/ Conf.strategy = "IpIfNonMatch" /\ Hits(ctx) = {}

MustHaveResolved(r) == Conf.strategy # "AsIs" /\ Resolvable(r.asked) => r.resolved

Chosen(tag, b, seen) ==
    /\ tag # NoTag
    /\ \/ tag = b
       \/ b \in Balancers /\ tag \in Range(Conf.balancers[b].selector) \cup {Conf.balancers[b].fallback}
    /\ b \in Balancers /\ Observed(b) => tag \in seen \cup {Conf.balancers[b].fallback, b}

Typed(r) ==
    /\ IsRecord(r) /\ r.pc \in Stages /\ r.resolved \in BOOLEAN
    /\ r.rule \in 0 .. Len(Conf.rules)
    /\ r.tag \in Tags \cup Balancers \cup {NoTag}
    /\ r.depth \in 0 .. MaxDepth

Asking(r) ==
    /\ ~r.resolved => r.ctx = r.asked
    /\ r.resolved \/ r.pc = "resolve" => MayResolve(r.asked)
    /\ r.pc = "resolve" => ~r.resolved
    /\ r.pc = "pick" /\ Conf.strategy = "IpOnDemand" => MustHaveResolved(r)

Routed(r) ==
    r.pc \in {"draw", "lookup", "serving", "failed"} =>
       r.rule = pick_route(r.ctx) /\ (r.rule = 0 => MustHaveResolved(r))

Drawing(r) ==
    r.pc = "draw" =>
       /\ r.rule # 0 /\ r.tag = Conf.rules[r.rule].tag /\ r.tag \in Balancers
       /\ r.candidates \in Seq(Range(Conf.balancers[r.tag].selector)) /\ r.candidates # <<>>
       /\ Observed(r.tag) => r.candidates \in Seq(r.seen)

Handing(r) ==
    /\ r.pc \in {"lookup", "serving"} /\ r.rule # 0 => Chosen(r.tag, Conf.rules[r.rule].tag, r.seen)
    /\ r.pc = "serving" => r.tag \in Tags /\ r.handler \in 0 .. changes

SessionInv(r) ==
    \/ r = Idle
    \/ Typed(r) /\ alive \subseteq r.seen /\ Asking(r) /\ Routed(r) /\ Drawing(r) /\ Handing(r)

StoreInv ==
    /\ conf \in DOMAIN Confs
    /\ DOMAIN handlers \subseteq Tags
    /\ \A t \in DOMAIN handlers : handlers[t] \in 0 .. changes
    /\ changes \in 0 .. MaxChanges /\ probes \in 0 .. MaxProbes
    /\ alive \subseteq Conf.observed
    /\ counter \in [Balancers -> Nat]
    /\ DOMAIN conn = Conns

SessionsInv == StoreInv /\ \A c \in Conns : SessionInv(conn[c])

(* The numbers below a balancer's counter have each been drawn once, and   *)
(* each draw took the candidate its number falls on.                       *)
GoodDraw(d) ==
    /\ d.balancer \in Balancers
    /\ d.number \in Nat /\ d.number < counter[d.balancer]
    /\ d.candidates \in Seq(Range(d.candidates)) /\ d.candidates # <<>>
    /\ d.tag = d.candidates[(d.number % Len(d.candidates)) + 1]

DrawsInv ==
    /\ \A d \in draws : GoodDraw(d)
    /\ \A d, e \in draws : d.balancer = e.balancer /\ d.number = e.number => d = e
    /\ \A b \in Balancers : \A n \in 0 .. counter[b] - 1 :
          \E d \in draws : d.balancer = b /\ d.number = n

-----------------------------------------------------------------------------
(* The configuration never changes, and with it everything read from it.   *)
LEMMA SameConf ==
  ASSUME conf' = conf
  PROVE  /\ Conf' = Conf /\ Balancers' = Balancers
         /\ \A ctx : Hits(ctx)' = Hits(ctx) /\ pick_route(ctx)' = pick_route(ctx)
                     /\ (Resolvable(ctx)' <=> Resolvable(ctx))
         /\ \A b : Observed(b)' <=> Observed(b)
  <1>1. Conf' = Conf
    BY Zenon DEF Conf
  <1>2. Balancers' = Balancers
    BY <1>1, Zenon DEF Balancers
  <1>3. ASSUME NEW ctx PROVE Hits(ctx)' = Hits(ctx)
    BY <1>1, Zenon DEF Hits
  <1>4. ASSUME NEW ctx PROVE pick_route(ctx)' = pick_route(ctx)
    BY <1>1 DEF pick_route
  <1>5. ASSUME NEW ctx PROVE Resolvable(ctx)' <=> Resolvable(ctx)
    BY <1>1, Zenon DEF Resolvable
  <1>6. ASSUME NEW b PROVE Observed(b)' <=> Observed(b)
    BY <1>1, Zenon DEF Observed
  <1> QED BY <1>1, <1>2, <1>3, <1>4, <1>5, <1>6, Zenon

LEMMA SameSession ==
  ASSUME NEW r, SessionInv(r), conf' = conf, r # Idle => alive' \subseteq r.seen,
         changes \in Nat, changes' \in Nat, changes <= changes'
  PROVE  SessionInv(r)'
  <1>1. CASE r = Idle
    BY <1>1, Zenon DEF SessionInv, Idle
  <1>2. CASE r # Idle
    <2>1. Typed(r) /\ alive' \subseteq r.seen /\ Asking(r) /\ Routed(r) /\ Drawing(r) /\ Handing(r)
      BY <1>2, Zenon DEF SessionInv
    <2>2. Typed(r)'
      BY <2>1, SameConf, Zenon DEF Typed, IsRecord, Stages
    <2>3. Asking(r)'
      BY <2>1, SameConf, Zenon DEF Asking, MayResolve, MustHaveResolved
    <2>4. Routed(r)'
      BY <2>1, SameConf, Zenon DEF Routed, MustHaveResolved
    <2>5. Drawing(r)'
      BY <2>1, SameConf, Zenon DEF Drawing
    <2>6. Handing(r)'
      <3>1. r.handler \in 0 .. changes => r.handler \in 0 .. changes'
        OBVIOUS
      <3> QED BY <2>1, <3>1, SameConf, Zenon DEF Handing, Chosen
    <2> QED BY <2>1, <2>2, <2>3, <2>4, <2>5, <2>6, Zenon DEF SessionInv
  <1> QED BY <1>1, <1>2

(* A step of one session.                                                  *)
OnlySession(c, r) ==
    /\ DOMAIN conn' = Conns /\ conn'[c] = r
    /\ \A d \in Conns : d # c => conn'[d] = conn[d]
    /\ UNCHANGED <<conf, handlers, changes, alive, probes>>

LEMMA OneSession ==
  ASSUME SessionsInv, NEW c \in Conns, NEW r, OnlySession(c, r), SessionInv(r),
         counter' \in [Balancers -> Nat]
  PROVE  SessionsInv'
  <1>1. StoreInv'
    BY SameConf DEF OnlySession, SessionsInv, StoreInv
  <1>2. ASSUME NEW d \in Conns PROVE SessionInv(conn[d])' 
    <2>1. PICK x : x = conn'[d]
      BY Zenon
    <2>2. SessionInv(x)
      BY <2>1, Zenon DEF OnlySession, SessionsInv
    <2>3. conf' = conf /\ alive' = alive /\ changes' = changes /\ changes \in Nat /\ changes <= changes
      BY DispatchConstants DEF OnlySession, SessionsInv, StoreInv
    <2>4. x # Idle => alive \subseteq x.seen
      BY <2>2, Zenon DEF SessionInv
    <2>5. SessionInv(x)'
      BY <2>2, <2>3, <2>4, SameSession
    <2> QED BY <2>1, <2>5, Zenon
  <1> QED BY <1>1, <1>2, Zenon DEF SessionsInv

-----------------------------------------------------------------------------
(* The steps of a session.                                                 *)
LEMMA Entering ==
  ASSUME conf \in DOMAIN Confs, NEW session, NEW busy, NEW depth \in 0 .. MaxDepth
  PROVE  SessionInv(Enter(session, busy, depth))
  <1>1. PICK ctx : ctx = enrich_with_fake_dns(build_routing_context(session), busy)
    BY Zenon
  <1>2. PICK pc : pc = IF Conf.strategy = "IpOnDemand" /\ Resolvable(ctx) THEN "resolve" ELSE "pick"
    BY Zenon
  <1>3. PICK r : r = [pc |-> pc, session |-> session, ctx |-> ctx, asked |-> ctx, resolved |-> FALSE,
                      rule |-> 0, tag |-> NoTag, candidates |-> <<>>, handler |-> NoneSuch,
                      depth |-> depth, seen |-> alive]
    BY Zenon
  <1>4. Enter(session, busy, depth) = r
    BY <1>1, <1>2, <1>3, Zenon DEF Enter
  <1>5. /\ IsRecord(r) /\ r.pc = pc /\ r.ctx = ctx /\ r.asked = ctx /\ r.resolved = FALSE /\ r.rule = 0
        /\ r.tag = NoTag /\ r.depth = depth /\ r.seen = alive
    BY <1>3 DEF IsRecord
  <1>6. /\ pc = "resolve" => Conf.strategy = "IpOnDemand"
        /\ pc \in {"resolve", "pick"}
        /\ pc = "pick" => ~(Conf.strategy = "IpOnDemand" /\ Resolvable(ctx))
    BY <1>2
  <1>7. Len(Conf.rules) \in Nat
    BY PickRoute
  <1>8. Typed(r)
    <2>1. 0 \in 0 .. Len(Conf.rules) /\ FALSE \in BOOLEAN
      BY <1>7
    <2>2. pc \in Stages
      BY <1>6, Zenon DEF Stages
    <2> QED BY <1>5, <2>1, <2>2, Zenon DEF Typed
  <1>9. Asking(r)
    BY <1>5, <1>6 DEF Asking, MayResolve, MustHaveResolved
  <1>10. Routed(r) /\ Drawing(r) /\ Handing(r)
    BY <1>5, <1>6 DEF Routed, Drawing, Handing
  <1> QED BY <1>4, <1>5, <1>8, <1>9, <1>10, Zenon DEF SessionInv

LEMMA DispatchStep ==
  ASSUME SessionsInv, NEW c \in Conns, NEW session, NEW busy, dispatch(c, session, busy)
  PROVE  SessionsInv'
  <1>1. PICK r : r = Enter(session, busy, 0)
    BY Zenon
  <1>2. SessionInv(r)
    BY <1>1, Entering, DispatchConstants DEF SessionsInv, StoreInv
  <1>3. OnlySession(c, r) /\ counter' \in [Balancers -> Nat]
    BY <1>1 DEF dispatch, OnlySession, SessionsInv, StoreInv
  <1> QED BY <1>2, <1>3, OneSession

(* A session that is not idle.                                             *)
LEMMA Busy ==
  ASSUME SessionsInv, NEW c \in Conns, conn[c].pc # "idle"
  PROVE  /\ Typed(conn[c]) /\ alive \subseteq conn[c].seen /\ Asking(conn[c])
         /\ Routed(conn[c]) /\ Drawing(conn[c]) /\ Handing(conn[c])
         /\ conf \in DOMAIN Confs /\ counter \in [Balancers -> Nat]
  <1>1. conn[c] # Idle
    BY DEF Idle
  <1> QED BY <1>1, Zenon DEF SessionsInv, StoreInv, SessionInv

LEMMA ResolveStep ==
  ASSUME SessionsInv, NEW c \in Conns, NEW ip, resolve_context(c, ip)
  PROVE  SessionsInv'
  <1>1. PICK q : q = conn[c]
    BY Zenon
  <1>2. Typed(q) /\ alive \subseteq q.seen /\ Asking(q) /\ q.pc = "resolve" /\ counter \in [Balancers -> Nat]
    BY <1>1, Busy DEF resolve_context
  <1>3. PICK x : x = [q.ctx EXCEPT !.ip = ip]
    BY Zenon
  <1>4. PICK r : r = [q EXCEPT !.ctx = x, !.pc = "pick", !.resolved = TRUE]
    BY Zenon
  <1>5. /\ IsRecord(r) /\ r.pc = "pick" /\ r.asked = q.asked /\ r.resolved = TRUE /\ r.rule = q.rule
        /\ r.tag = q.tag /\ r.depth = q.depth /\ r.seen = q.seen
    BY <1>2, <1>4 DEF Typed, IsRecord
  <1>6. OnlySession(c, r) /\ counter' \in [Balancers -> Nat]
    <2>1. conn' = [conn EXCEPT ![c] = r]
      BY <1>1, <1>2, <1>3, <1>4 DEF resolve_context, Typed, IsRecord
    <2> QED BY <1>2, <2>1 DEF resolve_context, OnlySession, SessionsInv, StoreInv
  <1>7. Typed(r)
    BY <1>2, <1>5 DEF Typed, Stages
  <1>8. Asking(r)
    BY <1>2, <1>5 DEF Asking, MustHaveResolved
  <1>9. Routed(r) /\ Drawing(r) /\ Handing(r)
    BY <1>5 DEF Routed, Drawing, Handing
  <1>10. SessionInv(r)
    BY <1>2, <1>5, <1>7, <1>8, <1>9, Zenon DEF SessionInv
  <1> QED BY <1>6, <1>10, OneSession

(* pick_outbound_tag.  Its four outcomes leave the session's context, what *)
(* it asked for, its depth and what it has seen alone.                     *)
Picked(q, r) ==
    /\ IsRecord(r) /\ r.ctx = q.ctx /\ r.asked = q.asked /\ r.resolved = q.resolved
    /\ r.depth = q.depth /\ r.seen = q.seen

LEMMA PickAgain ==
  ASSUME NEW q, Typed(q), alive \subseteq q.seen, Asking(q), conf \in DOMAIN Confs,
         pick_route(q.ctx) = 0, Conf.strategy = "IpIfNonMatch", ~q.resolved,
         NEW r, r = [q EXCEPT !.pc = "resolve"]
  PROVE  SessionInv(r)
  <1>1. Picked(q, r) /\ r.pc = "resolve" /\ r.rule = q.rule /\ r.tag = q.tag
    BY DEF Typed, IsRecord, Picked
  <1>2. Hits(q.ctx) = {}
    BY PickRoute
  <1>3. Typed(r)
    BY <1>1 DEF Typed, Stages, Picked
  <1>4. Asking(r)
    BY <1>1, <1>2 DEF Asking, Picked, MayResolve
  <1>5. Routed(r) /\ Drawing(r) /\ Handing(r)
    BY <1>1 DEF Routed, Drawing, Handing
  <1> QED BY <1>1, <1>3, <1>4, <1>5, Zenon DEF SessionInv, Picked

LEMMA PickTag ==
  ASSUME NEW q, Typed(q), alive \subseteq q.seen, Asking(q), conf \in DOMAIN Confs, q.pc = "pick",
         NEW tag \in Tags \cup Balancers \cup {NoTag},
         NEW r, r = [q EXCEPT !.pc = "lookup", !.rule = pick_route(q.ctx), !.tag = tag],
         pick_route(q.ctx) = 0 => ~(Conf.strategy = "IpIfNonMatch" /\ ~q.resolved /\ Resolvable(q.ctx)),
         pick_route(q.ctx) # 0 => Chosen(tag, Conf.rules[pick_route(q.ctx)].tag, q.seen)
  PROVE  SessionInv(r)
  <1>1. PICK rule : rule = pick_route(q.ctx)
    BY Zenon
  <1>2. Picked(q, r) /\ r.pc = "lookup" /\ r.rule = rule /\ r.tag = tag
    BY <1>1 DEF Typed, IsRecord, Picked
  <1>3. Typed(r)
    BY <1>1, <1>2, PickRoute DEF Typed, Stages, Picked
  <1>4. Asking(r)
    BY <1>2 DEF Asking, Picked
  <1>5. Routed(r)
    <2>1. SUFFICES ASSUME rule = 0, Conf.strategy # "AsIs", Resolvable(q.asked), ~q.resolved PROVE FALSE
      BY <1>1, <1>2 DEF Routed, Picked, MustHaveResolved, Typed
    <2>2. q.ctx = q.asked
      BY <2>1 DEF Asking
    <2>3. Conf.strategy \in {"AsIs", "IpIfNonMatch", "IpOnDemand"}
      BY ConfsShape DEF Conf
    <2> QED BY <1>1, <2>1, <2>2, <2>3 DEF Asking, MustHaveResolved
  <1>6. Drawing(r) /\ Handing(r)
    BY <1>1, <1>2 DEF Drawing, Handing, Picked
  <1> QED BY <1>2, <1>3, <1>4, <1>5, <1>6, Zenon DEF SessionInv, Picked

LEMMA PickDraw ==
  ASSUME NEW q, Typed(q), alive \subseteq q.seen, Asking(q), conf \in DOMAIN Confs, q.pc = "pick",
         NEW tag \in Balancers, pick_route(q.ctx) # 0, tag = Conf.rules[pick_route(q.ctx)].tag,
         Candidates(tag) # <<>>,
         NEW r, r = [q EXCEPT !.pc = "draw", !.rule = pick_route(q.ctx), !.tag = tag, !.candidates = Candidates(tag)]
  PROVE  SessionInv(r)
  <1>1. PICK rule, s : rule = pick_route(q.ctx) /\ s = Candidates(tag)
    BY Zenon
  <1>2. Picked(q, r) /\ r.pc = "draw" /\ r.rule = rule /\ r.tag = tag /\ r.candidates = s
    BY <1>1 DEF Typed, IsRecord, Picked
  <1>3. Typed(r)
    BY <1>1, <1>2, PickRoute DEF Typed, Stages, Picked
  <1>4. Asking(r)
    BY <1>2 DEF Asking, Picked
  <1>5. Routed(r) /\ Handing(r)
    BY <1>1, <1>2 DEF Routed, Handing, Picked
  <1>6. Drawing(r)
    <2>1. PICK M : M = Range(Conf.balancers[tag].selector)
      BY Zenon
    <2>2. s \in Seq(M) /\ (Observed(tag) => s \in Seq(M \cap alive))
      BY <1>1, <2>1, CandidatesInside, Zenon
    <2>3. Observed(tag) => s \in Seq(q.seen)
      BY <2>2
    <2> QED BY <1>1, <1>2, <2>1, <2>2, <2>3, Zenon DEF Drawing, Picked
  <1> QED BY <1>2, <1>3, <1>4, <1>5, <1>6, Zenon DEF SessionInv, Picked

LEMMA PickStep ==
  ASSUME SessionsInv, NEW c \in Conns, pick_outbound_tag(c)
  PROVE  SessionsInv'
  <1> DEFINE q == conn[c]
             rule == pick_route(q.ctx)
             tag == IF rule = 0 THEN NoTag ELSE Conf.rules[rule].tag
             again == /\ rule = 0 /\ Conf.strategy = "IpIfNonMatch"
                      /\ ~q.resolved /\ Resolvable(q.ctx)
             fallback == Conf.balancers[tag].fallback
  <1>1. /\ Typed(q) /\ alive \subseteq q.seen /\ Asking(q) /\ q.pc = "pick"
        /\ conf \in DOMAIN Confs /\ counter \in [Balancers -> Nat]
    BY Busy, Zenon DEF pick_outbound_tag
  <1>2. /\ tag \in Tags \cup Balancers \cup {NoTag}
        /\ rule # 0 => tag # NoTag /\ tag = Conf.rules[rule].tag
        /\ tag \in Balancers => rule # 0
    <2>1. rule # 0 => Conf.rules[rule].tag \in (Tags \cup Balancers) \ {NoTag}
      <3> HIDE DEF q
      <3> QED BY <1>1, PickRoute
    <2>2. NoTag \notin Balancers
      BY Zenon DEF Balancers
    <2> HIDE DEF rule
    <2> QED BY <2>1, <2>2
  <1>3. UNCHANGED <<conf, handlers, changes, alive, probes, counter>>
    BY Zenon DEF pick_outbound_tag
  <1>4. IsRecord(q) /\ DOMAIN conn = Conns
    <2>1. DOMAIN conn = Conns
      BY DEF SessionsInv, StoreInv
    <2> HIDE DEF q
    <2> QED BY <1>1, <2>1 DEF Typed
  <1>5. \/ again /\ conn' = [conn EXCEPT ![c].pc = "resolve"]
        \/ /\ ~again /\ tag \notin Balancers
           /\ conn' = [conn EXCEPT ![c].pc = "lookup", ![c].rule = rule, ![c].tag = tag]
        \/ /\ tag \in Balancers /\ Candidates(tag) = <<>>
           /\ conn' = [conn EXCEPT ![c].pc = "lookup", ![c].rule = rule,
                                   ![c].tag = IF fallback = NoTag THEN tag ELSE fallback]
        \/ /\ tag \in Balancers /\ Candidates(tag) # <<>>
           /\ conn' = [conn EXCEPT ![c].pc = "draw", ![c].rule = rule,
                                   ![c].tag = tag, ![c].candidates = Candidates(tag)]
    BY Zenon DEF pick_outbound_tag
  <1> HIDE DEF rule, tag, fallback
  <1>6. ASSUME NEW r, conn' = [conn EXCEPT ![c] = r], SessionInv(r) PROVE SessionsInv'
    BY <1>1, <1>3, <1>4, <1>6, OneSession DEF OnlySession
  <1>7. CASE again /\ conn' = [conn EXCEPT ![c].pc = "resolve"]
    <2>1. PICK r : r = [q EXCEPT !.pc = "resolve"]
      BY Zenon
    <2>2. conn' = [conn EXCEPT ![c] = r]
      BY <1>4, <1>7, <2>1
    <2>3. SessionInv(r)
      BY <1>1, <1>7, <2>1, PickAgain, Zenon DEF rule
    <2> QED BY <1>6, <2>2, <2>3
  <1>8. CASE /\ ~again /\ tag \notin Balancers
             /\ conn' = [conn EXCEPT ![c].pc = "lookup", ![c].rule = rule, ![c].tag = tag]
    <2>1. PICK r : r = [q EXCEPT !.pc = "lookup", !.rule = rule, !.tag = tag]
      BY Zenon
    <2>2. conn' = [conn EXCEPT ![c] = r]
      BY <1>4, <1>8, <2>1
    <2>3. rule # 0 => Chosen(tag, Conf.rules[rule].tag, q.seen)
      BY <1>2, <1>8 DEF Chosen
    <2>4. SessionInv(r)
      BY <1>1, <1>2, <1>8, <2>1, <2>3, PickTag, Zenon DEF rule
    <2> QED BY <1>6, <2>2, <2>4
  <1>9. CASE /\ tag \in Balancers /\ Candidates(tag) = <<>>
             /\ conn' = [conn EXCEPT ![c].pc = "lookup", ![c].rule = rule,
                                     ![c].tag = IF fallback = NoTag THEN tag ELSE fallback]
    <2>1. PICK t : t = IF fallback = NoTag THEN tag ELSE fallback
      BY Zenon
    <2>2. PICK r : r = [q EXCEPT !.pc = "lookup", !.rule = rule, !.tag = t]
      BY Zenon
    <2>3. conn' = [conn EXCEPT ![c] = r]
      BY <1>4, <1>9, <2>1, <2>2
    <2>4. rule # 0 /\ tag # NoTag /\ tag = Conf.rules[rule].tag
      BY <1>2, <1>9
    <2>5. fallback \in Tags \cup {NoTag}
      BY <1>1, <1>9, ConfsShape DEF fallback, Conf, Balancers
    <2>6. t \in Tags \cup Balancers \cup {NoTag}
      BY <1>9, <2>1, <2>5
    <2>7. Chosen(t, tag, q.seen)
      BY <1>9, <2>1, <2>4, Zenon DEF Chosen, fallback
    <2>8. SessionInv(r)
      BY <1>1, <2>2, <2>4, <2>6, <2>7, PickTag, Zenon DEF rule
    <2> QED BY <1>6, <2>3, <2>8
  <1>10. CASE /\ tag \in Balancers /\ Candidates(tag) # <<>>
              /\ conn' = [conn EXCEPT ![c].pc = "draw", ![c].rule = rule,
                                      ![c].tag = tag, ![c].candidates = Candidates(tag)]
    <2>1. PICK s : s = Candidates(tag)
      BY Zenon
    <2>2. PICK r : r = [q EXCEPT !.pc = "draw", !.rule = rule, !.tag = tag, !.candidates = s]
      BY Zenon
    <2>3. conn' = [conn EXCEPT ![c] = r]
      BY <1>4, <1>10, <2>1, <2>2
    <2>4. rule # 0 /\ tag = Conf.rules[rule].tag
      BY <1>2, <1>10
    <2>5. SessionInv(r)
      BY <1>1, <1>10, <2>1, <2>2, <2>4, PickDraw, Zenon DEF rule
    <2> QED BY <1>6, <2>3, <2>5
  <1> HIDE DEF q, again
  <1> QED BY <1>5, <1>7, <1>8, <1>9, <1>10, Zenon

(* Balancer::pick's draw, and the number it takes.                         *)
LEMMA DrawStep ==
  ASSUME SessionsInv, NEW c \in Conns, NEW k, draw(c, k)
  PROVE  SessionsInv'
  <1>1. PICK q : q = conn[c]
    BY Zenon
  <1>2. /\ Typed(q) /\ alive \subseteq q.seen /\ Asking(q) /\ Routed(q) /\ Drawing(q) /\ q.pc = "draw"
        /\ conf \in DOMAIN Confs /\ counter \in [Balancers -> Nat]
    BY <1>1, Busy DEF draw
  <1>3. PICK b, s : b = q.tag /\ s = q.candidates
    BY Zenon
  <1>4. /\ q.rule # 0 /\ b = Conf.rules[q.rule].tag /\ b \in Balancers
        /\ s \in Seq(Range(Conf.balancers[b].selector))
        /\ Observed(b) => s \in Seq(q.seen)
    BY <1>2, <1>3, Zenon DEF Drawing
  <1>5. k \in DOMAIN s
    BY <1>1, <1>3, Zenon DEF draw
  <1>6. PICK t : t = s[k]
    BY Zenon
  <1>7. PICK M : M = Range(Conf.balancers[b].selector)
    BY Zenon
  <1>8. M \subseteq Tags
    BY <1>2, <1>4, <1>7, CandidatesInside, Zenon
  <1>9. t \in M /\ (Observed(b) => t \in q.seen)
    <2>1. s \in Seq(M)
      BY <1>4, <1>7, Zenon
    <2>2. t \in M
      BY <1>5, <1>6, <2>1
    <2>3. s \in Seq(q.seen) => t \in q.seen
      BY <1>5, <1>6
    <2> QED BY <1>4, <2>2, <2>3, Zenon
  <1>10. Chosen(t, b, q.seen)
    <2>1. t # NoTag
      BY <1>8, <1>9, ConfsShape, Zenon
    <2> QED BY <1>4, <1>7, <1>9, <2>1, Zenon DEF Chosen
  <1>11. PICK r : r = [q EXCEPT !.pc = "lookup", !.tag = t]
    BY Zenon
  <1>12. Picked(q, r) /\ r.pc = "lookup" /\ r.rule = q.rule /\ r.tag = t
    BY <1>2, <1>11 DEF Typed, IsRecord, Picked
  <1>13. Typed(r)
    BY <1>2, <1>8, <1>9, <1>12, Zenon DEF Typed, Stages, Picked
  <1>14. Asking(r) /\ Routed(r)
    BY <1>2, <1>12 DEF Asking, Routed, Picked, MustHaveResolved
  <1>15. Drawing(r) /\ Handing(r)
    BY <1>4, <1>10, <1>12 DEF Drawing, Handing, Picked
  <1>16. SessionInv(r)
    BY <1>2, <1>12, <1>13, <1>14, <1>15, Zenon DEF SessionInv, Picked
  <1>17. DOMAIN conn = Conns /\ IsRecord(q)
    BY <1>2, Zenon DEF SessionsInv, StoreInv, Typed
  <1>18. conn' = [conn EXCEPT ![c].pc = "lookup", ![c].tag = t]
    BY <1>1, <1>3, <1>6 DEF draw
  <1>19. conn' = [conn EXCEPT ![c] = r]
    BY <1>1, <1>11, <1>17, <1>18
  <1>20. OnlySession(c, r)
    BY <1>17, <1>19 DEF OnlySession, draw
  <1>21. counter' \in [Balancers -> Nat]
    <2>1. counter' = counter \/ counter' = [counter EXCEPT ![b] = @ + 1]
      BY <1>1, <1>3, Zenon DEF draw, DrawNumber
    <2> QED BY <1>2, <1>4, <2>1
  <1> QED BY <1>16, <1>20, <1>21, OneSession

(* A handler takes the session, a loopback dispatches it again, or there   *)
(* is no handler.                                                          *)
LEMMA HandoverStep ==
  ASSUME SessionsInv, NEW c \in Conns, NEW tag, NEW busy, handover(c, tag, busy)
  PROVE  SessionsInv'
  <1>1. PICK q : q = conn[c]
    BY Zenon
  <1>2. /\ Typed(q) /\ alive \subseteq q.seen /\ Asking(q) /\ Routed(q) /\ Handing(q) /\ q.pc = "lookup"
        /\ conf \in DOMAIN Confs /\ counter \in [Balancers -> Nat]
    BY <1>1, Busy DEF handover
  <1>3. /\ tag \in DOMAIN handlers /\ (q.tag # NoTag => tag = q.tag)
        /\ DOMAIN conn = Conns /\ handlers[tag] \in 0 .. changes /\ tag \in Tags
    BY <1>1 DEF handover, Lookup, SessionsInv, StoreInv
  <1>4. UNCHANGED <<conf, handlers, changes, alive, probes, counter>>
    BY DEF handover
  <1>5. ASSUME NEW r, conn' = [conn EXCEPT ![c] = r], SessionInv(r) PROVE SessionsInv'
    BY <1>2, <1>3, <1>4, <1>5, OneSession DEF OnlySession
  <1>6. CASE conn' = [conn EXCEPT ![c].pc = "serving", ![c].tag = tag, ![c].handler = handlers[tag]]
    <2>1. PICK r : r = [q EXCEPT !.pc = "serving", !.tag = tag, !.handler = handlers[tag]]
      BY Zenon
    <2>2. Picked(q, r) /\ r.pc = "serving" /\ r.rule = q.rule /\ r.tag = tag /\ r.handler = handlers[tag]
      BY <1>2, <2>1 DEF Typed, IsRecord, Picked
    <2>3. Typed(r)
      BY <1>2, <1>3, <2>2, Zenon DEF Typed, Stages, Picked
    <2>4. Asking(r) /\ Routed(r)
      BY <1>2, <2>2 DEF Asking, Routed, Picked, MustHaveResolved
    <2>5. q.rule # 0 => Chosen(q.tag, Conf.rules[q.rule].tag, q.seen) /\ q.tag # NoTag
      BY <1>2, Zenon DEF Handing, Chosen
    <2>6. Handing(r)
      BY <1>3, <2>2, <2>5 DEF Handing, Picked
    <2>7. Drawing(r)
      BY <2>2 DEF Drawing
    <2>8. SessionInv(r)
      BY <1>2, <2>2, <2>3, <2>4, <2>6, <2>7, Zenon DEF SessionInv, Picked
    <2>9. conn' = [conn EXCEPT ![c] = r]
      BY <1>1, <1>2, <1>3, <1>6, <2>1 DEF Typed, IsRecord
    <2> QED BY <1>5, <2>8, <2>9
  <1>7. CASE /\ conn[c].depth < MaxDepth
             /\ conn' = [conn EXCEPT ![c] =
                   Enter([conn[c].session EXCEPT !.inbound_tag = Conf.loopback[tag]], busy, conn[c].depth + 1)]
    <2>1. PICK s, n : s = [q.session EXCEPT !.inbound_tag = Conf.loopback[tag]] /\ n = q.depth + 1
      BY Zenon
    <2>2. n \in 0 .. MaxDepth
      BY <1>1, <1>2, <1>7, <2>1, DispatchConstants DEF Typed
    <2>3. SessionInv(Enter(s, busy, n))
      BY <1>2, <2>2, Entering
    <2> QED BY <1>1, <1>5, <1>7, <2>1, <2>3, Zenon
  <1> QED BY <1>6, <1>7, Zenon DEF handover

LEMMA FailStep ==
  ASSUME SessionsInv, NEW c \in Conns, fail(c)
  PROVE  SessionsInv'
  <1>1. PICK q : q = conn[c]
    BY Zenon
  <1>2. /\ Typed(q) /\ alive \subseteq q.seen /\ Asking(q) /\ Routed(q) /\ q.pc = "lookup"
        /\ conf \in DOMAIN Confs /\ counter \in [Balancers -> Nat] /\ DOMAIN conn = Conns
    BY <1>1, Busy DEF fail, SessionsInv, StoreInv
  <1>3. PICK r : r = [q EXCEPT !.pc = "failed"]
    BY Zenon
  <1>4. Picked(q, r) /\ r.pc = "failed" /\ r.rule = q.rule /\ r.tag = q.tag
    BY <1>2, <1>3 DEF Typed, IsRecord, Picked
  <1>5. Typed(r)
    BY <1>2, <1>4, Zenon DEF Typed, Stages, Picked
  <1>6. Asking(r) /\ Routed(r)
    BY <1>2, <1>4 DEF Asking, Routed, Picked, MustHaveResolved
  <1>7. Drawing(r) /\ Handing(r)
    BY <1>4 DEF Drawing, Handing
  <1>8. SessionInv(r)
    BY <1>2, <1>4, <1>5, <1>6, <1>7, Zenon DEF SessionInv, Picked
  <1>9. conn' = [conn EXCEPT ![c] = r]
    BY <1>1, <1>2, <1>3 DEF fail, Typed, IsRecord
  <1>10. OnlySession(c, r) /\ counter' \in [Balancers -> Nat]
    BY <1>2, <1>9 DEF OnlySession, fail
  <1> QED BY <1>8, <1>10, OneSession

(* The API's calls and the probes, beside the sessions.                    *)
LEMMA HandlerSteps ==
  ASSUME SessionsInv, NEW tag \in Tags, add_handler(tag) \/ remove_handler(tag)
  PROVE  SessionsInv'
  <1>1. /\ changes \in Nat /\ changes' = changes + 1 /\ changes' \in 0 .. MaxChanges
        /\ UNCHANGED <<conf, alive, probes, counter, conn>> /\ changes <= changes'
    BY DispatchConstants DEF add_handler, remove_handler, SessionsInv, StoreInv
  <1>2. /\ DOMAIN handlers \subseteq Tags
        /\ \A t \in DOMAIN handlers : handlers[t] \in 0 .. changes
    BY DEF SessionsInv, StoreInv
  <1>3. DOMAIN handlers' \subseteq Tags /\ \A t \in DOMAIN handlers' : handlers'[t] \in 0 .. changes'
    <2>1. CASE add_handler(tag)
      <3>1. handlers' = [t \in DOMAIN handlers \cup {tag} |-> IF t = tag THEN changes + 1 ELSE handlers[t]]
        BY <2>1, Zenon DEF add_handler
      <3> QED BY <1>1, <1>2, <3>1
    <2>2. CASE remove_handler(tag)
      <3>1. handlers' = [t \in DOMAIN handlers \ {tag} |-> handlers[t]]
        BY <2>2, Zenon DEF remove_handler
      <3> QED BY <1>1, <1>2, <3>1
    <2> QED BY <2>1, <2>2
  <1>4. StoreInv'
    BY <1>1, <1>3, SameConf DEF SessionsInv, StoreInv
  <1>5. ASSUME NEW d \in Conns PROVE SessionInv(conn[d])'
    <2>1. PICK x : x = conn[d]
      BY Zenon
    <2>2. SessionInv(x) /\ (x # Idle => alive' \subseteq x.seen)
      BY <1>1, <2>1, Zenon DEF SessionsInv, SessionInv
    <2>3. SessionInv(x)'
      BY <1>1, <2>2, SameSession
    <2> QED BY <1>1, <2>1, <2>3, Zenon
  <1> QED BY <1>4, <1>5, Zenon DEF SessionsInv

LEMMA SeenMore ==
  ASSUME NEW q, SessionInv(q), q # Idle, NEW more,
         NEW r, r = [q EXCEPT !.seen = q.seen \cup more]
  PROVE  SessionInv(r) /\ more \subseteq r.seen /\ r # Idle
  <1>1. Typed(q) /\ alive \subseteq q.seen /\ Asking(q) /\ Routed(q) /\ Drawing(q) /\ Handing(q)
    BY Zenon DEF SessionInv
  <1>2. /\ IsRecord(r) /\ r.ctx = q.ctx /\ r.asked = q.asked /\ r.resolved = q.resolved /\ r.depth = q.depth
        /\ r.pc = q.pc /\ r.rule = q.rule /\ r.tag = q.tag /\ r.candidates = q.candidates
        /\ r.handler = q.handler /\ r.seen = q.seen \cup more
    BY <1>1 DEF Typed, IsRecord
  <1>3. Typed(r) /\ alive \subseteq r.seen
    BY <1>1, <1>2 DEF Typed
  <1>4. Asking(r) /\ Routed(r)
    BY <1>1, <1>2, Zenon DEF Asking, Routed, MustHaveResolved
  <1>5. Drawing(r)
    <2>1. q.candidates \in Seq(q.seen) => q.candidates \in Seq(q.seen \cup more)
      OBVIOUS
    <2> QED BY <1>1, <1>2, <2>1, Zenon DEF Drawing
  <1>6. Handing(r)
    BY <1>1, <1>2, Zenon DEF Handing, Chosen
  <1>7. r.pc # "idle"
    BY <1>1, <1>2 DEF Typed, Stages
  <1>8. r # Idle
    BY <1>7 DEF Idle
  <1> QED BY <1>2, <1>3, <1>4, <1>5, <1>6, <1>8, Zenon DEF SessionInv

LEMMA ProbeStep ==
  ASSUME SessionsInv, NEW ok \in BOOLEAN, probe(ok)
  PROVE  SessionsInv'
  <1>1. UNCHANGED <<conf, handlers, changes, counter>> /\ changes \in Nat /\ changes <= changes
    BY DispatchConstants DEF probe, SessionsInv, StoreInv
  <1>2. /\ alive' \subseteq Conf.observed /\ probes' \in 0 .. MaxProbes
        /\ conn' = [c \in Conns |-> IF conn[c].pc = "idle" THEN conn[c]
                       ELSE [conn[c] EXCEPT !.seen = @ \cup alive']]
    BY DispatchConstants DEF probe, SessionsInv, StoreInv
  <1>3. StoreInv'
    BY <1>1, <1>2, SameConf DEF SessionsInv, StoreInv
  <1>4. ASSUME NEW d \in Conns PROVE SessionInv(conn[d])'
    <2>1. PICK q, x : q = conn[d] /\ x = conn'[d]
      BY Zenon
    <2>2. SessionInv(q)
      BY <2>1, Zenon DEF SessionsInv
    <2>3. x = IF q.pc = "idle" THEN q ELSE [q EXCEPT !.seen = q.seen \cup alive']
      BY <1>2, <2>1
    <2>4. CASE q = Idle
      <3>1. q.pc = "idle"
        BY <2>4 DEF Idle
      <3>2. x = Idle
        BY <2>3, <2>4, <3>1, Zenon
      <3>3. SessionInv(x)'
        BY <3>2, Zenon DEF SessionInv, Idle
      <3> QED BY <2>1, <3>3, Zenon
    <2>5. CASE q # Idle
      <3>1. q.pc # "idle"
        BY <2>2, <2>5 DEF SessionInv, Typed, Stages
      <3>2. x = [q EXCEPT !.seen = q.seen \cup alive']
        BY <2>3, <3>1
      <3>3. SessionInv(x) /\ alive' \subseteq x.seen
        BY <2>2, <2>5, <3>2, SeenMore
      <3>4. SessionInv(x)'
        BY <1>1, <3>3, SameSession
      <3> QED BY <2>1, <3>4, Zenon
    <2> QED BY <2>4, <2>5
  <1> QED BY <1>3, <1>4, Zenon DEF SessionsInv

-----------------------------------------------------------------------------
LEMMA SessionsInit == DispatchInit => SessionsInv
  <1> SUFFICES ASSUME DispatchInit PROVE SessionsInv
    OBVIOUS
  <1>1. conf \in DOMAIN Confs /\ Conf.outbounds \subseteq Tags
    BY ConfsShape, Zenon DEF DispatchInit, Conf
  <1>2. /\ handlers = [t \in Conf.outbounds |-> 0] /\ changes = 0 /\ alive = Conf.observed /\ probes = 0
        /\ counter = [b \in Balancers |-> 0] /\ conn = [c \in Conns |-> Idle]
    BY Zenon DEF DispatchInit
  <1>3. StoreInv
    BY <1>1, <1>2, DispatchConstants DEF StoreInv
  <1>4. \A c \in Conns : conn[c] = Idle
    BY <1>2
  <1> QED BY <1>3, <1>4, Zenon DEF SessionsInv, SessionInv

LEMMA SessionsNext == SessionsInv /\ [DispatchNext]_dispatchVars => SessionsInv'
  <1> SUFFICES ASSUME SessionsInv, [DispatchNext]_dispatchVars PROVE SessionsInv'
    OBVIOUS
  <1>1. CASE UNCHANGED dispatchVars
    <2>1. /\ UNCHANGED <<conf, handlers, changes, alive, probes, counter, conn>>
          /\ changes \in Nat /\ changes <= changes
      BY <1>1, DispatchConstants DEF dispatchVars, SessionsInv, StoreInv
    <2>2. StoreInv'
      BY <2>1, SameConf DEF SessionsInv, StoreInv
    <2>3. ASSUME NEW d \in Conns PROVE SessionInv(conn[d])'
      <3>1. PICK x : x = conn[d]
        BY Zenon
      <3>2. SessionInv(x) /\ (x # Idle => alive' \subseteq x.seen)
        BY <2>1, <3>1, Zenon DEF SessionsInv, SessionInv
      <3>3. SessionInv(x)'
        BY <2>1, <3>2, SameSession
      <3> QED BY <2>1, <3>1, <3>3, Zenon
    <2> QED BY <2>2, <2>3, Zenon DEF SessionsInv
  <1>2. ASSUME NEW c \in Conns, NEW session \in Sessions, NEW busy \in BOOLEAN, dispatch(c, session, busy)
        PROVE  SessionsInv'
    BY <1>2, DispatchStep
  <1>3. ASSUME NEW c \in Conns, Advance(c) PROVE SessionsInv'
    BY <1>3, ResolveStep, PickStep, DrawStep, HandoverStep, FailStep, Zenon DEF Advance
  <1>4. CASE Control
    BY <1>4, HandlerSteps, ProbeStep, Zenon DEF Control
  <1> QED BY <1>1, <1>2, <1>3, <1>4, Zenon DEF DispatchNext

(* Whatever the configuration, however many sessions are dispatched at     *)
(* once and however outbounds and probes come and go beside them: the      *)
(* first matching rule decides, and nothing else serves the session.       *)
THEOREM RoutingIsRight == DispatchSpec => []RoutingDecides
  <1>1. SessionsInv => RoutingDecides
    <2> SUFFICES ASSUME SessionsInv PROVE RoutingDecides
      OBVIOUS
    <2>1. ASSUME NEW c \in Conns, conn[c].pc # "idle"
          PROVE  /\ Typed(conn[c]) /\ Asking(conn[c]) /\ Routed(conn[c])
                 /\ Drawing(conn[c]) /\ Handing(conn[c]) /\ conf \in DOMAIN Confs
      BY <2>1, Busy, Zenon
    <2>2. DispatchTypeOK
      BY <2>1, Zenon DEF DispatchTypeOK, SessionsInv, StoreInv, Typed, Drawing, Handing
    <2>3. FirstRuleDecides
      <3> SUFFICES ASSUME NEW c \in Conns, Settled(c)
                   PROVE  LET asked == Hits(conn[c].asked)
                              final == IF conn[c].ctx = conn[c].asked THEN asked ELSE Hits(conn[c].ctx)
                          IN  /\ conn[c].rule # 0 => IsFirst(conn[c].rule, final)
                              /\ asked # {} /\ Conf.strategy # "IpOnDemand" => IsFirst(conn[c].rule, asked)
                              /\ conn[c].rule = 0 => final = {}
                              /\ conn[c].rule = 0 /\ Resolvable(conn[c].asked) /\ Conf.strategy # "AsIs" =>
                                    conn[c].resolved
        BY Zenon DEF FirstRuleDecides
      <3>1. PICK q : q = conn[c]
        BY Zenon
      <3>2. q.pc \in {"serving", "failed"} /\ q.pc # "idle"
        BY <3>1 DEF Settled
      <3>3. Typed(q) /\ Asking(q) /\ Routed(q) /\ conf \in DOMAIN Confs
        BY <2>1, <3>1, <3>2, Zenon
      <3>4. PICK final : final = IF q.ctx = q.asked THEN Hits(q.asked) ELSE Hits(q.ctx)
        BY Zenon
      <3>5. final = Hits(q.ctx)
        BY <3>4, Zenon
      <3>6. q.rule = pick_route(q.ctx) /\ (q.rule = 0 => MustHaveResolved(q))
        BY <3>2, <3>3 DEF Routed
      <3>7. (q.rule # 0 => IsFirst(q.rule, final)) /\ (q.rule = 0 => final = {})
        BY <3>3, <3>5, <3>6, PickRoute, Zenon
      <3>8. ASSUME Hits(q.asked) # {}, Conf.strategy # "IpOnDemand" PROVE IsFirst(q.rule, Hits(q.asked))
        <4>1. q.ctx = q.asked
          BY <3>3, <3>8, Zenon DEF Asking, MayResolve, Typed
        <4> QED BY <3>3, <3>6, <3>8, <4>1, PickRoute, Zenon
      <3> QED BY <3>1, <3>4, <3>6, <3>7, <3>8, Zenon DEF MustHaveResolved
    <2>4. NeverDefaultOnceMatched
      <3> SUFFICES ASSUME NEW c \in Conns, conn[c].pc = "serving", conn[c].rule # 0
                   PROVE  LET tag == Conf.rules[conn[c].rule].tag
                          IN  \/ conn[c].tag = tag
                              \/ /\ tag \in Balancers
                                 /\ conn[c].tag \in Range(Conf.balancers[tag].selector)
                                                  \cup {Conf.balancers[tag].fallback}
        BY Zenon DEF NeverDefaultOnceMatched
      <3>1. conn[c].pc # "idle"
        OBVIOUS
      <3>2. Chosen(conn[c].tag, Conf.rules[conn[c].rule].tag, conn[c].seen)
        BY <2>1, <3>1, Zenon DEF Handing
      <3> QED BY <3>2, Zenon DEF Chosen
    <2> QED BY <2>2, <2>3, <2>4, Zenon DEF RoutingDecides
  <1> QED BY <1>1, SessionsInit, SessionsNext, PTL DEF DispatchSpec

(* Nor does an observed balancer hand a session to an outbound that was    *)
(* down ever since the session came, unless as its fallback.               *)
THEOREM DeadIsAvoided == DispatchSpec => []DeadOutboundAvoided
  <1>1. SessionsInv => DeadOutboundAvoided
    <2> SUFFICES ASSUME SessionsInv, NEW c \in Conns, conn[c].pc = "serving", conn[c].rule # 0
                 PROVE  LET b == Conf.rules[conn[c].rule].tag
                        IN  b \in Balancers /\ Observed(b) =>
                              conn[c].tag \in conn[c].seen \cup {Conf.balancers[b].fallback, b}
      BY Zenon DEF DeadOutboundAvoided
    <2>1. conn[c].pc # "idle"
      OBVIOUS
    <2>2. Chosen(conn[c].tag, Conf.rules[conn[c].rule].tag, conn[c].seen)
      BY <2>1, Busy, Zenon DEF Handing
    <2> QED BY <2>2, Zenon DEF Chosen
  <1> QED BY <1>1, SessionsInit, SessionsNext, PTL DEF DispatchSpec

-----------------------------------------------------------------------------
(* The round robin.  Only a draw touches the counters and the draws.       *)
LEMMA NoDraw ==
  ASSUME DrawsInv, UNCHANGED <<conf, counter, draws>>
  PROVE  DrawsInv'
  <1>1. Balancers' = Balancers
    BY SameConf
  <1>2. \A d : GoodDraw(d)' <=> GoodDraw(d)
    BY <1>1, Zenon DEF GoodDraw
  <1>3. \A b \in Balancers : \A n \in 0 .. counter[b] - 1 : \E d \in draws : d.balancer = b /\ d.number = n
    BY Zenon DEF DrawsInv
  <1>4. counter' = counter /\ draws' = draws
    OBVIOUS
  <1>5. \A b \in Balancers' : \A n \in 0 .. counter'[b] - 1 : \E d \in draws' : d.balancer = b /\ d.number = n
    BY <1>1, <1>3, <1>4
  <1> QED BY <1>2, <1>4, <1>5, Zenon DEF DrawsInv

LEMMA NextDraw ==
  ASSUME DrawsInv, counter \in [Balancers -> Nat], conf' = conf, NEW b \in Balancers,
         NEW d, d.balancer = b, d.number = counter[b],
         d.candidates \in Seq(Range(d.candidates)), d.candidates # <<>>,
         d.tag = d.candidates[(d.number % Len(d.candidates)) + 1],
         counter' = [counter EXCEPT ![b] = counter[b] + 1], draws' = draws \cup {d}
  PROVE  DrawsInv'
  <1>1. Balancers' = Balancers
    BY SameConf
  <1>2. /\ counter[b] \in Nat /\ counter'[b] = counter[b] + 1
        /\ \A x \in Balancers : counter[x] \in Nat /\ counter'[x] \in Nat /\ counter[x] <= counter'[x]
        /\ \A x \in Balancers : x # b => counter'[x] = counter[x]
    OBVIOUS
  <1>3. \A e \in draws : GoodDraw(e)
    BY Zenon DEF DrawsInv
  <1>4. ASSUME NEW e \in draws PROVE GoodDraw(e)'
    <2>1. PICK n, x : n = e.number /\ x = e.balancer
      BY Zenon
    <2>2. x \in Balancers /\ n \in Nat /\ n < counter[x]
      BY <1>3, <2>1, Zenon DEF GoodDraw
    <2>3. n < counter'[x]
      BY <1>2, <2>2
    <2> QED BY <1>1, <1>3, <2>1, <2>2, <2>3, Zenon DEF GoodDraw
  <1>5. GoodDraw(d)'
    <2>1. counter[b] < counter'[b]
      BY <1>2
    <2> QED BY <1>1, <1>2, <2>1, Zenon DEF GoodDraw
  <1>6. ASSUME NEW e \in draws, e.balancer = b PROVE e.number # d.number
    <2>1. PICK n : n = e.number
      BY Zenon
    <2>2. n \in Nat /\ n < counter[b]
      BY <1>3, <1>6, <2>1, Zenon DEF GoodDraw
    <2>3. n # counter[b]
      BY <1>2, <2>2
    <2> QED BY <2>1, <2>3, Zenon
  <1>7. \A e, f \in draws' : e.balancer = f.balancer /\ e.number = f.number => e = f
    <2>1. \A e, f \in draws : e.balancer = f.balancer /\ e.number = f.number => e = f
      BY Zenon DEF DrawsInv
    <2> QED BY <1>6, <2>1, Zenon
  <1>8. ASSUME NEW x \in Balancers, NEW n \in 0 .. counter'[x] - 1
        PROVE  \E e \in draws' : e.balancer = x /\ e.number = n
    <2>1. CASE n \in 0 .. counter[x] - 1
      <3>1. \E e \in draws : e.balancer = x /\ e.number = n
        BY <2>1, Zenon DEF DrawsInv
      <3> QED BY <3>1, Zenon
    <2>2. CASE n \notin 0 .. counter[x] - 1
      <3>1. x = b /\ n = counter[b]
        BY <1>2, <2>2
      <3> QED BY <3>1, Zenon
    <2> QED BY <2>1, <2>2
  <1> QED BY <1>1, <1>4, <1>5, <1>7, <1>8, Zenon DEF DrawsInv

LEMMA DrawsStep ==
  ASSUME SessionsInv, DrawsInv, NEW c \in Conns, NEW k, draw(c, k)
  PROVE  DrawsInv'
  <1>1. PICK q : q = conn[c]
    BY Zenon
  <1>2. Drawing(q) /\ q.pc = "draw" /\ counter \in [Balancers -> Nat]
    BY <1>1, Busy DEF draw
  <1>3. PICK b, s : b = q.tag /\ s = q.candidates
    BY Zenon
  <1>4. PICK M : b \in Balancers /\ s \in Seq(M) /\ s # <<>>
    BY <1>2, <1>3, Zenon DEF Drawing
  <1>5. s \in Seq(Range(s))
    BY <1>4 DEF Range
  <1>6. conf' = conf
    BY Zenon DEF draw
  <1>7. CASE Counted(b)
    <2>1. PICK t : t = s[k]
      BY Zenon
    <2>2. PICK n : n = counter[b]
      BY Zenon
    <2>3. PICK d : d = [balancer |-> b, number |-> n, conn |-> c, candidates |-> s, tag |-> t]
      BY Zenon
    <2>4. d.balancer = b /\ d.number = n /\ d.candidates = s /\ d.tag = t
      BY <2>3
    <2>5. k = (n % Len(s)) + 1
      BY <1>1, <1>3, <1>7, <2>2, Zenon DEF draw
    <2>6. counter' = [counter EXCEPT ![b] = counter[b] + 1] /\ draws' = draws \cup {d}
      <3>1. counter' = [counter EXCEPT ![b] = @ + 1]
        BY <1>1, <1>3, <1>7, Zenon DEF draw, DrawNumber
      <3>2. draws' = draws \cup {d}
        BY <1>1, <1>3, <1>7, <2>1, <2>2, <2>3, Zenon DEF draw
      <3> QED BY <3>1, <3>2, Zenon
    <2>7. /\ d.number = counter[b] /\ d.candidates \in Seq(Range(d.candidates)) /\ d.candidates # <<>>
          /\ d.tag = d.candidates[(d.number % Len(d.candidates)) + 1]
      BY <1>4, <1>5, <2>1, <2>2, <2>4, <2>5, Zenon
    <2> QED BY <1>2, <1>4, <1>6, <2>4, <2>6, <2>7, NextDraw, Zenon
  <1>8. CASE ~Counted(b)
    <2>1. UNCHANGED <<counter, draws>>
      BY <1>1, <1>3, <1>8, Zenon DEF draw
    <2> QED BY <1>6, <2>1, NoDraw
  <1> QED BY <1>7, <1>8

LEMMA DrawsInit == DispatchInit => DrawsInv
  <1> SUFFICES ASSUME DispatchInit PROVE DrawsInv
    OBVIOUS
  <1>1. draws = {} /\ counter = [b \in Balancers |-> 0]
    BY Zenon DEF DispatchInit
  <1>2. \A b \in Balancers : 0 .. counter[b] - 1 = {}
    BY <1>1
  <1> QED BY <1>1, <1>2, Zenon DEF DrawsInv

LEMMA DrawsNext == SessionsInv /\ DrawsInv /\ [DispatchNext]_dispatchVars => DrawsInv'
  <1> SUFFICES ASSUME SessionsInv, DrawsInv, [DispatchNext]_dispatchVars PROVE DrawsInv'
    OBVIOUS
  <1>1. CASE UNCHANGED dispatchVars
    <2>1. UNCHANGED <<conf, counter, draws>>
      BY <1>1, Zenon DEF dispatchVars
    <2> QED BY <2>1, NoDraw
  <1>2. ASSUME NEW c \in Conns, NEW k, draw(c, k) PROVE DrawsInv'
    BY <1>2, DrawsStep
  <1>3. ASSUME NEW c \in Conns, NEW session, NEW busy, NEW ip, NEW tag, NEW ok,
               \/ dispatch(c, session, busy) \/ resolve_context(c, ip) \/ pick_outbound_tag(c)
               \/ handover(c, tag, busy) \/ fail(c)
        PROVE  DrawsInv'
    <2>1. UNCHANGED <<conf, counter, draws>>
      BY <1>3, Zenon DEF dispatch, resolve_context, pick_outbound_tag, handover, fail
    <2> QED BY <2>1, NoDraw
  <1>4. ASSUME NEW tag, NEW ok, add_handler(tag) \/ remove_handler(tag) \/ probe(ok) PROVE DrawsInv'
    <2>1. UNCHANGED <<conf, counter, draws>>
      BY <1>4, Zenon DEF add_handler, remove_handler, probe
    <2> QED BY <2>1, NoDraw
  <1> QED BY <1>1, <1>2, <1>3, <1>4, Zenon DEF DispatchNext, Advance, Control

-----------------------------------------------------------------------------
(* The draws of a window whose candidates are all the same that went to    *)
(* the j-th of them are those whose numbers leave remainder j - 1.         *)
DrawsIn(b, lo, hi) == {d \in draws : d.balancer = b /\ d.number \in lo .. hi}

Given(b, lo, hi, t) == {d \in DrawsIn(b, lo, hi) : d.tag = t}

Among(b, lo, hi, s, L) ==
    /\ b \in Balancers /\ counter[b] \in Nat /\ lo \in Nat /\ hi \in Nat /\ hi < counter[b]
    /\ s \in Seq(Range(s)) /\ IsInjective(s) /\ L \in Nat \ {0} /\ L = Len(s)
    /\ \A e \in DrawsIn(b, lo, hi) : e.candidates = s

Matched(b, lo, hi, s, L, j) == Cardinality(Given(b, lo, hi, s[j + 1])) = Cardinality(Numbers(lo, hi, L, j))

LEMMA ShareOf ==
  ASSUME DrawsInv, NEW b, NEW lo, NEW hi, NEW s, NEW L, Among(b, lo, hi, s, L), NEW j \in 0 .. L - 1
  PROVE  Matched(b, lo, hi, s, L, j)
  <1> DEFINE W == DrawsIn(b, lo, hi)
  <1> USE DEF Among
  <1>0. \A d : d \in W <=> d \in draws /\ d.balancer = b /\ d.number \in lo .. hi
    BY Zenon DEF DrawsIn
  <1> HIDE DEF W
  <1>1. PICK D, N : D = {d \in W : d.tag = s[j + 1]} /\ N = {n \in lo .. hi : n % L = j}
    BY Zenon
  <1>2. ASSUME NEW d \in W PROVE /\ d.number \in lo .. hi
                                 /\ d.tag = s[j + 1] <=> d.number % L = j
    <2>1. PICK n : n = d.number
      BY Zenon
    <2>2. n \in lo .. hi /\ GoodDraw(d) /\ d.candidates = s
      BY <1>0, <2>1, Zenon DEF DrawsInv, W
    <2>3. d.tag = s[(n % L) + 1]
      BY <2>1, <2>2, Zenon DEF GoodDraw
    <2>4. n \in Nat /\ n % L \in 0 .. L - 1
      BY <2>2
    <2>5. (n % L) + 1 \in 1 .. L /\ j + 1 \in 1 .. L /\ DOMAIN s = 1 .. L
      BY <2>4
    <2>6. s[(n % L) + 1] = s[j + 1] => (n % L) + 1 = j + 1
      BY <2>5, Zenon DEF IsInjective
    <2>7. (n % L) + 1 = j + 1 <=> n % L = j
      BY <2>4
    <2> QED BY <2>1, <2>2, <2>3, <2>6, <2>7, Zenon
  <1>3. \A d \in D : d.number \in N
    BY <1>1, <1>2, Zenon
  <1>4. \A d, e \in D : d.number = e.number => d = e
    <2>1. \A d \in D : d \in draws /\ d.balancer = b
      BY <1>0, <1>1, Zenon
    <2>2. \A d, e \in draws : d.balancer = e.balancer /\ d.number = e.number => d = e
      BY Zenon DEF DrawsInv
    <2> QED BY <2>1, <2>2, Zenon
  <1>5. ASSUME NEW n \in N PROVE \E d \in D : d.number = n
    <2>1. n \in lo .. hi /\ n % L = j
      BY <1>1, Zenon
    <2>2. n \in 0 .. counter[b] - 1
      BY <2>1
    <2>3. PICK d \in draws : d.balancer = b /\ d.number = n
      BY <2>2, Zenon DEF DrawsInv
    <2>4. d \in W
      BY <1>0, <2>1, <2>3, Zenon
    <2> QED BY <1>1, <1>2, <2>1, <2>3, <2>4, Zenon
  <1>6. IsFiniteSet(N)
    <2>1. IsFiniteSet(lo .. hi)
      BY FS_Interval
    <2>2. N \in SUBSET (lo .. hi)
      BY <1>1, Zenon
    <2> QED BY <2>1, <2>2, FS_Subset
  <1>7. Cardinality(D) = Cardinality(N)
    BY <1>3, <1>4, <1>5, <1>6, Numbered
  <1> QED BY <1>1, <1>7, Zenon DEF W, Given, Numbers, Matched

LEMMA EvenWindow ==
  ASSUME DrawsInv, NEW b \in Balancers, counter[b] \in Nat, NEW lo \in Nat, NEW hi \in Nat, hi < counter[b],
         NEW d \in DrawsIn(b, lo, hi), IsInjective(d.candidates), \A e \in DrawsIn(b, lo, hi) : e.candidates = d.candidates,
         NEW t \in Range(d.candidates), NEW u \in Range(d.candidates)
  PROVE  Cardinality(Given(b, lo, hi, t)) <= Cardinality(Given(b, lo, hi, u)) + 1
  <1>1. PICK s : s = d.candidates
    BY Zenon
  <1>2. s \in Seq(Range(s)) /\ s # <<>>
    BY <1>1, Zenon DEF DrawsInv, GoodDraw, DrawsIn
  <1>3. PICK L \in Nat \ {0} : L = Len(s) /\ DOMAIN s = 1 .. L
    BY <1>2
  <1>4. \A x \in Range(s) : \E j \in 0 .. L - 1 : x = s[j + 1]
    <2> TAKE x \in Range(s)
    <2>1. PICK i \in 1 .. L : x = s[i]
      BY <1>3, Zenon DEF Range
    <2>2. i - 1 \in 0 .. L - 1 /\ (i - 1) + 1 = i
      OBVIOUS
    <2> QED BY <2>1, <2>2, Zenon
  <1>5. PICK j \in 0 .. L - 1 : t = s[j + 1]
    BY <1>1, <1>4, Zenon
  <1>6. PICK k \in 0 .. L - 1 : u = s[k + 1]
    BY <1>1, <1>4, Zenon
  <1>7. Among(b, lo, hi, s, L)
    BY <1>1, <1>2, <1>3, Zenon DEF Among
  <1>8. Matched(b, lo, hi, s, L, j) /\ Matched(b, lo, hi, s, L, k)
    BY <1>7, ShareOf, Zenon
  <1>9. Cardinality(Numbers(lo, hi, L, j)) <= Cardinality(Numbers(lo, hi, L, k)) + 1
    BY Turns
  <1> QED BY <1>5, <1>6, <1>8, <1>9, Zenon DEF Matched

(* However many sessions draw from a balancer at once, and however its     *)
(* candidates change between draws: no number is drawn twice or skipped,   *)
(* and while the candidates stay the same each has its share, to within    *)
(* one.                                                                    *)
THEOREM RoundRobinIsEven == DispatchSpec => []RoundRobinEven
  <1>1. SessionsInv /\ DrawsInv => RoundRobinEven
    <2> SUFFICES ASSUME SessionsInv, DrawsInv, NEW b \in Balancers
                 PROVE  LET D == {d \in draws : d.balancer = b}
                            Window(lo, hi) == {d \in D : d.number \in lo .. hi}
                            Share(t, W) == Cardinality({d \in W : d.tag = t})
                        IN  /\ Cardinality(D) = counter[b]
                            /\ \A d, e \in D : d # e => d.number # e.number
                            /\ \A lo \in 0 .. counter[b] : \A hi \in lo .. counter[b] - 1 :
                                  LET W == Window(lo, hi)
                                  IN  \A d \in W :
                                        IsInjective(d.candidates) /\ (\A e \in W : e.candidates = d.candidates) =>
                                          \A t, u \in Range(d.candidates) :
                                             Share(t, W) <= Share(u, W) + 1
      BY Zenon DEF RoundRobinEven
    <2> DEFINE D == {d \in draws : d.balancer = b}
               Window(lo, hi) == {d \in D : d.number \in lo .. hi}
               Share(t, W) == Cardinality({d \in W : d.tag = t})
    <2>0. \A d : d \in D <=> d \in draws /\ d.balancer = b
      BY Zenon
    <2> HIDE DEF D
    <2>1. counter[b] \in Nat
      BY DEF SessionsInv, StoreInv
    <2>2. \A d, e \in D : d.number = e.number => d = e
      <3>1. \A d, e \in draws : d.balancer = e.balancer /\ d.number = e.number => d = e
        BY Zenon DEF DrawsInv
      <3> QED BY <2>0, <3>1, Zenon
    <2>3. Cardinality(D) = counter[b]
      <3>1. PICK n \in Nat : n = counter[b]
        BY <2>1
      <3>2. \A d \in D : d.number \in 0 .. n - 1
        <4> TAKE d \in D
        <4>1. PICK m : m = d.number
          BY Zenon
        <4>2. m \in Nat /\ m < n
          BY <2>0, <3>1, <4>1, Zenon DEF DrawsInv, GoodDraw
        <4> QED BY <4>1, <4>2
      <3>3. \A m \in 0 .. n - 1 : \E d \in D : d.number = m
        <4>1. \A m \in 0 .. counter[b] - 1 : \E d \in draws : d.balancer = b /\ d.number = m
          BY Zenon DEF DrawsInv
        <4> QED BY <2>0, <3>1, <4>1, Zenon
      <3>4. n - 1 \in Int
        OBVIOUS
      <3>5. IsFiniteSet(0 .. n - 1) /\ Cardinality(0 .. n - 1) = IF 0 > n - 1 THEN 0 ELSE (n - 1) - 0 + 1
        BY <3>4, FS_Interval
      <3>6. Cardinality(0 .. n - 1) = n
        BY <3>5
      <3>7. Cardinality(D) = n
        BY <2>2, <3>2, <3>3, <3>5, <3>6, Numbered
      <3> QED BY <3>1, <3>7, Zenon
    <2>4. ASSUME NEW lo \in 0 .. counter[b], NEW hi \in lo .. counter[b] - 1
          PROVE  \A d \in Window(lo, hi) :
                    IsInjective(d.candidates) /\ (\A e \in Window(lo, hi) : e.candidates = d.candidates) =>
                       \A t, u \in Range(d.candidates) : Share(t, Window(lo, hi)) <= Share(u, Window(lo, hi)) + 1
      <3>1. Window(lo, hi) = DrawsIn(b, lo, hi)
        BY <2>0 DEF DrawsIn
      <3> HIDE DEF Window
      <3>2. \A t : Share(t, Window(lo, hi)) = Cardinality(Given(b, lo, hi, t))
        BY <3>1, Zenon DEF Given
      <3> HIDE DEF Share
      <3>3. lo \in Nat /\ hi \in Nat /\ hi < counter[b]
        BY <2>1
      <3> TAKE d \in Window(lo, hi)
      <3> HAVE IsInjective(d.candidates) /\ \A e \in Window(lo, hi) : e.candidates = d.candidates
      <3> TAKE t, u \in Range(d.candidates)
      <3>4. Cardinality(Given(b, lo, hi, t)) <= Cardinality(Given(b, lo, hi, u)) + 1
        BY <2>1, <3>1, <3>3, EvenWindow, Zenon
      <3> QED BY <3>2, <3>4
    <2>5. \A d, e \in D : d # e => d.number # e.number
      BY <2>2, Zenon
    <2> QED BY <2>3, <2>4, <2>5, Zenon DEF D
  <1> QED BY <1>1, SessionsInit, SessionsNext, DrawsInit, DrawsNext, PTL DEF DispatchSpec
=============================================================================
