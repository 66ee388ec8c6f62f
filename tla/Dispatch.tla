------------------------------ MODULE Dispatch ------------------------------
(***************************************************************************)
(* DefaultDispatcher (astra-core-dispatcher): a session is turned into a   *)
(* routing context, matched against the router's rules, possibly after its *)
(* domain is resolved, given to a balancer where the rule names one, and   *)
(* handed to an outbound handler.  Concurrently the observatory probes,    *)
(* outbounds are added and removed through the API, and other sessions are *)
(* dispatched on other threads.                                            *)
(*                                                                         *)
(* The configuration (rules, strategy, balancers, observed tags, loopback  *)
(* outbounds) is chosen in the initial state.  Webhooks are not modelled:  *)
(* nothing attaches one to a rule.  The round robin counters are 64 bits   *)
(* wide and a run draws far fewer numbers, so they are naturals here.      *)
(* Variants named Bug... are mistakes the properties below must notice; no *)
(* action uses them.                                                       *)
(***************************************************************************)
EXTENDS Integers, Sequences, FiniteSets, Functions

CONSTANTS
    Conns,          \* sessions, each dispatched once
    Sessions,       \* what a session may ask for
    Tags,           \* outbound tags
    Confs,          \* configurations explored, by name
    Addresses,      \* addresses the resolver may answer with
    NoneSuch,       \* an absent value (Option::None)
    MaxChanges,     \* bound: API calls that add or remove an outbound
    MaxProbes,      \* bound: probes of the observatory
    MaxDepth        \* bound: loopback outbounds a session passes

ASSUME DispatchConstants ==
    MaxChanges \in Nat /\ MaxProbes \in Nat /\ MaxDepth \in Nat

(* The shape of a configuration.  The empty string stands for an absent    *)
(* tag or fallback, so no outbound has it for its tag.                     *)
NoTag == ""

ASSUME ConfsShape ==
    /\ NoTag \notin Tags
    /\ \A name \in DOMAIN Confs : LET C == Confs[name] IN
          /\ C.strategy \in {"AsIs", "IpIfNonMatch", "IpOnDemand"}
          /\ C.outbounds \subseteq Tags
          /\ C.rules \in Seq(Range(C.rules))
          /\ \A i \in DOMAIN C.rules : C.rules[i].tag \in Tags \cup DOMAIN C.balancers \cup {NoTag}
          /\ \A b \in DOMAIN C.balancers :
                /\ C.balancers[b].selector \in Seq(Tags)
                /\ C.balancers[b].fallback \in Tags \cup {NoTag}

VARIABLES
    conf,           \* the name of the configuration, never changed
    handlers,       \* Manager.handlers: tag -> generation of its handler
    changes,        \* API calls so far; also numbers handler generations
    alive,          \* the alive set the observatory shares with balancers
    probes,         \* probes so far
    counter,        \* Balancer.counter of each balancer
    conn,           \* the state of each dispatched session
    draws           \* history: the numbers drawn from round robin counters

dispatchVars == <<conf, handlers, changes, alive, probes, counter, conn, draws>>

Conf == Confs[conf]
Balancers == DOMAIN Conf.balancers \ {NoTag}   \* one without a tag is never asked

-----------------------------------------------------------------------------
(* build_routing_context, then enrich_with_fake_dns: a fake address brings *)
(* its domain unless the reverse map is busy.  The context's user and      *)
(* network are never filled in.                                            *)
build_routing_context(session) ==
    [domain |-> session.domain, ip |-> session.ip, port |-> session.port,
     source_ip |-> session.source_ip, source_port |-> session.source_port,
     inbound_tag |-> session.inbound_tag, protocol |-> session.protocol,
     attributes |-> session.attributes, user |-> NoneSuch, network |-> NoneSuch]

enrich_with_fake_dns(ctx, busy) ==
    IF ctx.ip \in DOMAIN Conf.fake_dns /\ ~busy
    THEN [ctx EXCEPT !.domain = Conf.fake_dns[ctx.ip]]
    ELSE ctx

(* The matchers: each looks at one field, and an absent one never matches. *)
(* A domain is the sequence of its labels in lower case, and a dot at its  *)
(* end is an empty last label; a network is the set of its addresses.      *)
WithoutDot(name) == IF name[Len(name)] = "" THEN SubSeq(name, 1, Len(name) - 1) ELSE name

DomainMatcher(patterns, ctx) ==
    LET domain == ctx.domain IN
    domain # NoneSuch /\ \E p \in patterns :
        \/ p.kind = "exact" /\ (p.name \in {domain, Append(domain, "")} \/ WithoutDot(p.name) = domain)
        \/ p.kind = "subdomain" /\ Len(p.name) <= Len(domain)
           /\ p.name = SubSeq(domain, Len(domain) - Len(p.name) + 1, Len(domain))
        \/ p.kind = "keyword" /\ \E i \in DOMAIN domain : domain[i] \in p.labels
        \/ p.kind = "regexp" /\ domain \in p.names

In(networks, ip) == \E n \in networks : ip \in n
IpMatcher(networks, ctx) == In(networks, ctx.ip)
SourceIpMatcher(networks, ctx) == In(networks, ctx.source_ip)

Within(ranges, port) == \E r \in ranges : r[1] <= port /\ port <= r[2]
PortMatcher(ranges, ctx) == Within(ranges, ctx.port)
SourcePortMatcher(ranges, ctx) == Within(ranges, ctx.source_port)

NetworkMatcher(networks, ctx) == ctx.network \in networks
InboundTagMatcher(tags, ctx) == ctx.inbound_tag \in tags
UserMatcher(emails, ctx) == ctx.user \in emails

(* A protocol is asked for by a part of it: these are those that have one. *)
ProtocolMatcher(protocols, ctx) == ctx.protocol \in protocols

(* The process is looked for among the attributes, and only there; every   *)
(* attribute asked for must be present.                                    *)
ProcessNameMatcher(names, ctx) ==
    "process_name" \in DOMAIN ctx.attributes /\ ctx.attributes["process_name"] \in names

AttributeMatcher(patterns, ctx) ==
    \A p \in patterns : p.key \in DOMAIN ctx.attributes /\ ctx.attributes[p.key] \in p.values

Holds(condition, ctx) ==
    CASE condition.field = "ip" -> IpMatcher(condition.values, ctx)
      [] condition.field = "domain" -> DomainMatcher(condition.values, ctx)
      [] condition.field = "inbound_tag" -> InboundTagMatcher(condition.values, ctx)
      [] condition.field = "user" -> UserMatcher(condition.values, ctx)
      [] condition.field = "port" -> PortMatcher(condition.values, ctx)
      [] condition.field = "source_ip" -> SourceIpMatcher(condition.values, ctx)
      [] condition.field = "source_port" -> SourcePortMatcher(condition.values, ctx)
      [] condition.field = "network" -> NetworkMatcher(condition.values, ctx)
      [] condition.field = "protocol" -> ProtocolMatcher(condition.values, ctx)
      [] condition.field = "process" -> ProcessNameMatcher(condition.values, ctx)
      [] condition.field = "attributes" -> AttributeMatcher(condition.values, ctx)

(* A rule is the conjunction of its conditions, and matches nothing when   *)
(* it has none.                                                            *)
matches(rule, ctx) ==
    /\ rule.conditions # {}
    /\ \A condition \in rule.conditions : Holds(condition, ctx)

BugPickLastRule(ctx) ==
    LET hits == {i \in DOMAIN Conf.rules :
                    matches(Conf.rules[i], ctx) /\ Conf.rules[i].tag # NoTag}
    IN  IF hits = {} THEN 0
        ELSE CHOOSE i \in hits : \A j \in hits : j <= i

(* The first rule that matches and names an outbound or a balancer; 0 when *)
(* there is none.  The outbound comes before the balancer when a rule      *)
(* names both, so a rule carries one tag.                                  *)
pick_route(ctx) ==
    LET hits == {i \in DOMAIN Conf.rules :
                    matches(Conf.rules[i], ctx) /\ Conf.rules[i].tag # NoTag}
    IN  IF hits = {} THEN 0
        ELSE CHOOSE i \in hits : \A j \in hits : i <= j

(* The balancer's members that may be picked: all of them, or, where the   *)
(* observatory's selector overlaps, the ones in the alive set.             *)
Observed(b) == Range(Conf.balancers[b].selector) \cap Conf.observed # {}

(* For each i, those of the first i entries of s that are in S.            *)
Kept(s, S) ==
    LET F[i \in 0 .. Len(s)] == IF i = 0 THEN <<>>
                                ELSE IF s[i] \in S THEN Append(F[i - 1], s[i]) ELSE F[i - 1]
    IN  F

BugCandidates(b) == Conf.balancers[b].selector

Candidates(b) ==
    LET selector == Conf.balancers[b].selector
    IN  IF Observed(b) THEN Kept(selector, alive)[Len(selector)] ELSE selector

-----------------------------------------------------------------------------
Idle == [pc |-> "idle"]

(* resolve_context has something to ask.                                   *)
Resolvable(ctx) ==
    Conf.dns /\ ctx.domain # NoneSuch /\ ctx.ip = NoneSuch

(* A session enters routed_dispatch (or dispatch_link, from a loopback     *)
(* outbound).  "seen" collects the tags alive at some time since.          *)
Enter(session, busy, depth) ==
    LET ctx == enrich_with_fake_dns(build_routing_context(session), busy)
    IN  [pc |-> IF Conf.strategy = "IpOnDemand" /\ Resolvable(ctx)
                THEN "resolve" ELSE "pick",
         session |-> session, ctx |-> ctx, asked |-> ctx, resolved |-> FALSE,
         rule |-> 0, tag |-> NoTag, candidates |-> <<>>, handler |-> NoneSuch,
         depth |-> depth, seen |-> alive]

dispatch(c, session, busy) ==
    /\ conn[c].pc = "idle"
    /\ conn' = [conn EXCEPT ![c] = Enter(session, busy, 0)]
    /\ UNCHANGED <<conf, handlers, changes, alive, probes, counter, draws>>

(* The resolver answers: the address chosen from its answer goes into the  *)
(* context, an error leaves it as it was.                                  *)
resolve_context(c, ip) ==
    /\ conn[c].pc = "resolve"
    /\ conn' = [conn EXCEPT ![c].ctx.ip = ip, ![c].pc = "pick",
                            ![c].resolved = TRUE]
    /\ UNCHANGED <<conf, handlers, changes, alive, probes, counter, draws>>

(***************************************************************************)
(* pick_outbound_tag up to the balancer's draw.  Without a rule, the first *)
(* pass under IpIfNonMatch goes on to resolve the domain and tries again.  *)
(* A balancer without candidates and without fallback leaves its own tag.  *)
(***************************************************************************)
pick_outbound_tag(c) ==
    LET rule == pick_route(conn[c].ctx)
        tag == IF rule = 0 THEN NoTag ELSE Conf.rules[rule].tag
        again == /\ rule = 0 /\ Conf.strategy = "IpIfNonMatch"
                 /\ ~conn[c].resolved /\ Resolvable(conn[c].ctx)
        fallback == Conf.balancers[tag].fallback
    IN  /\ conn[c].pc = "pick"
        /\ \/ /\ again
              /\ conn' = [conn EXCEPT ![c].pc = "resolve"]
           \/ /\ ~again /\ tag \notin Balancers
              /\ conn' = [conn EXCEPT ![c].pc = "lookup", ![c].rule = rule,
                                      ![c].tag = tag]
           \/ /\ tag \in Balancers /\ Candidates(tag) = <<>>
              /\ conn' = [conn EXCEPT ![c].pc = "lookup", ![c].rule = rule,
                            ![c].tag = IF fallback = NoTag THEN tag ELSE fallback]
           \/ /\ tag \in Balancers /\ Candidates(tag) # <<>>
              /\ conn' = [conn EXCEPT ![c].pc = "draw", ![c].rule = rule,
                            ![c].tag = tag, ![c].candidates = Candidates(tag)]
        /\ UNCHANGED <<conf, handlers, changes, alive, probes, counter, draws>>

BugDrawNumber(b) == counter

DrawNumber(b) == [counter EXCEPT ![b] = @ + 1]

Counted(b) == Conf.balancers[b].strategy \in {"roundRobin", "leastPing"}

(* The rest of Balancer::pick, after the alive set is unlocked: round      *)
(* robin and leastPing take the next number, random any candidate,         *)
(* leastLoad the first (no metrics or costs are ever supplied).            *)
draw(c, k) ==
    LET b == conn[c].tag
        candidates == conn[c].candidates
    IN  /\ conn[c].pc = "draw"
        /\ k \in DOMAIN candidates
        /\ Counted(b) => k = (counter[b] % Len(candidates)) + 1
        /\ Conf.balancers[b].strategy = "leastLoad" => k = 1
        /\ conn' = [conn EXCEPT ![c].pc = "lookup", ![c].tag = candidates[k]]
        /\ counter' = IF Counted(b) THEN DrawNumber(b) ELSE counter
        /\ draws' = IF ~Counted(b) THEN draws ELSE
              draws \cup {[balancer |-> b, number |-> counter[b], conn |-> c,
                           candidates |-> candidates, tag |-> candidates[k]]}
        /\ UNCHANGED <<conf, handlers, changes, alive, probes>>

(* The outbounds the session may be given to: the one with its tag, or,    *)
(* without a tag, whichever the map of handlers yields first.              *)
Lookup(c) ==
    IF conn[c].tag = NoTag THEN DOMAIN handlers
    ELSE DOMAIN handlers \cap {conn[c].tag}

Loops(c, tag) == tag \in DOMAIN Conf.loopback /\ ~conn[c].session.udp

(***************************************************************************)
(* The end of routed_dispatch and dispatch_udp: a handler takes the        *)
(* session, or there is none.  A loopback outbound dispatches the session  *)
(* again under another inbound tag; over UDP it only drains the link.      *)
(***************************************************************************)
handover(c, tag, busy) ==
    /\ conn[c].pc = "lookup" /\ tag \in Lookup(c)
    /\ \/ /\ ~Loops(c, tag)
          /\ conn' = [conn EXCEPT ![c].pc = "serving", ![c].tag = tag,
                                  ![c].handler = handlers[tag]]
       \/ /\ Loops(c, tag) /\ conn[c].depth < MaxDepth
          /\ conn' = [conn EXCEPT ![c] =
                Enter([conn[c].session EXCEPT !.inbound_tag = Conf.loopback[tag]],
                      busy, conn[c].depth + 1)]
    /\ UNCHANGED <<conf, handlers, changes, alive, probes, counter, draws>>

fail(c) ==
    /\ conn[c].pc = "lookup" /\ Lookup(c) = {}
    /\ conn' = [conn EXCEPT ![c].pc = "failed"]
    /\ UNCHANGED <<conf, handlers, changes, alive, probes, counter, draws>>

-----------------------------------------------------------------------------
(* The API's add_outbound (which replaces a handler of the same tag) and   *)
(* remove_outbound.                                                        *)
add_handler(tag) ==
    /\ changes < MaxChanges
    /\ changes' = changes + 1
    /\ handlers' = [t \in DOMAIN handlers \cup {tag} |->
                      IF t = tag THEN changes + 1 ELSE handlers[t]]
    /\ UNCHANGED <<conf, alive, probes, counter, conn, draws>>

remove_handler(tag) ==
    /\ changes < MaxChanges /\ tag \in DOMAIN handlers
    /\ changes' = changes + 1
    /\ handlers' = [t \in DOMAIN handlers \ {tag} |-> handlers[t]]
    /\ UNCHANGED <<conf, alive, probes, counter, conn, draws>>

(* Observatory::run: one probe decides for every observed tag.             *)
probe(ok) ==
    /\ Conf.observed # {} /\ probes < MaxProbes
    /\ probes' = probes + 1
    /\ alive' = IF ok THEN alive \cup Conf.observed ELSE alive \ Conf.observed
    /\ conn' = [c \in Conns |-> IF conn[c].pc = "idle" THEN conn[c]
                   ELSE [conn[c] EXCEPT !.seen = @ \cup alive']]
    /\ UNCHANGED <<conf, handlers, changes, counter, draws>>

-----------------------------------------------------------------------------
DispatchInit ==
    /\ conf \in DOMAIN Confs
    /\ handlers = [t \in Conf.outbounds |-> 0]
    /\ changes = 0
    /\ alive = Conf.observed
    /\ probes = 0
    /\ counter = [b \in Balancers |-> 0]
    /\ conn = [c \in Conns |-> Idle]
    /\ draws = {}

Advance(c) ==
    \/ \E ip \in Addresses \cup {NoneSuch} : resolve_context(c, ip)
    \/ pick_outbound_tag(c)
    \/ \E k \in 1 .. Cardinality(Tags) : draw(c, k)
    \/ \E tag \in Tags, busy \in BOOLEAN : handover(c, tag, busy)
    \/ fail(c)

Control ==
    \/ \E tag \in Tags : add_handler(tag) \/ remove_handler(tag)
    \/ \E ok \in BOOLEAN : probe(ok)

DispatchNext ==
    \/ \E c \in Conns :
          \/ \E session \in Sessions, busy \in BOOLEAN : dispatch(c, session, busy)
          \/ Advance(c)
    \/ Control

DispatchSpec == DispatchInit /\ [][DispatchNext]_dispatchVars

-----------------------------------------------------------------------------
Stages == {"resolve", "pick", "draw", "lookup", "serving", "failed"}

(* The dispatcher's variables hold values of their types.  A served        *)
(* session names an outbound and the generation of the handler it got; a   *)
(* draw is only made among candidates.                                     *)
DispatchTypeOK ==
    /\ conf \in DOMAIN Confs
    /\ DOMAIN handlers \subseteq Tags
    /\ \A t \in DOMAIN handlers : handlers[t] \in 0 .. changes
    /\ changes \in 0 .. MaxChanges /\ probes \in 0 .. MaxProbes
    /\ alive \subseteq Conf.observed
    /\ counter \in [Balancers -> Nat]
    /\ \A c \in Conns : conn[c].pc # "idle" =>
          /\ conn[c].pc \in Stages
          /\ conn[c].rule \in 0 .. Len(Conf.rules)
          /\ conn[c].tag \in Tags \cup Balancers \cup {NoTag}
          /\ conn[c].depth \in 0 .. MaxDepth
          /\ conn[c].pc = "draw" => conn[c].candidates # <<>>
          /\ conn[c].pc = "serving" => conn[c].tag \in Tags
                                       /\ conn[c].handler \in 0 .. changes

Settled(c) == conn[c].pc \in {"serving", "failed"}

Hits(ctx) == {i \in DOMAIN Conf.rules :
                 matches(Conf.rules[i], ctx) /\ Conf.rules[i].tag # NoTag}

IsFirst(i, S) == i \in S /\ \A j \in S : i <= j

(* The rule that decides is the first one, in the order of the config,     *)
(* that matches.  The unresolved context has the last word wherever it     *)
(* matches anything, unless the strategy is IpOnDemand; and no resolvable  *)
(* session falls to the default under IpIfNonMatch or IpOnDemand before    *)
(* its domain was looked up.                                               *)
FirstRuleDecides ==
    \A c \in Conns : Settled(c) =>
        LET asked == Hits(conn[c].asked)
            final == IF conn[c].ctx = conn[c].asked THEN asked ELSE Hits(conn[c].ctx)
        IN  /\ conn[c].rule # 0 => IsFirst(conn[c].rule, final)
            /\ asked # {} /\ Conf.strategy # "IpOnDemand" =>
                  IsFirst(conn[c].rule, asked)
            /\ conn[c].rule = 0 => final = {}
            /\ conn[c].rule = 0 /\ Resolvable(conn[c].asked)
                  /\ Conf.strategy # "AsIs" => conn[c].resolved

(* A session some rule matched is served by the outbound of that rule, or  *)
(* by a member or the fallback of its balancer, even while outbounds come  *)
(* and go: when that outbound is gone the session fails, and never slips   *)
(* to the default outbound.                                                *)
NeverDefaultOnceMatched ==
    \A c \in Conns : conn[c].pc = "serving" /\ conn[c].rule # 0 =>
        LET tag == Conf.rules[conn[c].rule].tag
        IN  \/ conn[c].tag = tag
            \/ /\ tag \in Balancers
               /\ conn[c].tag \in Range(Conf.balancers[tag].selector)
                                \cup {Conf.balancers[tag].fallback}

(* Routing decides: the first matching rule chooses, and what it chose is  *)
(* what serves the session, or nothing does, while outbounds come and go.  *)
RoutingDecides == DispatchTypeOK /\ FirstRuleDecides /\ NeverDefaultOnceMatched

(* A balancer the observatory watches never sends a session to an outbound *)
(* that was down the whole time since the session was dispatched, except   *)
(* as its fallback.  (A probe between the read of the alive set and the    *)
(* hand-over may still go unnoticed.)                                      *)
DeadOutboundAvoided ==
    \A c \in Conns : conn[c].pc = "serving" /\ conn[c].rule # 0 =>
        LET b == Conf.rules[conn[c].rule].tag
        IN  b \in Balancers /\ Observed(b) =>
                conn[c].tag \in conn[c].seen \cup {Conf.balancers[b].fallback, b}

(* Sessions dispatched at the same time draw different numbers, and over   *)
(* any run of draws among the same candidates, each listed once, the round *)
(* robin balancer gives each of them its share, to within one.             *)
RoundRobinEven ==
    \A b \in Balancers :
        LET D == {d \in draws : d.balancer = b}
            Window(lo, hi) == {d \in D : d.number \in lo .. hi}
            Share(t, W) == Cardinality({d \in W : d.tag = t})
        IN  /\ Cardinality(D) = counter[b]
            /\ \A d, e \in D : d # e => d.number # e.number
            /\ \A lo \in 0 .. counter[b] : \A hi \in lo .. counter[b] - 1 :
                  LET W == Window(lo, hi)
                  IN  \A d \in W :
                        IsInjective(d.candidates) /\ (\A e \in W : e.candidates = d.candidates) =>
                          \A t, u \in Range(d.candidates) :
                             Share(t, W) <= Share(u, W) + 1
=============================================================================
