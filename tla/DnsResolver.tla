---------------------------- MODULE DnsResolver ----------------------------
(***************************************************************************)
(* The resolvers of astra-core-dns (UDP, TCP, DoH, DoQ and the system      *)
(* resolver): static hosts, the answer cache with its time to live, the    *)
(* order and the filters of the name servers, serial and parallel queries. *)
(*                                                                         *)
(* Tasks call resolve() concurrently on one resolver, whose configuration  *)
(* is chosen in the initial state.  Each query of one name server for one  *)
(* record type ends with a reply chosen by the environment: a network      *)
(* error or timeout, a reply without usable records, or addresses.         *)
(* Variants named Bug... are mistakes the properties below must notice; no *)
(* action uses them.                                                       *)
(***************************************************************************)
EXTENDS Integers, Sequences, FiniteSets, Functions

CONSTANTS
    Tasks,          \* concurrent calls of resolve()
    Spellings,      \* names as callers write them
    Normal,         \* trim_end_matches('.').to_lowercase(), on Spellings
    Configs,        \* resolver configurations explored
    Ips,            \* addresses a reply may bring, whatever was asked
    Ttl,            \* DEFAULT_TTL, in ticks
    MaxTime         \* bound: ticks explored

ASSUME DnsConstants == Ttl \in Nat \ {0} /\ MaxTime \in Nat

HostNames == {Normal[s] : s \in Spellings}

(* The name servers are a list, and a host that stands for another name    *)
(* names it in normal form.                                                *)
ASSUME ConfigsShape ==
    \A c \in Configs :
        /\ c.nameservers \in Seq(Range(c.nameservers))
        /\ \A d \in DOMAIN c.hosts : c.hosts[d].ips = {} => c.hosts[d].to \in HostNames

VARIABLES
    cfg,            \* the resolver's configuration, never changed
    now,            \* the clock, in ticks
    cache,          \* CacheController.records
    call            \* the state of each task's call

dnsVars == <<cfg, now, cache, call>>

Upstream == 0                   \* the one server of DoH, DoQ and the system
Hosts == -1                     \* an answer from the hosts table

NoCall == [pc |-> "idle"]
Failed == [ok |-> FALSE, ips |-> {}, from |-> Upstream, at |-> 0]

-----------------------------------------------------------------------------
(* StaticHosts::lookup_recursive follows at most six replacements; a chain *)
(* that leaves the table, or is longer, yields the last name reached.      *)
MaxHops == 6

NoName == ""
NotListed == [found |-> "no", ips |-> {}, name |-> NoName]

lookup_recursive(hosts, domain) ==
    LET chain[left \in 0 .. MaxHops] == [d \in HostNames |->
          IF left = 0 \/ d \notin DOMAIN hosts THEN NotListed
          ELSE IF hosts[d].ips # {}
               THEN [found |-> "ips", ips |-> hosts[d].ips, name |-> d]
          ELSE LET rest == chain[left - 1][hosts[d].to]
               IN  IF rest = NotListed
                   THEN [found |-> "name", ips |-> {}, name |-> hosts[d].to]
                   ELSE rest]
    IN  chain[MaxHops][domain]

(* A server without patterns serves every name; a regexp pattern matches   *)
(* none.                                                                   *)
matches_domain(ns, domain) ==
    \/ ns.domains = {}
    \/ \E p \in ns.domains : p.prefix # "regexp" /\ domain \in p.names

Servers == DOMAIN cfg.nameservers
Matched(domain) == {s \in Servers : matches_domain(cfg.nameservers[s], domain)}
InOrder(S) == [i \in 1 .. Cardinality(S) |->
                 CHOOSE s \in S : Cardinality({r \in S : r < s}) = i - 1]
HasFinal(domain) == \E s \in Matched(domain) : cfg.nameservers[s].final

BugSortIgnoresSkip(domain) ==
    InOrder(Matched(domain)) \o
    IF HasFinal(domain) THEN <<>>
    ELSE InOrder(Servers \ Matched(domain))

(* The servers that match the name, in configured order, then the others   *)
(* unless they skip fallback or a matching one is final.                   *)
sort_clients_by_domain(domain) ==
    InOrder(Matched(domain)) \o
    IF HasFinal(domain) THEN <<>>
    ELSE InOrder({s \in Servers \ Matched(domain) :
                     ~cfg.nameservers[s].skip_fallback})

FallbackDisabled(domain) ==
    /\ cfg.kind = "udp"
    /\ cfg.disable_fallback \/ (cfg.disable_fallback_if_match /\ Matched(domain) # {})
    /\ ~HasFinal(domain)

(* Who is asked, in which order: only the UDP resolver honours the         *)
(* disable_fallback switches; DoH, DoQ and the system have one server.     *)
UdpServers(domain) ==
    IF FallbackDisabled(domain) THEN InOrder(Matched(domain))
    ELSE sort_clients_by_domain(domain)

TcpServers(domain) == sort_clients_by_domain(domain)

UpstreamOnly == <<Upstream>>

ServersToAsk(domain) ==
    CASE cfg.kind = "udp" -> UdpServers(domain)
      [] cfg.kind = "tcp" -> TcpServers(domain)
      [] OTHER -> UpstreamOnly

filter_expected(ips, s) ==
    IF cfg.kind \in {"udp", "tcp"} /\ cfg.nameservers[s].expected_ips # {}
    THEN ips \cap cfg.nameservers[s].expected_ips
    ELSE ips

dns_query_types == cfg.qtypes

(* SimpleDnsResolver asks the operating system once and has no cache.      *)
SystemLookup == cfg.kind = "simple"

-----------------------------------------------------------------------------
(* CacheController::find; serve_stale is off in every resolver.            *)
BugFindAnyAge(domain) ==
    IF ~cfg.disable_cache /\ domain \in DOMAIN cache
    THEN {cache[domain]} ELSE {}

find(domain) ==
    IF ~cfg.disable_cache /\ domain \in DOMAIN cache /\ cache[domain].expiry > now
    THEN {cache[domain]} ELSE {}

(* CacheController::update.                                                *)
update(domain, answer) ==
    IF cfg.disable_cache THEN cache
    ELSE [d \in DOMAIN cache \cup {domain} |->
            IF d = domain
            THEN [ips |-> answer.ips, expiry |-> now + Ttl, from |-> answer.from,
                  at |-> now]
            ELSE cache[d]]

(* A finished call; `order` remembers the servers it chose, `got` what the *)
(* ones whose turn was over had brought.                                   *)
Done(domain, answer, order, got) ==
    [pc |-> "done", domain |-> domain, answer |-> answer, order |-> order,
     got |-> got, served |-> now]

(***************************************************************************)
(* resolve() up to its first query: hosts, then the cache, then the list   *)
(* of servers.  An empty list ends the call at once.                       *)
(***************************************************************************)
Resolve(t, spelling) ==
    LET host == lookup_recursive(cfg.hosts, Normal[spelling])
        domain == IF host.found = "name" THEN host.name ELSE Normal[spelling]
        order == ServersToAsk(domain)
    IN  /\ call[t].pc = "idle"
        /\ \/ /\ host.found = "ips"
              /\ call' = [call EXCEPT ![t] = Done(domain,
                    [ok |-> TRUE, ips |-> host.ips, from |-> Hosts, at |-> now],
                    <<>>, <<>>)]
           \/ /\ host.found # "ips" /\ ~SystemLookup
              /\ \E rec \in find(domain) :
                    call' = [call EXCEPT ![t] = Done(domain,
                        [ok |-> TRUE, ips |-> rec.ips, from |-> rec.from,
                         at |-> rec.at], <<>>, <<>>)]
           \/ /\ host.found # "ips"
              /\ SystemLookup \/ find(domain) = {}
              /\ call' = [call EXCEPT ![t] =
                    IF order = <<>> THEN Done(domain, Failed, <<>>, <<>>)
                    ELSE [pc |-> "query", domain |-> domain, order |-> order,
                          q |-> [s \in Range(order) |-> 1],
                          got |-> [s \in Range(order) |-> {}],
                          over |-> {}]]
        /\ UNCHANGED <<cfg, now, cache>>

Parallel == cfg.enable_parallel /\ cfg.kind \in {"udp", "tcp"}

Before(order, s) ==
    {order[i] : i \in 1 .. (CHOOSE k \in DOMAIN order : order[k] = s) - 1}

(* The servers with a query outstanding: all of them in a parallel lookup, *)
(* the first one that has not failed in a serial lookup.                   *)
Asking(c) ==
    {s \in Range(c.order) \ c.over :
        Parallel \/ \A b \in Before(c.order, s) : b \in c.over /\ c.got[b] = {}}

(* A useful answer ends a server's turn, otherwise its next record type is *)
(* tried; a DoH network error and a system lookup (which finds an address  *)
(* or fails) end the turn as well.                                         *)
TurnOver(c, s, net, useful) ==
    \/ useful # {}
    \/ c.q[s] = Len(dns_query_types)
    \/ cfg.kind = "doh" /\ net
    \/ SystemLookup

(***************************************************************************)
(* One query ends (resolve_udp, resolve_tcp, the DoH POST, quic_or_tcp or  *)
(* lookup_host) of a server in Asking(call[t]): "net" is a network error   *)
(* or a timeout, no address a reply parse_dns_response rejects.            *)
(***************************************************************************)
Reply(t, s, net, ips) ==
    LET c == call[t]
        useful == filter_expected(ips, s)
        over == TurnOver(c, s, net, useful)
    IN  /\ call' = [call EXCEPT ![t] = [c EXCEPT
              !.got[s] = useful,
              !.over = IF over THEN @ \cup {s} ELSE @,
              !.q[s] = IF over THEN @ ELSE @ + 1]]
        /\ UNCHANGED <<cfg, now, cache>>

BugWaitsForAnswer(c) == \E s \in c.over : c.got[s] # {}

(* A serial lookup stops at the first useful answer, a parallel one joins  *)
(* all its queries.                                                        *)
QueriesOver(c) ==
    \/ c.over = Range(c.order)
    \/ ~Parallel /\ \E s \in c.over : c.got[s] # {}

(* The servers whose turn brought a useful answer.                         *)
Winners(c) == {s \in c.over : c.got[s] # {}}

(***************************************************************************)
(* The rest of do_nameserver_lookup / do_lookup: the answer of the first   *)
(* server in order that had one is cached and returned.  A lookup confined *)
(* to the matching servers, and the system resolver, return without        *)
(* caching.                                                                *)
(***************************************************************************)
Finish(t) ==
    LET c == call[t]
        first == CHOOSE s \in Winners(c) : Before(c.order, s) \cap Winners(c) = {}
        answer == IF Winners(c) = {} THEN Failed
                  ELSE [ok |-> TRUE, ips |-> c.got[first], from |-> first,
                        at |-> now]
        cached == answer.ok /\ ~SystemLookup /\ ~FallbackDisabled(c.domain)
    IN  /\ c.pc = "query" /\ QueriesOver(c)
        /\ call' = [call EXCEPT ![t] = Done(c.domain, answer, c.order,
                                            Restrict(c.got, c.over))]
        /\ cache' = IF cached THEN update(c.domain, answer) ELSE cache
        /\ UNCHANGED <<cfg, now>>

(* The caller takes the result and may call again.                         *)
Return(t) ==
    /\ call[t].pc = "done"
    /\ call' = [call EXCEPT ![t] = NoCall]
    /\ UNCHANGED <<cfg, now, cache>>

Tick ==
    /\ now < MaxTime
    /\ now' = now + 1
    /\ UNCHANGED <<cfg, cache, call>>

-----------------------------------------------------------------------------
DnsInit ==
    /\ cfg \in Configs
    /\ now = 0
    /\ cache = << >>
    /\ call = [t \in Tasks |-> NoCall]

AnyReply(t) ==
    /\ call[t].pc = "query"
    /\ \E s \in Asking(call[t]) :
          \/ Reply(t, s, TRUE, {})
          \/ \E ips \in SUBSET Ips : Reply(t, s, FALSE, ips)

DnsStep(t) ==
    \/ \E spelling \in Spellings : Resolve(t, spelling)
    \/ AnyReply(t) \/ Finish(t) \/ Return(t)

DnsNext == Tick \/ \E t \in Tasks : DnsStep(t)

DnsSpec == DnsInit /\ [][DnsNext]_dnsVars

-----------------------------------------------------------------------------
HostIps == UNION {h.ips : h \in Range(cfg.hosts)}
Answer == [ok : BOOLEAN, ips : SUBSET (Ips \cup HostIps),
           from : Servers \cup {Upstream, Hosts}, at : 0 .. MaxTime]

(* The resolver's variables hold values of their types; an answer that is  *)
(* Ok is never empty (the dispatcher takes its first address).             *)
DnsTypeOK ==
    /\ cfg \in Configs /\ now \in 0 .. MaxTime
    /\ DOMAIN cache \subseteq HostNames
    /\ \A d \in DOMAIN cache : cache[d].ips # {} /\ cache[d].at <= now
    /\ \A t \in Tasks :
          /\ call[t].pc \in {"idle", "query", "done"}
          /\ call[t].pc = "done" =>
                /\ call[t].answer \in Answer
                /\ call[t].answer.ok => call[t].answer.ips # {}

Answered(t) == call[t].pc = "done" /\ call[t].answer.ok

(* A name is only ever answered, directly or out of the cache, by a server *)
(* configured for it, or by a fallback server where neither skip_fallback, *)
(* a final ("+") match nor the UDP resolver's disable_fallback switches    *)
(* forbid it.                                                              *)
OnlyAllowedServersAnswer ==
    \A t \in Tasks : Answered(t) /\ call[t].answer.from \in Servers =>
        LET d == call[t].domain
            s == call[t].answer.from
        IN  \/ s \in Matched(d)
            \/ /\ ~cfg.nameservers[s].skip_fallback
               /\ ~HasFinal(d)
               /\ ~FallbackDisabled(d)

(* A lookup's answer is that of the first server, in configured order,     *)
(* that has one: every server before it was asked and failed, also when    *)
(* the queries run in parallel and a later server is faster.               *)
FirstServerWins ==
    \A t \in Tasks : Answered(t) /\ call[t].order # <<>> =>
        \A b \in Before(call[t].order, call[t].answer.from) :
            b \in DOMAIN call[t].got /\ call[t].got[b] = {}

(* A query's answer comes from a server that may answer for the name, and  *)
(* among those from the first in configured order that has one, also when  *)
(* the queries run in parallel and a later server is faster; an answer     *)
(* that is Ok has an address, the dispatcher takes its first one unasked.  *)
RightServerAnswers ==
    DnsTypeOK /\ OnlyAllowedServersAnswer /\ FirstServerWins

(* An answer out of the cache was fetched less than a time to live before  *)
(* it is served, whichever of several lookups of the name cached it.       *)
CacheServesFresh ==
    \A t \in Tasks : Answered(t) =>
        call[t].served - call[t].answer.at < Ttl

(* Every call of resolve() returns.                                        *)
EveryResolveReturns ==
    \A t \in Tasks : call[t].pc = "query" ~> call[t].pc = "done"
=============================================================================
