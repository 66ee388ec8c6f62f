----------------------------- MODULE MCDispatch -----------------------------
(* Instances of Dispatch for TLC.                                          *)
EXTENDS Dispatch, TLC

On(field, value) == [field |-> field, values |-> {value}]
Rule(conditions, tag) == [conditions |-> conditions, tag |-> tag]

Session(domain, ip, inbound, udp) ==
    [domain |-> domain, ip |-> ip, port |-> 443, source_ip |-> "home", source_port |-> 1,
     inbound_tag |-> inbound, protocol |-> NoneSuch,
     attributes |-> << >>, udp |-> udp]
Site == <<"www", "site", "org">>
Under(name) == [kind |-> "subdomain", name |-> name]
Exactly(name) == [kind |-> "exact", name |-> name]

(* a name to resolve, a plain address, a fake address                      *)
MCSessions == { Session(Site, NoneSuch, "in", FALSE),
                Session(NoneSuch, "ip1", "in", TRUE),
                Session(NoneSuch, "fake", "in", FALSE) }

MCBalancers ==
    "bal" :> [selector |-> <<"x", "y">>, strategy |-> "roundRobin",
              fallback |-> NoTag]

Base ==
    [strategy |-> "AsIs", dns |-> TRUE, fake_dns |-> "fake" :> Site,
     rules |-> << Rule({}, "x"), Rule({On("process", "curl")}, "x"),
                  Rule({On("domain", Under(<<"site", "org">>)), On("source_ip", {"home"})}, "bal"),
                  Rule({On("ip", {"ip1"})}, "y") >>,
     balancers |-> MCBalancers, observed |-> {"x", "y"},
     outbounds |-> {"x", "y"}, loopback |-> << >>]

(* IpIfNonMatch with a user rule, which never matches                      *)
NonMatch ==
    [Base EXCEPT !.strategy = "IpIfNonMatch", !.observed = {"x"},
        !.rules = << Rule({On("user", "u")}, "x"), Rule({On("ip", {"ip1"})}, "bal"),
                     Rule({On("ip", {"ip2"})}, NoTag) >>,
        !.balancers = "bal" :> [selector |-> <<"x", "y">>, strategy |-> "leastLoad",
                                fallback |-> "y"]]

(* IpOnDemand: the address rule comes before the domain rule, and rules    *)
(* that must not match come between them                                   *)
OnDemand ==
    [Base EXCEPT !.strategy = "IpOnDemand", !.observed = {},
        !.rules = << Rule({On("ip", {"ip2"}), On("port", <<1, 443>>)}, "bal"),
                     Rule({On("port", <<444, 500>>)}, "y"),
                     Rule({On("domain", Exactly(<<"site", "org">>))}, "y"),
                     Rule({[field |-> "domain",
                            values |-> {[kind |-> "keyword", labels |-> {"sites"}],
                                        [kind |-> "regexp", names |-> {<<"org">>}]}]}, "y"),
                     Rule({On("attributes", [key |-> "path", values |-> {"/"}])}, "y"),
                     Rule({On("domain", Exactly(<<"www", "site", "org", "">>))}, "x") >>,
        !.balancers = "bal" :> [selector |-> <<"x", "y">>, strategy |-> "random",
                                fallback |-> NoTag]]

(* "x" loops back under the inbound tag "again"                            *)
Loop ==
    [Base EXCEPT !.observed = {"y"}, !.loopback = "x" :> "again", !.dns = FALSE,
        !.rules = << Rule({On("inbound_tag", "again")}, "bal"),
                     Rule({On("inbound_tag", "in")}, "x") >>,
        !.balancers = "bal" :> [selector |-> <<"y">>, strategy |-> "leastPing",
                                fallback |-> NoTag]]

MCConfs == [base |-> Base, non_match |-> NonMatch, on_demand |-> OnDemand, loop |-> Loop]

(* the sessions are interchangeable                                       *)
MCSymmetry == Permutations(Conns)
=============================================================================
