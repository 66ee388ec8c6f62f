------------------------------ MODULE MCLinks ------------------------------
(* The links that must make progress, for TLC: reverse bridge and portal,  *)
(* mKCP, Hysteria, the helpers of astra-core-common and the monitors.      *)
(* They share no state here, so `side` picks in the initial state what a   *)
(* behaviour is about, and the variables of the other sides stand still.   *)
EXTENDS ReverseBridge, ReversePortal, Kcp, Hysteria, Common, Monitor

VARIABLE side
Sides == {"bridge", "portal", "kcp", "pool", "hstream", "brutal", "common", "monitor"}

MCProbeMethods == {<<"tcp", "">>, <<"http", "">>, <<"tcp", "https">>}
MCRates == {<<1000, "bps">>, <<2, "kbps">>, <<0, "bps">>}

IdleHStream == HStreamInit /\ hmode = "tcp"
IdleBrutal == BrutalInit /\ rate = <<0, "bps">>
IdleCommon == CommonInit /\ prim = "done"
IdleMonitor == MonitorInit /\ mpart = "online"

LinksInit ==
    /\ side \in Sides
    /\ BridgeInit /\ PortalInit /\ KcpInit /\ PoolInit
    /\ IF side = "hstream" THEN HStreamInit ELSE IdleHStream
    /\ IF side = "brutal" THEN BrutalInit ELSE IdleBrutal
    /\ IF side = "common" THEN CommonInit ELSE IdleCommon
    /\ IF side = "monitor" THEN MonitorInit ELSE IdleMonitor

reverseVars == <<bridgeVars, portalVars>>
hysteriaVars == <<poolVars, hstreamVars, brutalVars>>
helperVars == <<prim, primVars, monVars>>
linkVars == <<side, reverseVars, kcpVars, hysteriaVars, helperVars>>

Reversing ==
    /\ \/ side = "bridge" /\ BridgeNext /\ UNCHANGED portalVars
       \/ side = "portal" /\ PortalNext /\ UNCHANGED bridgeVars
    /\ UNCHANGED <<side, kcpVars, hysteriaVars, helperVars>>
MKcp ==
    /\ side = "kcp" /\ KcpNext
    /\ UNCHANGED <<side, reverseVars, hysteriaVars, helperVars>>
Hysteria2 ==
    /\ \/ side = "pool" /\ PoolNext /\ UNCHANGED <<hstreamVars, brutalVars>>
       \/ side = "hstream" /\ HStreamNext /\ UNCHANGED <<poolVars, brutalVars>>
       \/ side = "brutal" /\ BrutalNext /\ UNCHANGED <<poolVars, hstreamVars>>
    /\ UNCHANGED <<side, reverseVars, kcpVars, helperVars>>
Helping ==
    /\ \/ side = "common" /\ CommonNext /\ UNCHANGED monVars
       \/ side = "monitor" /\ MonitorNext /\ UNCHANGED <<prim, primVars>>
    /\ UNCHANGED <<side, reverseVars, kcpVars, hysteriaVars>>

LinksNext == Reversing \/ MKcp \/ Hysteria2 \/ Helping

(* The fairness of each module, on its own side: elsewhere its actions do  *)
(* not happen.                                                             *)
LinksSpec ==
    /\ LinksInit /\ [][LinksNext]_linkVars
    /\ WF_bridgeVars(side = "bridge" /\ (MainDial \/ MainOff))
    /\ WF_bridgeVars(side = "bridge" /\ Worker)
    /\ WF_bridgeVars(side = "bridge" /\ ReadLoop)
    /\ WF_bridgeVars(side = "bridge" /\ (BridgeMonitorTick \/ BridgeMonitorClose))
    /\ \A c \in Calls : WF_portalVars(side = "portal" /\ PortalStep(c))
    /\ KcpFair
    /\ WF_brutalVars(side = "brutal" /\ OnAck)
    /\ WF_<<prim, primVars>>(side = "common" /\ CommonNext /\ prim = "done" /\ DoneSteps)
    /\ WF_monVars(side = "monitor" /\ mpart = "observatory" /\ ProbeGoesOn
                  /\ UNCHANGED <<mpart, pingVars, ringVars, statVars, online, tick>>)

Waiting ==
    \/ side = "bridge" /\ Unattached # {}
    \/ side = "portal" /\ Inside # {}
    \/ side = "kcp" /\ KcpUnacknowledged
    \/ side = "brutal" /\ BelowRate
    \/ side = "common" /\ Unreleased # {}
    \/ side = "monitor" /\ Probing

(* Nobody waits for ever.  A session in a bridge's table is attached,      *)
(* ended or lost with the connection; every call of a portal's process()   *)
(* returns, a relay that holds the picker's lock delaying the others only  *)
(* while it lasts; an mKCP segment that the reader has is acknowledged     *)
(* although its copies are dropped in silence; Brutal's window climbs back *)
(* to the configured rate after the last loss, the last few bytes          *)
(* included; Done::close releases every waiter, also one between its two   *)
(* looks at the flag; and every probe comes to a verdict, also against a   *)
(* server that never ends its header.                                      *)
WaitingEnds == []<>~Waiting

(* A session in the bridge's table that nobody has attached to is one its  *)
(* worker still has to look at, however ids are ended and used again.      *)
BridgeForgetsNone == BridgeTypeOK /\ NoForgottenSession

(* The helpers keep their contracts: a timer fires for idleness at most    *)
(* once, a closed Periodic stops, parallel_for_n calls every index once,   *)
(* the LRU cache evicts the key used longest ago, and a dual-stack dial    *)
(* gives up only after trying every address, the families in turn.         *)
HelpersSound ==
    TimerFiresOnce /\ ClosedPeriodicStops /\ EveryIndexOnce /\ CacheIsLru /\ EveryAddressTried

(* The figures agree with what happened: cached round-trip statistics with *)
(* the ring, counters with what the relays added and resets took, the      *)
(* time a user was last seen with one of the user's addresses.             *)
MonitorExact == StatsCurrent /\ StatsConserved /\ OnlineHasAddress
=============================================================================
