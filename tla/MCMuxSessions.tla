---------------------------- MODULE MCMuxSessions ----------------------------
(* MuxSessions for TLC: a strategy with both limits below the id space, and *)
(* the default's shape, a concurrency limit only.                          *)
EXTENDS MuxSessions

MCStrategies ==
    {[max_concurrency |-> 2, max_connection |-> 3],
     [max_concurrency |-> 2, max_connection |-> 0]}
=============================================================================
