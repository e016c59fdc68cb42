---------------------------- MODULE MCProbeRounds ----------------------------
EXTENDS ProbeRounds, TLC
CONSTANTS a1, a2

MCIdOrder == (a1 :> 1) @@ (a2 :> 2)
MCAge == (a1 :> 3) @@ (a2 :> 14)

MCCard == (a1 :> [latency |-> 900, retryAfter |-> 60000, online |-> TRUE, skills |-> 3])
       @@ (a2 :> [latency |-> 20000, retryAfter |-> 5000, online |-> TRUE, skills |-> 0])

\* a1 serves its card; a2 throttles the probe and then times out.
MCAnswers == (a1 :> {<<"card", "card">>}) @@ (a2 :> {<<"throttled", "timeout">>})

\* No events; a mint and a sale of today in one transaction.
MCActivity == {{}, {[tx |-> 1, from |-> 0, to |-> 7, days |-> 0],
                    [tx |-> 1, from |-> 7, to |-> 8, days |-> 0]}}
==============================================================================
