----------------------------- MODULE MCServices -----------------------------
(***************************************************************************)
(* The services on small instances, for TLC.                                *)
(***************************************************************************)
EXTENDS Services, TLC

MCQueue == [Priorities |-> {0, 10, 20}, MaxJobs |-> 5]

\* A path all may ask for, one of a system, and another.
MCCache ==
  [Requests |-> {"r1", "r2", "r3"},
   Paths |-> {<<"v1", "Chassis">>, <<"v1", "Managers">>, <<"v1", "Systems", "vm">>},
   Asks |-> "r1" :> {<<"v1", "Chassis">>} @@ "r2" :> {<<"v1", "Chassis">>, <<"v1", "Systems", "vm">>}
            @@ "r3" :> {<<"v1", "Chassis">>, <<"v1", "Managers">>},
   Tags |-> "r1" :> {} @@ "r2" :> {0} @@ "r3" :> {},
   MaxEntries |-> 1, TTL |-> 1, MaxHandling |-> 0, MaxVersion |-> 1, MaxWrites |-> 1,
   MaxTime |-> 3]

\* One object is stored in every tier; a second access carries it up.
MCTiers ==
  [Keys |-> {"k1", "k2"}, Objects |-> {1, 2}, Getters |-> {"g1"},
   Home |-> [k \in {"k1", "k2"} |-> 3], MaxEntries |-> [t \in 1..3 |-> 1],
   Promote |-> [t \in 2..3 |-> 1], TTL |-> 1, MaxCount |-> 2, MaxTime |-> 1]

MCPools == [Calls |-> {"c1", "c2", "c3"}, MaxBuffers |-> 2, MaxEncoders |-> 1]

MCClients == [Users |-> {"u1", "u2", "u3"}, maxSize |-> 2, MaxCreated |-> 5]

MCLimiter ==
  [Requests |-> {"r1", "r2", "r3"},
   Route |-> "r1" :> <<"ip1">> @@ "r2" :> <<"ip1", "ep1">> @@ "r3" :> <<"user1", "ip1">>,
   BurstSize |-> 1, Rate |-> 1, MaxResets |-> 1, MaxTime |-> 1]

\* The multiplier is 2; a Duration has eight bits.
MCRetry ==
  [Calls |-> {"c1", "c2"}, MaxAttempts |-> 7, InitialDelay |-> 5, MaxDelay |-> 40,
   Multiplier |-> <<2, 1>>, JitterPercent |-> 20, Half |-> 128, MaxResets |-> 1,
   Strategies |-> {"Exponential", "Linear", "Constant", "Fibonacci"}]
=============================================================================
