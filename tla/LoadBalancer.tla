---------------------------- MODULE LoadBalancer ----------------------------
(***************************************************************************)
(* The load balancer of pyAPI (main.py, class LoadBalancer) and the        *)
(* endpoints that select a server, change the strategy, the health and the *)
(* weight of a server and reset it.                                        *)
(*                                                                         *)
(* Granularity.  Every endpoint runs without an await and is one step; the *)
(* batch endpoint is a number of selections in a row.  The servers are the *)
(* ones init_mock_servers adds: add_server and remove_server have no other *)
(* caller.  The request counters are only reported and are left out.       *)
(*                                                                         *)
(* A definition whose comment begins with "Faulty" is not the code: it is  *)
(* a plausible mistake in the definition that follows it, kept to show     *)
(* which property would notice the mistake.                                *)
(***************************************************************************)
EXTENDS Naturals, Sequences, FiniteSetsExt

CONSTANTS N,           \* the number of servers
          MaxWeight,   \* the greatest weight that set_server_weight accepts
          Weights,     \* the weights of init_mock_servers
          RRPeriod     \* a multiple of every number of healthy servers

ASSUME ServersAssumption ==
    /\ N \in Nat \ {0}
    /\ MaxWeight \in Nat \ {0}
    /\ Weights \in [1..N -> 1..MaxWeight]

\* The round-robin index is used only modulo the number of healthy servers,
\* so it is kept modulo a common multiple of these.
ASSUME PeriodAssumption == RRPeriod \in Nat \ {0} /\ \A n \in 1..N : RRPeriod % n = 0

Strategies == {"ROUND_ROBIN", "RANDOM", "LEAST_CONNECTIONS", "WEIGHTED_ROUND_ROBIN"}

Nobody == 0

VARIABLES
    strategy,         \* self.strategy
    is_healthy,       \* of each server
    weight,           \* of each server
    rr_index,         \* self._round_robin_index
    weighted_index,   \* self._weighted_index
    current_weight,   \* self._current_weight
    selected,         \* the answer to the last selection
    recent            \* history: the latest selections since anything else
                      \* was changed (see Remember)

vars == <<strategy, is_healthy, weight, rr_index, weighted_index, current_weight,
          selected, recent>>

Init ==
    /\ strategy = "ROUND_ROBIN"
    /\ is_healthy = [s \in 1..N |-> TRUE]
    /\ weight = Weights
    /\ rr_index = 0
    /\ weighted_index = 0
    /\ current_weight = 0
    /\ selected = Nobody
    /\ recent = <<>>

\* get_healthy_servers, in the order of the list: the ones among the first n.
Healthy ==
    LET first[n \in 0..N] == IF n = 0 THEN <<>>
                             ELSE IF is_healthy[n] THEN Append(first[n - 1], n)
                             ELSE first[n - 1]
    IN  first[N]

-----------------------------------------------------------------------------
(* How often each healthy server should be selected in one round, and the  *)
(* selections of the latest round.                                         *)

Share(s) == IF strategy = "WEIGHTED_ROUND_ROBIN" THEN weight[s] ELSE 1

Round ==
    LET sum[n \in 0..N] == IF n = 0 THEN 0
                           ELSE IF is_healthy[n] THEN sum[n - 1] + Share(n) ELSE sum[n - 1]
    IN  sum[N]

LastOf(q, n) == IF Len(q) <= n THEN q ELSE SubSeq(q, Len(q) - n + 1, Len(q))

\* The weighted strategy starts, after a reset too, with current_weight = 0
\* and hands out a first partial round whatever the weights.  Those
\* selections are not recorded, nor are those of the other strategies, which
\* have no rounds.
Remember(s) ==
    recent' = IF \/ strategy = "ROUND_ROBIN"
                 \/ strategy = "WEIGHTED_ROUND_ROBIN" /\ current_weight' # 0
              THEN LastOf(Append(recent, s), Round) ELSE <<>>

-----------------------------------------------------------------------------
(* The strategies.                                                         *)

RoundRobin(h) ==
    /\ selected' = h[(rr_index % Len(h)) + 1]
    /\ rr_index' = (rr_index + 1) % RRPeriod
    /\ UNCHANGED <<weighted_index, current_weight>>

Random(h) ==
    /\ \E i \in 1..Len(h) : selected' = h[i]
    /\ UNCHANGED <<rr_index, weighted_index, current_weight>>

\* min over active_connections gives the first of the smallest; nothing
\* increments active_connections, so all are 0.
LeastConnections(h) ==
    /\ selected' = Head(h)
    /\ UNCHANGED <<rr_index, weighted_index, current_weight>>

GreatestWeight(h) == Max({weight[h[i]] : i \in 1..Len(h)})

\* Faulty: the current weight is not lowered.
AdvanceKeepsWeight(h, p) ==
    LET i == (p.i + 1) % Len(h)
    IN  [i |-> i, w |-> IF i = 0 /\ p.w = 0 THEN GreatestWeight(h) ELSE p.w]

\* Faulty: the round starts again one weight too early.
AdvanceSkipsOne(h, p) ==
    LET i == (p.i + 1) % Len(h)
    IN  [i |-> i,
         w |-> IF i # 0 THEN p.w ELSE IF p.w <= 2 THEN GreatestWeight(h) ELSE p.w - 1]

\* One turn of the loop of _weighted_round_robin: the next index, and a
\* lower weight each time the index wraps, down to 1 and then back to the
\* greatest weight.
Advance(h, p) ==
    LET i == (p.i + 1) % Len(h)
    IN  [i |-> i,
         w |-> IF i # 0 THEN p.w ELSE IF p.w <= 1 THEN GreatestWeight(h) ELSE p.w - 1]

\* bound: no loop needs more turns than this
Horizon == N * (MaxWeight + 1)

\* Where the loop is after n turns.
Turns(h) ==
    LET walk[n \in 0..Horizon] ==
            IF n = 0 THEN [i |-> weighted_index, w |-> current_weight]
                     ELSE Advance(h, walk[n - 1])
    IN  walk

\* The loop returns after turn n of the walk.
Returns(h, walk, n) == weight[h[walk[n].i + 1]] >= walk[n].w

\* A total weight of 0, for which the code falls back on round robin, does
\* not occur: weights are at least 1.
WeightedRoundRobin(h) ==
    LET walk == Turns(h)
    IN  \E n \in 1..Horizon :
           /\ Returns(h, walk, n)
           /\ \A m \in 1..n - 1 : ~Returns(h, walk, m)
           /\ weighted_index' = walk[n].i
           /\ current_weight' = walk[n].w
           /\ selected' = h[walk[n].i + 1]
           /\ UNCHANGED rr_index

-----------------------------------------------------------------------------
(* The endpoints.                                                          *)

\* POST /load-balancer/select: 503 when no server is healthy.
Select ==
    /\ \/ /\ Healthy # <<>>
          /\ \/ strategy = "ROUND_ROBIN" /\ RoundRobin(Healthy)
             \/ strategy = "RANDOM" /\ Random(Healthy)
             \/ strategy = "LEAST_CONNECTIONS" /\ LeastConnections(Healthy)
             \/ strategy = "WEIGHTED_ROUND_ROBIN" /\ WeightedRoundRobin(Healthy)
          /\ Remember(selected')
       \/ /\ Healthy = <<>>
          /\ selected' = Nobody
          /\ UNCHANGED <<rr_index, weighted_index, current_weight, recent>>
    /\ UNCHANGED <<strategy, is_healthy, weight>>

\* POST /load-balancer/strategy: the indices are left alone.
SetStrategy(x) ==
    /\ strategy' = x
    /\ recent' = <<>>
    /\ UNCHANGED <<is_healthy, weight, rr_index, weighted_index, current_weight, selected>>

\* POST /load-balancer/server/.../toggle
ToggleHealth(s) ==
    /\ is_healthy' = [is_healthy EXCEPT ![s] = ~@]
    /\ recent' = <<>>
    /\ UNCHANGED <<strategy, weight, rr_index, weighted_index, current_weight, selected>>

\* Faulty: the weight is added to the old one.
SetWeightAdds(s, w) ==
    /\ weight' = [weight EXCEPT ![s] = @ + w]
    /\ recent' = <<>>
    /\ UNCHANGED <<strategy, is_healthy, rr_index, weighted_index, current_weight, selected>>

\* POST /load-balancer/server/.../weight: a weight outside 1..MaxWeight is
\* refused with 400.
SetWeight(s, w) ==
    /\ weight' = [weight EXCEPT ![s] = w]
    /\ recent' = <<>>
    /\ UNCHANGED <<strategy, is_healthy, rr_index, weighted_index, current_weight, selected>>

\* POST /load-balancer/reset: health and weights are left alone.
Reset ==
    /\ rr_index' = 0
    /\ weighted_index' = 0
    /\ current_weight' = 0
    /\ recent' = <<>>
    /\ UNCHANGED <<strategy, is_healthy, weight, selected>>

Next ==
    \/ Select
    \/ \E x \in Strategies : SetStrategy(x)
    \/ \E s \in 1..N : ToggleHealth(s) \/ \E w \in 1..MaxWeight : SetWeight(s, w)
    \/ Reset

Spec == Init /\ [][Next]_vars

-----------------------------------------------------------------------------
(* Properties.                                                             *)

\* Types: in particular the weights stay in the range the endpoint accepts,
\* and current_weight never exceeds the greatest weight there can be.
TypeOK ==
    /\ strategy \in Strategies
    /\ is_healthy \in [1..N -> BOOLEAN]
    /\ weight \in [1..N -> 1..MaxWeight]
    /\ rr_index \in 0..RRPeriod - 1
    /\ weighted_index \in 0..N - 1
    /\ current_weight \in 0..MaxWeight
    /\ selected \in 0..N
    /\ recent \in Seq(1..N)

\* The loop of _weighted_round_robin, which runs while the lock is held and
\* has no exit but its return, ends: also right after the greatest weight
\* was lowered below current_weight or the healthy servers became fewer.
LoopEnds ==
    Healthy # <<>> =>
        LET h == Healthy
            walk == Turns(h)
        IN  \E n \in 1..Horizon : Returns(h, walk, n)

\* Round robin and weighted round robin are fair: in any round of selections
\* during which nothing else is changed each healthy server is selected once,
\* or as often as its weight, from whatever state earlier changes of health,
\* weights and strategy left behind.
FairShare ==
    (strategy \in {"ROUND_ROBIN", "WEIGHTED_ROUND_ROBIN"} /\ Len(recent) = Round) =>
        \A s \in 1..N : is_healthy[s] =>
            Cardinality({i \in 1..Len(recent) : recent[i] = s}) = Share(s)
=============================================================================
