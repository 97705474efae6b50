------------------------- MODULE LoadBalancerProofs -------------------------
(***************************************************************************)
(* Theorems about LoadBalancer, for every number of servers and all        *)
(* weights.                                                                *)
(***************************************************************************)
EXTENDS LoadBalancer, TLAPS, WellFoundedInduction, FiniteSetTheorems

-----------------------------------------------------------------------------
(* Numbers and recursion.                                                  *)

\* Of a set of numbers that is not empty one is the least.
LEMMA NatLeast ==
    ASSUME NEW T \in SUBSET Nat, T # {}
    PROVE  \E x \in T : \A y \in T : x <= y
  <1>1. PICK x \in T : \A y \in T : ~(<<y, x>> \in OpToRel(<, Nat))
    BY NatLessThanWellFounded, WFMin, Zenon
  <1>2. \A y \in T : ~(y < x)
    BY <1>1 DEF OpToRel
  <1>3. QED
    BY <1>2

\* Induction up to a number.
LEMMA UpTo ==
    ASSUME NEW M \in Nat, NEW a \in 0..M, NEW T \in SUBSET (a..M), a \in T,
           \A n \in a + 1..M : n - 1 \in T => n \in T
    PROVE  T = a..M
  <1> SUFFICES ASSUME a..M \ T # {} PROVE FALSE
    OBVIOUS
  <1>1. a..M \ T \in SUBSET Nat
    OBVIOUS
  <1>2. PICK x \in a..M \ T : \A y \in a..M \ T : x <= y
    BY <1>1, NatLeast
  <1>3. x \in a + 1..M /\ x - 1 \in a..M
    BY <1>2
  <1>4. x - 1 \in T
    BY <1>2, <1>3
  <1>5. QED
    BY <1>2, <1>3, <1>4

\* A function on 0..M starts with z and takes step n from its value at n - 1.
Steps(M, S, z, step) ==
    \E f \in [0..M -> S] : f[0] = z /\ \A n \in 1..M : f[n] = step[<<n, f[n - 1]>>]

\* Recursion up to a number: there is such a function.
LEMMA Recursion ==
    ASSUME NEW M \in Nat, NEW S, NEW z \in S, NEW step \in [(1..M) \X S -> S]
    PROVE  Steps(M, S, z, step)
  <1> DEFINE Good(m, f) == f \in [0..m -> S] /\ f[0] = z /\ \A n \in 1..m : f[n] = step[<<n, f[n - 1]>>]
             T == {m \in 0..M : \E f : Good(m, f)}
  <1>1. 0 \in T
    <2>1. \E f : Good(0, f)
      <3>1. Good(0, [n \in 0..0 |-> z])
        OBVIOUS
      <3> HIDE DEF Good
      <3>2. QED
        BY <3>1
    <2> HIDE DEF Good
    <2>2. QED
      BY <2>1
  <1>2. ASSUME NEW m \in 1..M, m - 1 \in T PROVE m \in T
    <2>1. PICK f : Good(m - 1, f)
      BY <1>2
    <2> DEFINE g == [n \in 0..m |-> IF n = m THEN step[<<m, f[m - 1]>>] ELSE f[n]]
    <2>2. f[m - 1] \in S
      BY <2>1
    <2>3. step[<<m, f[m - 1]>>] \in S
      BY <2>2
    <2>4. g \in [0..m -> S]
      BY <2>1, <2>3
    <2>5. g[0] = z
      BY <2>1
    <2>6. ASSUME NEW n \in 1..m PROVE g[n] = step[<<n, g[n - 1]>>]
      <3>1. n - 1 \in 0..m /\ n - 1 # m /\ n \in 0..m
        OBVIOUS
      <3>2. g[n - 1] = f[n - 1]
        BY <3>1
      <3>3. CASE n = m
        <4>1. g[n] = step[<<m, f[m - 1]>>]
          BY <3>1, <3>3
        <4> HIDE DEF g
        <4>2. QED
          BY <3>2, <3>3, <4>1
      <3>4. CASE n # m
        BY <2>1, <3>1, <3>2, <3>4
      <3>5. QED
        BY <3>3, <3>4
    <2>7. Good(m, g)
      BY <2>4, <2>5, <2>6
    <2> HIDE DEF Good, g
    <2>8. QED
      BY <2>7
  <1>3. T = 0..M
    <2>1. 0 \in 0..M /\ T \in SUBSET (0..M)
      OBVIOUS
    <2> HIDE DEF T
    <2>2. \A m \in 0 + 1..M : m - 1 \in T => m \in T
      BY <1>2
    <2>3. QED
      BY <1>1, <2>1, <2>2, UpTo
  <1>4. M \in T
    <2> HIDE DEF T
    <2>1. QED
      BY <1>1, <1>3
  <1>5. QED
    BY <1>4 DEF Steps

-----------------------------------------------------------------------------
(* The healthy servers and the length of a round.                          *)

\* The recursion of get_healthy_servers.
LEMMA HealthyRecursion ==
    ASSUME is_healthy \in [1..N -> BOOLEAN]
    PROVE  \E f : /\ f[0] = <<>> /\ Healthy = f[N]
                  /\ \A n \in 1..N : f[n] = IF is_healthy[n] THEN Append(f[n - 1], n) ELSE f[n - 1]
  <1> DEFINE Rec(f) == [n \in 0..N |-> IF n = 0 THEN <<>>
                                       ELSE IF is_healthy[n] THEN Append(f[n - 1], n)
                                       ELSE f[n - 1]]
             step == [p \in (1..N) \X Seq(1..N) |->
                        IF is_healthy[p[1]] THEN Append(p[2], p[1]) ELSE p[2]]
  <1>1. PICK f \in [0..N -> Seq(1..N)] :
           f[0] = <<>> /\ \A n \in 1..N : f[n] = step[<<n, f[n - 1]>>]
    <2>1. step \in [(1..N) \X Seq(1..N) -> Seq(1..N)]
      <3>1. ASSUME NEW p \in (1..N) \X Seq(1..N)
            PROVE  (IF is_healthy[p[1]] THEN Append(p[2], p[1]) ELSE p[2]) \in Seq(1..N)
        <4>1. p[1] \in 1..N /\ p[2] \in Seq(1..N)
          OBVIOUS
        <4>2. Append(p[2], p[1]) \in Seq(1..N)
          BY <4>1
        <4>3. QED
          BY <4>1, <4>2
      <3>2. QED
        BY <3>1
    <2>2. N \in Nat /\ <<>> \in Seq(1..N)
      BY ServersAssumption
    <2> HIDE DEF step
    <2>3. Steps(N, Seq(1..N), <<>>, step)
      BY <2>1, <2>2, Recursion
    <2>4. QED
      BY <2>3 DEF Steps
  <1>2. f = Rec(f)
    <2>1. ASSUME NEW n \in 1..N
          PROVE  f[n] = IF is_healthy[n] THEN Append(f[n - 1], n) ELSE f[n - 1]
      <3>1. f[n - 1] \in Seq(1..N)
        BY ServersAssumption
      <3>2. QED
        BY <1>1, <3>1
    <2>2. \A n \in 0..N : n = 0 \/ n \in 1..N
      BY ServersAssumption
    <2>3. QED
      BY <1>1, <2>1, <2>2
  <1> DEFINE g == CHOOSE g : g = Rec(g)
  <1>3. g = Rec(g)
    <2> HIDE DEF Rec
    <2>1. QED
      BY <1>2
  <1>4. Healthy = g[N]
    BY DEF Healthy
  <1> HIDE DEF g
  <1>5. \A n \in 0..N : g[n] = IF n = 0 THEN <<>>
                               ELSE IF is_healthy[n] THEN Append(g[n - 1], n)
                               ELSE g[n - 1]
    BY <1>3, Zenon
  <1>6. 0 \in 0..N /\ \A n \in 1..N : n \in 0..N /\ n # 0
    BY ServersAssumption
  <1>7. QED
    BY <1>4, <1>5, <1>6, Zenon

\* get_healthy_servers returns the healthy servers, and no more than there are.
LEMMA HealthyServers ==
    ASSUME is_healthy \in [1..N -> BOOLEAN]
    PROVE  /\ Healthy \in Seq(1..N) /\ Len(Healthy) <= N
           /\ \A s \in 1..N : is_healthy[s] <=> \E i \in 1..Len(Healthy) : Healthy[i] = s
  <1>1. PICK f : /\ f[0] = <<>> /\ Healthy = f[N]
                 /\ \A n \in 1..N : f[n] = IF is_healthy[n] THEN Append(f[n - 1], n) ELSE f[n - 1]
    BY HealthyRecursion
  <1> DEFINE Good(n) == /\ f[n] \in Seq(1..N) /\ Len(f[n]) <= n
                        /\ \A s \in 1..N : (\E i \in 1..Len(f[n]) : f[n][i] = s) <=>
                                            (s <= n /\ is_healthy[s])
             T == {n \in 0..N : Good(n)}
  <1>0. N \in Nat /\ N > 0
    BY ServersAssumption
  <1>2. 0 \in T
    <2>1. f[0] \in Seq(1..N) /\ Len(f[0]) = 0
      BY <1>1
    <2>2. QED
      BY <1>0, <2>1
  <1>3. ASSUME NEW n \in 1..N, n - 1 \in T PROVE n \in T
    <2>1. Good(n - 1)
      BY <1>3
    <2>2. CASE ~is_healthy[n]
      <3>1. f[n] = f[n - 1]
        BY <1>1, <2>2
      <3>2. \A s \in 1..N : (s <= n - 1 /\ is_healthy[s]) <=> (s <= n /\ is_healthy[s])
        BY <2>2
      <3>3. f[n] \in Seq(1..N) /\ Len(f[n]) <= n - 1
        BY <2>1, <3>1
      <3>4. Len(f[n]) <= n
        BY <3>3
      <3>5. \A s \in 1..N : (\E i \in 1..Len(f[n]) : f[n][i] = s) <=> (s <= n /\ is_healthy[s])
        BY <2>1, <3>1, <3>2
      <3>6. Good(n)
        BY <3>3, <3>4, <3>5
      <3> HIDE DEF Good
      <3>7. QED
        BY <1>0, <3>6
    <2>3. CASE is_healthy[n]
      <3> DEFINE q == f[n - 1]
                 r == f[n]
      <3>1. r = Append(q, n)
        BY <1>1, <2>3
      <3>2. q \in Seq(1..N) /\ Len(q) \in Nat /\ Len(q) <= n - 1
        BY <2>1
      <3>3. /\ r \in Seq(1..N) /\ Len(r) = Len(q) + 1 /\ r[Len(q) + 1] = n
            /\ \A i \in 1..Len(q) : r[i] = q[i]
        BY <3>1, <3>2
      <3>4. \A s \in 1..N : (\E i \in 1..Len(q) : q[i] = s) <=> (s <= n - 1 /\ is_healthy[s])
        BY <2>1
      <3> HIDE DEF q, r
      <3>5. \A s \in 1..N : (\E i \in 1..Len(r) : r[i] = s) <=>
                               ((\E i \in 1..Len(q) : q[i] = s) \/ s = n)
        BY <3>2, <3>3
      <3>6. \A s \in 1..N : (\E i \in 1..Len(r) : r[i] = s) <=> (s <= n /\ is_healthy[s])
        <4>1. \A s \in 1..N : (s <= n - 1 \/ s = n) <=> s <= n
          BY <1>0
        <4>2. QED
          BY <2>3, <3>4, <3>5, <4>1
      <3>7. Len(r) <= n
        BY <3>2, <3>3
      <3>8. Good(n)
        BY <3>3, <3>6, <3>7 DEF r
      <3> HIDE DEF Good
      <3>9. QED
        BY <3>8, ServersAssumption
    <2>4. QED
      BY <2>2, <2>3
  <1>4. T = 0..N
    <2> HIDE DEF Good
    <2>1. 0 \in 0..N /\ T \in SUBSET (0..N)
      BY <1>0
    <2> HIDE DEF T
    <2>2. \A n \in 0 + 1..N : n - 1 \in T => n \in T
      BY <1>0, <1>3
    <2>3. QED
      BY <1>0, <1>2, <2>1, <2>2, UpTo
  <1>5. Good(N)
    <2>1. N \in T
      <3> HIDE DEF T
      <3>1. QED
        BY <1>0, <1>4
    <2> HIDE DEF Good
    <2>2. QED
      BY <2>1
  <1>6. \A s \in 1..N : s <= N
    BY ServersAssumption
  <1>7. QED
    BY <1>1, <1>5, <1>6

\* The recursion of the length of a round.
LEMMA RoundRecursion ==
    ASSUME is_healthy \in [1..N -> BOOLEAN], weight \in [1..N -> 1..MaxWeight]
    PROVE  \E f : /\ f[0] = 0 /\ Round = f[N]
                  /\ \A n \in 1..N : f[n] = IF is_healthy[n] THEN f[n - 1] + Share(n) ELSE f[n - 1]
  <1> DEFINE Rec(f) == [n \in 0..N |-> IF n = 0 THEN 0
                                       ELSE IF is_healthy[n] THEN f[n - 1] + Share(n)
                                       ELSE f[n - 1]]
             step == [p \in (1..N) \X Nat |-> IF is_healthy[p[1]] THEN p[2] + Share(p[1]) ELSE p[2]]
  <1>1. \A n \in 1..N : Share(n) \in Nat
    BY ServersAssumption DEF Share
  <1>2. PICK f \in [0..N -> Nat] : f[0] = 0 /\ \A n \in 1..N : f[n] = step[<<n, f[n - 1]>>]
    <2>1. step \in [(1..N) \X Nat -> Nat]
      BY <1>1
    <2>2. N \in Nat /\ 0 \in Nat
      BY ServersAssumption
    <2> HIDE DEF step
    <2>3. Steps(N, Nat, 0, step)
      BY <2>1, <2>2, Recursion
    <2>4. QED
      BY <2>3 DEF Steps
  <1>3. f = Rec(f)
    <2>1. ASSUME NEW n \in 1..N
          PROVE  f[n] = IF is_healthy[n] THEN f[n - 1] + Share(n) ELSE f[n - 1]
      <3>1. f[n - 1] \in Nat
        BY ServersAssumption
      <3>2. QED
        BY <1>2, <3>1
    <2>2. \A n \in 0..N : n = 0 \/ n \in 1..N
      BY ServersAssumption
    <2>3. QED
      BY <1>2, <2>1, <2>2
  <1> DEFINE g == CHOOSE g : g = Rec(g)
  <1>4. g = Rec(g)
    <2> HIDE DEF Rec
    <2>1. QED
      BY <1>3
  <1>5. Round = g[N]
    BY DEF Round
  <1> HIDE DEF g
  <1>6. g[0] = 0 /\ \A n \in 1..N : g[n] = IF is_healthy[n] THEN g[n - 1] + Share(n) ELSE g[n - 1]
    BY <1>4, ServersAssumption, SMTT(30)
  <1>7. QED
    BY <1>5, <1>6

\* The length of a round is a number.
LEMMA RoundType ==
    ASSUME is_healthy \in [1..N -> BOOLEAN], weight \in [1..N -> 1..MaxWeight]
    PROVE  Round \in Nat
  <1>1. \A n \in 1..N : Share(n) \in Nat
    BY ServersAssumption DEF Share
  <1>2. PICK f : /\ f[0] = 0 /\ Round = f[N]
                 /\ \A n \in 1..N : f[n] = IF is_healthy[n] THEN f[n - 1] + Share(n) ELSE f[n - 1]
    BY RoundRecursion
  <1> DEFINE T == {n \in 0..N : f[n] \in Nat}
  <1>3. T = 0..N
    <2>1. N \in Nat /\ 0 \in 0..N /\ T \in SUBSET (0..N) /\ 0 \in T
      BY <1>2, ServersAssumption
    <2>2. \A n \in 0 + 1..N : n - 1 \in T => n \in T
      <3>1. \A n \in 0 + 1..N : n \in 1..N /\ n \in 0..N
        BY ServersAssumption
      <3>2. QED
        BY <1>1, <1>2, <3>1
    <2> HIDE DEF T
    <2>3. QED
      BY <2>1, <2>2, UpTo
  <1>4. N \in T
    <2> HIDE DEF T
    <2>1. QED
      BY <1>3, ServersAssumption
  <1>5. QED
    BY <1>2, <1>4

-----------------------------------------------------------------------------
(* The loop of _weighted_round_robin.                                      *)

\* An element of a sequence.
LEMMA ElementOfSeq ==
    ASSUME NEW S, NEW q \in Seq(S), NEW i \in 1..Len(q)
    PROVE  q[i] \in S
  OBVIOUS

\* Where the loop can be.
Places == [i : 0..N - 1, w : 0..MaxWeight]

\* The greatest weight of the healthy servers is the weight of one of them.
LEMMA Greatest ==
    ASSUME TypeOK, NEW h \in Seq(1..N), Len(h) # 0
    PROVE  /\ GreatestWeight(h) \in 1..MaxWeight
           /\ \A i \in 1..Len(h) : weight[h[i]] <= GreatestWeight(h)
           /\ \E i \in 1..Len(h) : weight[h[i]] = GreatestWeight(h)
  <1> DEFINE W == {weight[h[i]] : i \in 1..Len(h)}
             L == {MaxWeight - x : x \in W}
  <1>0. MaxWeight \in Nat /\ Len(h) \in Nat
    BY ServersAssumption
  <1>1. W \subseteq 1..MaxWeight /\ W # {}
    <2>1. ASSUME NEW i \in 1..Len(h) PROVE h[i] \in 1..N
      BY ElementOfSeq
    <2>2. \A i \in 1..Len(h) : weight[h[i]] \in 1..MaxWeight
      BY <2>1 DEF TypeOK
    <2>3. 1 \in 1..Len(h)
      BY <1>0
    <2>4. QED
      BY <2>2, <2>3
  <1>2. PICK x \in W : \A y \in W : y <= x
    <2> HIDE DEF W
    <2>0. \A y \in W : y \in Nat /\ MaxWeight - y \in Nat
      BY <1>0, <1>1
    <2>1. L \in SUBSET Nat /\ L # {}
      BY <1>1, <2>0
    <2>2. PICK l \in L : \A m \in L : l <= m
      <3> HIDE DEF L
      <3>1. QED
        BY <2>1, NatLeast
    <2>3. PICK x \in W : l = MaxWeight - x
      BY <2>2
    <2>4. \A y \in W : MaxWeight - x <= MaxWeight - y
      BY <2>2, <2>3
    <2>5. QED
      BY <1>0, <2>0, <2>4
  <1>3. Max(W) \in W /\ \A y \in W : y <= Max(W)
    <2> HIDE DEF W
    <2>1. x \in W /\ \A y \in W : x >= y
      BY <1>1, <1>2
    <2>2. Max(W) \in W /\ \A y \in W : Max(W) >= y
      BY <2>1, Zenon DEF Max
    <2>3. QED
      BY <1>0, <1>1, <2>2
  <1>4. GreatestWeight(h) = Max(W)
    BY DEF GreatestWeight
  <1>5. QED
    BY <1>1, <1>3, <1>4

\* One turn of the loop.
LEMMA AdvanceType ==
    ASSUME TypeOK, NEW h \in Seq(1..N), Len(h) \in 1..N, NEW p \in Places
    PROVE  Advance(h, p) \in Places /\ Advance(h, p).i \in 0..Len(h) - 1
  <1>1. (p.i + 1) % Len(h) \in 0..Len(h) - 1
    <2>1. p.i + 1 \in Nat /\ Len(h) \in Nat \ {0}
      BY ServersAssumption DEF Places
    <2>2. \A x \in Nat : x % Len(h) \in 0..Len(h) - 1
      BY <2>1
    <2>3. QED
      BY <2>1, <2>2
  <1>2. GreatestWeight(h) \in 0..MaxWeight
    BY Greatest, ServersAssumption
  <1>3. \A x \in 0..MaxWeight : x <= 1 \/ x - 1 \in 0..MaxWeight
    BY ServersAssumption
  <1>4. p.w \in 0..MaxWeight
    BY DEF Places
  <1>5. /\ Advance(h, p).i = (p.i + 1) % Len(h)
        /\ Advance(h, p).w \in {p.w, GreatestWeight(h)} \/ (~(p.w <= 1) /\ Advance(h, p).w = p.w - 1)
        /\ Advance(h, p) = [i |-> Advance(h, p).i, w |-> Advance(h, p).w]
    BY DEF Advance
  <1>6. Advance(h, p).w \in 0..MaxWeight
    BY <1>2, <1>3, <1>4, <1>5
  <1>7. Advance(h, p).i \in 0..N - 1
    BY <1>1, <1>5, ServersAssumption
  <1>8. QED
    BY <1>1, <1>5, <1>6, <1>7 DEF Places

\* Where the loop is after each turn.
LEMMA Walk ==
    ASSUME TypeOK, NEW h \in Seq(1..N), Len(h) \in 1..N
    PROVE  /\ Horizon \in Nat
           /\ Turns(h)[0] = [i |-> weighted_index, w |-> current_weight]
           /\ \A n \in 0..Horizon : Turns(h)[n] \in Places
           /\ \A n \in 1..Horizon : /\ Turns(h)[n] = Advance(h, Turns(h)[n - 1])
                                     /\ Turns(h)[n].i \in 0..Len(h) - 1
  <1> DEFINE z == [i |-> weighted_index, w |-> current_weight]
             Rec(f) == [n \in 0..Horizon |-> IF n = 0 THEN z ELSE Advance(h, f[n - 1])]
             step == [x \in (1..Horizon) \X Places |-> Advance(h, x[2])]
  <1>1. Horizon \in Nat
    BY ServersAssumption DEF Horizon
  <1>2. z \in Places
    BY DEF TypeOK, Places
  <1>3. PICK f \in [0..Horizon -> Places] :
           f[0] = z /\ \A n \in 1..Horizon : f[n] = step[<<n, f[n - 1]>>]
    <2>1. step \in [(1..Horizon) \X Places -> Places]
      BY AdvanceType
    <2> HIDE DEF step, z
    <2>2. Steps(Horizon, Places, z, step)
      BY <1>1, <1>2, <2>1, Recursion
    <2>3. QED
      BY <2>2 DEF Steps
  <1>4. f = Rec(f)
    <2>1. ASSUME NEW n \in 1..Horizon PROVE f[n] = Advance(h, f[n - 1])
      <3>1. f[n - 1] \in Places
        BY <1>1
      <3>2. QED
        BY <1>3, <3>1
    <2>2. \A n \in 0..Horizon : n = 0 \/ n \in 1..Horizon
      BY <1>1
    <2> HIDE DEF z
    <2>3. QED
      BY <1>3, <2>1, <2>2
  <1> DEFINE g == CHOOSE g : g = Rec(g)
  <1>5. g = Rec(g)
    <2> HIDE DEF Rec
    <2>1. QED
      BY <1>4
  <1>6. Turns(h) = g
    BY DEF Turns
  <1> HIDE DEF g
  <1>7. \A n \in 0..Horizon : g[n] = IF n = 0 THEN z ELSE Advance(h, g[n - 1])
    <2> HIDE DEF z
    <2>1. QED
      BY <1>5, Zenon
  <1>8. g[0] = z /\ \A n \in 1..Horizon : g[n] = Advance(h, g[n - 1])
    <2>1. 0 \in 0..Horizon /\ \A n \in 1..Horizon : n \in 0..Horizon /\ n # 0
      BY <1>1
    <2> HIDE DEF z
    <2>2. QED
      BY <1>7, <2>1, Zenon
  <1> DEFINE T == {n \in 0..Horizon : g[n] \in Places}
  <1>9. T = 0..Horizon
    <2>1. 0 \in 0..Horizon /\ T \in SUBSET (0..Horizon) /\ 0 \in T
      BY <1>1, <1>2, <1>8
    <2>2. ASSUME NEW n \in 0 + 1..Horizon, n - 1 \in T PROVE n \in T
      <3>1. n \in 1..Horizon /\ n \in 0..Horizon
        BY <1>1
      <3>2. g[n] \in Places
        BY <1>8, <2>2, <3>1, AdvanceType
      <3>3. QED
        BY <3>1, <3>2
    <2> HIDE DEF T
    <2>3. QED
      BY <1>1, <2>1, <2>2, UpTo
  <1>10. ASSUME NEW n \in 1..Horizon PROVE g[n].i \in 0..Len(h) - 1
    <2>1. n - 1 \in 0..Horizon
      BY <1>1
    <2>2. QED
      BY <1>8, <1>9, <2>1, AdvanceType
  <1>11. QED
    BY <1>1, <1>6, <1>8, <1>9, <1>10

\* Sums and products of numbers.
LEMMA Products ==
    ASSUME NEW k \in Nat, NEW a \in Nat, NEW b \in Nat, NEW l \in Nat
    PROVE  /\ a * k \in Nat /\ 1 * k = k
           /\ (a + 1) * k = a * k + k
           /\ a <= b /\ k <= l => a * k <= b * l
  OBVIOUS

\* The remainder of a number that is not greater than the divisor.
LEMMA Modulo ==
    ASSUME NEW k \in Nat \ {0}
    PROVE  k % k = 0 /\ \A i \in 0..k - 1 : i % k = i
  OBVIOUS

\* The turns the loop takes from place p until its index is j, that of a server
\* of the greatest weight g among k, and its weight is g or less: a whole
\* passage for each weight above g first.
Remaining(k, j, g, p) ==
    IF p.w > g THEN (p.w - g) * k + j - p.i
    ELSE IF p.i <= j THEN j - p.i ELSE k - p.i + j

\* How many they can be.
LEMMA RemainingBound ==
    ASSUME NEW k \in 1..N, NEW j \in 0..k - 1, NEW g \in 1..MaxWeight,
           NEW i \in 0..k - 1, NEW w \in 0..MaxWeight
    PROVE  Remaining(k, j, g, [i |-> i, w |-> w]) \in 0..Horizon - 1
  <1>0. N \in Nat /\ MaxWeight \in Nat /\ k \in Nat /\ j \in Nat /\ g \in Nat /\ i \in Nat /\ w \in Nat
    BY ServersAssumption
  <1>1. Horizon = MaxWeight * N + N /\ MaxWeight * N \in Nat
    BY <1>0 DEF Horizon
  <1>2. CASE w > g
    <2> DEFINE a == w - g - 1
    <2>1. a \in Nat /\ a + 1 = w - g /\ a + 1 <= MaxWeight
      BY <1>0, <1>2
    <2>2. a * k \in Nat /\ (w - g) * k = a * k + k
      BY <1>0, <2>1, Products
    <2> HIDE DEF a
    <2>3. (a + 1) * k <= MaxWeight * N
      BY <1>0, <2>1, Products
    <2>4. Remaining(k, j, g, [i |-> i, w |-> w]) = (w - g) * k + j - i
      BY <1>2 DEF Remaining
    <2>5. (w - g) * k <= MaxWeight * N
      BY <2>1, <2>3
    <2>6. (w - g) * k \in Nat /\ (w - g) * k >= k
      BY <1>0, <2>2
    <2>7. (w - g) * k + j - i \in 0..Horizon - 1
      BY <1>0, <1>1, <2>5, <2>6
    <2>8. QED
      BY <2>4, <2>7
  <1>3. CASE ~(w > g)
    <2>1. MaxWeight * N >= 0
      BY <1>1
    <2>2. QED
      BY <1>0, <1>1, <1>3, <2>1 DEF Remaining
  <1>4. QED
    BY <1>2, <1>3

\* A turn that does not return brings the loop one turn closer.
LEMMA AdvanceCloser ==
    ASSUME TypeOK, NEW h \in Seq(1..N), Len(h) \in 1..N,
           NEW j \in 0..Len(h) - 1, weight[h[j + 1]] = GreatestWeight(h),
           NEW p \in Places, p.i \in 0..Len(h) - 1, ~(weight[h[p.i + 1]] >= p.w)
    PROVE  Remaining(Len(h), j, GreatestWeight(h), Advance(h, p)) =
              Remaining(Len(h), j, GreatestWeight(h), p) - 1
  <1> DEFINE k == Len(h)
             g == GreatestWeight(h)
             q == Advance(h, p)
             i == p.i
             w == p.w
  <1> SUFFICES Remaining(k, j, g, q) = Remaining(k, j, g, p) - 1
    OBVIOUS
  <1>0. /\ k \in Nat \ {0} /\ j \in Nat /\ j < k
        /\ i \in Nat /\ i < k /\ w \in Nat
    <2>1. N \in Nat /\ MaxWeight \in Nat
      BY ServersAssumption
    <2>2. w \in 0..MaxWeight
      BY DEF Places
    <2>3. k \in Nat \ {0}
      BY <2>1
    <2>4. QED
      BY <2>1, <2>2, <2>3
  <1>1. g \in Nat /\ g >= 1
    BY Greatest, ServersAssumption
  <1>2. i + 1 < k => (i + 1) % k = i + 1
    BY <1>0, Modulo
  <1>3. i + 1 = k => (i + 1) % k = 0
    BY <1>0, Modulo
  <1>4. i + 1 < k => q = [i |-> i + 1, w |-> w]
    BY <1>0, <1>2 DEF Advance
  <1>5. i + 1 = k => q = [i |-> 0, w |-> IF w <= 1 THEN g ELSE w - 1]
    BY <1>3 DEF Advance
  <1>6. i = j => w > g
    BY <1>0, <1>1
  <1> HIDE DEF k, g, q, i, w
  <1>7. i + 1 < k \/ i + 1 = k
    BY <1>0
  <1>8. Remaining(k, j, g, p) = IF w > g THEN (w - g) * k + j - i
                                ELSE IF i <= j THEN j - i ELSE k - i + j
    BY DEF Remaining, i, w
  <1>9. CASE w > g
    <2> DEFINE a == w - g - 1
    <2>1. a \in Nat /\ a + 1 = w - g /\ w - 1 - g = a /\ ~(w <= 1)
      BY <1>0, <1>1, <1>9
    <2>2. a * k \in Nat /\ (w - g) * k = a * k + k
      BY <1>0, <2>1, Products
    <2> HIDE DEF a
    <2>3. CASE i + 1 < k
      <3>1. Remaining(k, j, g, q) = (w - g) * k + j - (i + 1)
        BY <1>4, <1>9, <2>3 DEF Remaining
      <3>2. QED
        BY <1>0, <1>8, <1>9, <2>2, <3>1
    <2>4. CASE i + 1 = k
      <3>1. q = [i |-> 0, w |-> w - 1]
        BY <1>5, <2>1, <2>4
      <3>2. CASE w - 1 > g
        <4>1. Remaining(k, j, g, q) = (w - 1 - g) * k + j - 0
          BY <3>1, <3>2 DEF Remaining
        <4>2. Remaining(k, j, g, q) = a * k + j
          BY <1>0, <2>1, <2>2, <4>1
        <4>3. QED
          BY <1>0, <1>8, <1>9, <2>2, <2>4, <4>2, SMTT(30)
      <3>3. CASE ~(w - 1 > g)
        <4>1. w = g + 1
          BY <1>0, <1>1, <1>9, <3>3
        <4>2. Remaining(k, j, g, q) = j
          BY <1>0, <3>1, <3>3 DEF Remaining
        <4>3. (w - g) * k = k
          BY <1>0, <1>1, <4>1
        <4>4. QED
          BY <1>0, <1>8, <1>9, <2>4, <4>2, <4>3
      <3>4. QED
        BY <3>2, <3>3
    <2>5. QED
      BY <1>7, <2>3, <2>4
  <1>10. CASE ~(w > g)
    <2>1. i # j
      BY <1>6, <1>10
    <2>2. CASE i + 1 < k
      <3>1. Remaining(k, j, g, q) = IF i + 1 <= j THEN j - (i + 1) ELSE k - (i + 1) + j
        BY <1>4, <1>10, <2>2 DEF Remaining
      <3>2. QED
        BY <1>0, <1>8, <1>10, <2>1, <3>1
    <2>3. CASE i + 1 = k
      <3>1. q.i = 0 /\ ~(q.w > g)
        BY <1>0, <1>1, <1>5, <1>10, <2>3
      <3>2. Remaining(k, j, g, q) = j
        BY <1>0, <3>1 DEF Remaining
      <3>3. QED
        BY <1>0, <1>8, <1>10, <2>1, <2>3, <3>2
    <2>4. QED
      BY <1>7, <2>2, <2>3
  <1>11. QED
    BY <1>9, <1>10

\* The loop returns at the latest when none of them is left.
LEMMA LoopReturns ==
    ASSUME TypeOK, NEW h \in Seq(1..N), Len(h) \in 1..N
    PROVE  \E n \in 1..Horizon : Returns(h, Turns(h), n)
  <1> SUFFICES ASSUME \A n \in 1..Horizon : ~Returns(h, Turns(h), n)
               PROVE  FALSE
    OBVIOUS
  <1> DEFINE k == Len(h)
             g == GreatestWeight(h)
             walk == Turns(h)
  <1>0. N \in Nat /\ N > 0 /\ MaxWeight \in Nat /\ k \in Nat \ {0} /\ Horizon \in Nat
    BY ServersAssumption, Walk
  <1>1. PICK j \in 0..k - 1 : weight[h[j + 1]] = g
    <2>1. PICK i \in 1..k : weight[h[i]] = g
      BY <1>0, Greatest
    <2>2. i - 1 \in 0..k - 1 /\ (i - 1) + 1 = i
      BY <1>0
    <2>3. QED
      BY <2>1, <2>2
  <1>2. g \in 1..MaxWeight
    BY <1>0, Greatest
  <1> DEFINE R(n) == Remaining(k, j, g, walk[n])
  <1>3. ASSUME NEW n \in 1..Horizon
        PROVE  R(n) \in 0..Horizon - 1
    <2>1. walk[n].i \in 0..k - 1 /\ walk[n] \in Places
      BY <1>0, Walk
    <2>2. walk[n].w \in 0..MaxWeight /\ walk[n] = [i |-> walk[n].i, w |-> walk[n].w]
      BY <2>1 DEF Places
    <2> HIDE DEF walk
    <2>3. QED
      BY <1>1, <1>2, <2>1, <2>2, RemainingBound
  <1>4. ASSUME NEW n \in 2..Horizon
        PROVE  R(n) = R(n - 1) - 1
    <2>1. n - 1 \in 1..Horizon /\ n \in 1..Horizon
      BY <1>0
    <2>2. /\ walk[n] = Advance(h, walk[n - 1])
          /\ walk[n - 1] \in Places /\ walk[n - 1].i \in 0..k - 1
      <3>1. n - 1 \in 0..Horizon
        BY <1>0
      <3>2. QED
        BY <2>1, <3>1, Walk
    <2>3. ~(weight[h[walk[n - 1].i + 1]] >= walk[n - 1].w)
      BY <2>1 DEF Returns
    <2> HIDE DEF walk
    <2>4. QED
      BY <1>1, <2>2, <2>3, AdvanceCloser
  <1> HIDE DEF R
  <1> DEFINE T == {n \in 1..Horizon : R(n) = R(1) - (n - 1)}
  <1>5. 1 \in 1..Horizon
    <2>1. N * MaxWeight \in Nat /\ Horizon = N * MaxWeight + N
      BY <1>0 DEF Horizon
    <2>2. QED
      BY <1>0, <2>1
  <1>6. R(1) \in 0..Horizon - 1
    BY <1>3, <1>5
  <1>7. T = 1..Horizon
    <2>1. 1 \in 0..Horizon /\ T \in SUBSET (1..Horizon) /\ 1 \in T
      BY <1>0, <1>5, <1>6
    <2>2. ASSUME NEW n \in 1 + 1..Horizon, n - 1 \in T PROVE n \in T
      <3>1. n \in 2..Horizon /\ n \in 1..Horizon
        BY <1>0
      <3>2. R(n - 1) = R(1) - (n - 1 - 1) /\ R(n) = R(n - 1) - 1
        BY <1>4, <2>2, <3>1
      <3>3. R(n) = R(1) - (n - 1)
        BY <1>0, <1>6, <3>1, <3>2
      <3>4. QED
        BY <3>1, <3>3
    <2> HIDE DEF T
    <2>3. QED
      BY <1>0, <2>1, <2>2, UpTo
  <1> DEFINE m == R(1) + 1
  <1>8. m \in 1..Horizon
    BY <1>0, <1>6
  <1>9. R(m) = 0
    <2>1. R(m) = R(1) - (m - 1)
      BY <1>7, <1>8
    <2>2. QED
      BY <1>0, <1>6, <2>1
  <1> HIDE DEF m
  <1>10. walk[m].i \in 0..k - 1 /\ walk[m].w \in 0..MaxWeight
    BY <1>0, <1>8, Walk DEF Places
  <1>11. walk[m].w <= g /\ walk[m].i = j
    <2> DEFINE i == walk[m].i
               w == walk[m].w
    <2>0. i \in Nat /\ i < k /\ w \in Nat /\ g \in Nat /\ j \in Nat /\ j < k
      BY <1>0, <1>2, <1>10
    <2>1. R(m) = IF w > g THEN (w - g) * k + j - i ELSE IF i <= j THEN j - i ELSE k - i + j
      BY DEF R, Remaining
    <2> HIDE DEF i, w, k, g
    <2>2. CASE w > g
      <3> DEFINE a == w - g - 1
      <3>1. a \in Nat /\ a + 1 = w - g
        BY <2>0, <2>2
      <3>2. a * k \in Nat /\ (w - g) * k = a * k + k
        BY <1>0, <3>1, Products
      <3>3. QED
        BY <1>0, <1>9, <2>0, <2>1, <2>2, <3>2, SMTT(30)
    <2>3. CASE ~(w > g)
      <3>1. IF i <= j THEN j - i = 0 ELSE k - i + j = 0
        BY <1>9, <2>1, <2>3
      <3>2. i = j
        BY <1>0, <2>0, <3>1
      <3>3. QED
        BY <2>0, <2>3, <3>2 DEF i, w
    <2>4. QED
      BY <2>2, <2>3
  <1>12. QED
    BY <1>1, <1>2, <1>8, <1>10, <1>11 DEF Returns

-----------------------------------------------------------------------------
(* Types, the end of the loop and the choice of a healthy server.          *)

\* If there is a healthy server the list of them is as long as 1..N allows.
LEMMA HealthyLength ==
    ASSUME TypeOK, Healthy # <<>>
    PROVE  Healthy \in Seq(1..N) /\ Len(Healthy) \in 1..N
  <1>1. Healthy \in Seq(1..N) /\ Len(Healthy) <= N
    BY HealthyServers DEF TypeOK
  <1> HIDE DEF Healthy
  <1>2. Len(Healthy) \in Nat /\ Len(Healthy) # 0
    BY <1>1
  <1>3. QED
    BY <1>1, <1>2, ServersAssumption

\* A selection answers with one of the servers, and the state of the weighted
\* strategy stays in range.
LEMMA Selection ==
    ASSUME TypeOK, Select
    PROVE  /\ selected' \in 0..N
           /\ rr_index' \in 0..RRPeriod - 1 /\ weighted_index' \in 0..N - 1
           /\ current_weight' \in 0..MaxWeight
           /\ Healthy # <<>> => \E i \in 1..Len(Healthy) : selected' = Healthy[i]
  <1>0. N \in Nat /\ N > 0 /\ MaxWeight \in Nat /\ RRPeriod \in Nat \ {0}
    BY ServersAssumption, PeriodAssumption
  <1>1. /\ rr_index \in 0..RRPeriod - 1 /\ weighted_index \in 0..N - 1
        /\ current_weight \in 0..MaxWeight
    BY DEF TypeOK
  <1>2. CASE Healthy = <<>>
    BY <1>0, <1>1, <1>2 DEF Select, Nobody
  <1>3. CASE Healthy # <<>>
    <2> DEFINE h == Healthy
    <2>1. h \in Seq(1..N) /\ Len(h) \in 1..N /\ Len(h) \in Nat
      BY <1>0, <1>3, HealthyLength
    <2>2. \/ RoundRobin(h) \/ Random(h) \/ LeastConnections(h) \/ WeightedRoundRobin(h)
      BY <1>3 DEF Select
    <2> HIDE DEF h
    <2>3. ASSUME NEW i \in 1..Len(h) PROVE h[i] \in 0..N
      <3>1. h[i] \in 1..N
        BY <2>1, ElementOfSeq
      <3>2. QED
        BY <1>0, <3>1
    <2>4. CASE RoundRobin(h)
      <3>1. (rr_index % Len(h)) + 1 \in 1..Len(h)
        BY <1>0, <1>1, <2>1
      <3>2. (rr_index + 1) % RRPeriod \in 0..RRPeriod - 1
        BY <1>0, <1>1
      <3>3. QED
        BY <1>1, <2>3, <2>4, <3>1, <3>2 DEF RoundRobin, h
    <2>5. CASE Random(h)
      BY <1>1, <2>3, <2>5 DEF Random, h
    <2>6. CASE LeastConnections(h)
      <3>1. 1 \in 1..Len(h) /\ Head(h) = h[1]
        BY <2>1
      <3>2. QED
        BY <1>1, <2>3, <2>6, <3>1 DEF LeastConnections, h
    <2>7. CASE WeightedRoundRobin(h)
      <3>1. PICK n \in 1..Horizon :
               /\ weighted_index' = Turns(h)[n].i /\ current_weight' = Turns(h)[n].w
               /\ selected' = h[Turns(h)[n].i + 1] /\ rr_index' = rr_index
        BY <2>7 DEF WeightedRoundRobin
      <3>2. Turns(h)[n] \in Places /\ Turns(h)[n].i \in 0..Len(h) - 1
        <4>1. Horizon \in Nat
          BY <2>1, Walk
        <4>2. n \in 0..Horizon
          BY <4>1
        <4>3. QED
          BY <2>1, <4>2, Walk
      <3>3. Turns(h)[n].i \in 0..N - 1 /\ Turns(h)[n].w \in 0..MaxWeight
        BY <3>2 DEF Places
      <3>4. Turns(h)[n].i + 1 \in 1..Len(h)
        BY <2>1, <3>2
      <3>5. QED
        BY <1>1, <2>3, <3>1, <3>3, <3>4 DEF h
    <2>8. QED
      BY <2>2, <2>4, <2>5, <2>6, <2>7
  <1>4. QED
    BY <1>2, <1>3

\* The selections that are remembered are servers.
LEMMA Remembered ==
    ASSUME TypeOK, NEW s \in 1..N, Remember(s)
    PROVE  recent' \in Seq(1..N)
  <1> DEFINE q == Append(recent, s)
  <1>1. q \in Seq(1..N) /\ Len(q) \in Nat
    BY DEF TypeOK
  <1>2. Round \in Nat
    BY RoundType DEF TypeOK
  <1> HIDE DEF q
  <1>3. LastOf(q, Round) \in Seq(1..N)
    <2>1. CASE Len(q) <= Round
      BY <1>1, <2>1 DEF LastOf
    <2>2. CASE ~(Len(q) <= Round)
      <3> DEFINE m == Len(q) - Round + 1
      <3>1. m \in Nat /\ m >= 1 /\ m <= Len(q) + 1
        BY <1>1, <1>2, <2>2
      <3>2. LastOf(q, Round) = SubSeq(q, m, Len(q))
        BY <2>2 DEF LastOf
      <3> HIDE DEF m
      <3>3. ASSUME NEW i \in m..Len(q) PROVE q[i] \in 1..N
        <4>1. i \in 1..Len(q)
          BY <1>1, <3>1
        <4>2. QED
          BY <1>1, <4>1, ElementOfSeq
      <3>4. SubSeq(q, m, Len(q)) \in Seq(1..N)
        BY <1>1, <3>1, <3>3
      <3>5. QED
        BY <3>2, <3>4
    <2>3. QED
      BY <2>1, <2>2
  <1>4. recent' \in {LastOf(q, Round), <<>>}
    BY DEF Remember, q
  <1>5. <<>> \in Seq(1..N)
    OBVIOUS
  <1>6. QED
    BY <1>3, <1>4, <1>5

\* Initially the types are right: the weights are those of init_mock_servers.
LEMMA TypeInit == Init => TypeOK
  <1> SUFFICES ASSUME Init PROVE TypeOK
    OBVIOUS
  <1>1. N \in Nat /\ N > 0 /\ MaxWeight \in Nat /\ RRPeriod \in Nat /\ RRPeriod > 0
    BY ServersAssumption, PeriodAssumption
  <1>2. is_healthy \in [1..N -> BOOLEAN] /\ weight \in [1..N -> 1..MaxWeight]
    BY ServersAssumption DEF Init
  <1>3. QED
    BY <1>1, <1>2 DEF Init, TypeOK, Strategies, Nobody

\* Every step keeps the types.
LEMMA TypeStep == TypeOK /\ [Next]_vars => TypeOK'
  <1> SUFFICES ASSUME TypeOK, [Next]_vars PROVE TypeOK'
    OBVIOUS
  <1>0. N \in Nat /\ N > 0 /\ MaxWeight \in Nat /\ RRPeriod \in Nat /\ RRPeriod > 0
    BY ServersAssumption, PeriodAssumption
  <1>1. CASE Select
    <2>1. /\ strategy' = strategy /\ is_healthy' = is_healthy /\ weight' = weight
      BY <1>1 DEF Select
    <2>2. recent' \in Seq(1..N)
      <3>1. CASE Healthy = <<>>
        BY <1>1, <3>1 DEF Select, TypeOK
      <3>2. CASE Healthy # <<>>
        <4>1. PICK i \in 1..Len(Healthy) : selected' = Healthy[i]
          BY <1>1, <3>2, Selection
        <4>2. selected' \in 1..N
          BY <3>2, <4>1, HealthyLength, ElementOfSeq
        <4>3. Remember(selected')
          BY <1>1, <3>2 DEF Select
        <4>4. QED
          BY <4>2, <4>3, Remembered
      <3>3. QED
        BY <3>1, <3>2
    <2>3. QED
      BY <1>1, <2>1, <2>2, Selection DEF TypeOK
  <1>2. ASSUME NEW x \in Strategies, SetStrategy(x)
        PROVE  TypeOK'
    BY <1>2 DEF SetStrategy, TypeOK
  <1>3. ASSUME NEW s \in 1..N, ToggleHealth(s)
        PROVE  TypeOK'
    BY <1>3 DEF ToggleHealth, TypeOK
  <1>4. ASSUME NEW s \in 1..N, NEW w \in 1..MaxWeight, SetWeight(s, w)
        PROVE  TypeOK'
    BY <1>4 DEF SetWeight, TypeOK
  <1>5. CASE Reset
    BY <1>0, <1>5 DEF Reset, TypeOK
  <1>6. CASE UNCHANGED vars
    BY <1>6 DEF vars, TypeOK
  <1>7. QED
    BY <1>1, <1>2, <1>3, <1>4, <1>5, <1>6 DEF Next

\* The indices, the weights and the current weight stay in their ranges,
\* whatever is selected, toggled, weighted and reset.
THEOREM TypeCorrect == Spec => []TypeOK
  BY TypeInit, TypeStep, PTL DEF Spec

\* The loop of _weighted_round_robin ends within Horizon turns from every state
\* that can be reached, for any number of servers and any weights: no request
\* holds the lock forever.
THEOREM LoopEndsHolds == Spec => []LoopEnds
  <1>1. TypeOK => LoopEnds
    <2> SUFFICES ASSUME TypeOK, Healthy # <<>>
                 PROVE  \E n \in 1..Horizon : Returns(Healthy, Turns(Healthy), n)
      BY DEF LoopEnds
    <2>1. QED
      BY HealthyLength, LoopReturns
  <1>2. QED
    BY <1>1, TypeCorrect, PTL

\* A request is answered by a healthy server as long as there is one.
THEOREM SelectsHealthy ==
    Spec => [][(Select /\ \E s \in 1..N : is_healthy[s]) =>
                 (selected' \in 1..N /\ is_healthy[selected'])]_vars
  <1>1. TypeOK /\ [Next]_vars =>
           [(Select /\ \E s \in 1..N : is_healthy[s]) =>
              (selected' \in 1..N /\ is_healthy[selected'])]_vars
    <2> SUFFICES ASSUME TypeOK, Select, NEW s \in 1..N, is_healthy[s]
                 PROVE  selected' \in 1..N /\ is_healthy[selected']
      OBVIOUS
    <2>1. /\ Healthy \in Seq(1..N)
          /\ \A t \in 1..N : is_healthy[t] <=> \E i \in 1..Len(Healthy) : Healthy[i] = t
      BY HealthyServers DEF TypeOK
    <2>2. Healthy # <<>>
      <3>1. PICK i \in 1..Len(Healthy) : Healthy[i] = s
        BY <2>1
      <3>2. QED
        BY <3>1
    <2>3. PICK i \in 1..Len(Healthy) : selected' = Healthy[i]
      BY <2>2, Selection
    <2>4. Healthy[i] \in 1..N
      BY <2>1, ElementOfSeq
    <2>5. QED
      BY <2>1, <2>3, <2>4
  <1>2. QED
    BY <1>1, TypeCorrect, PTL DEF Spec

-----------------------------------------------------------------------------
(* Slots on a ring.                                                        *)

\* The way forward from p to q on a ring of M places: a whole turn from a
\* place to itself.
Ahead(M, p, q) == IF q > p THEN q - p ELSE q - p + M

\* b is the first element of A that one meets when one goes on from a.
Follows(A, pos, M, a, b) == \A c \in A : Ahead(M, pos[a], pos[b]) <= Ahead(M, pos[a], pos[c])

\* sl goes from element to element of A, and comes to none twice.
Chain(A, pos, M, sl, n) ==
    /\ sl \in [1..n -> A]
    /\ \A i, j \in 1..n : sl[i] = sl[j] => i = j
    /\ \A i \in 1..n - 1 : Follows(A, pos, M, sl[i], sl[i + 1])

\* The elements of A have different places on the ring.
OnRing(A, pos, M) ==
    /\ M \in Nat \ {0}
    /\ pos \in [A -> 0..M - 1]
    /\ \A a, b \in A : pos[a] = pos[b] => a = b

\* What follows two elements follows one.
LEMMA FollowsOnce ==
    ASSUME NEW A, NEW pos, NEW M, OnRing(A, pos, M),
           NEW a \in A, NEW b \in A, NEW x \in A,
           Follows(A, pos, M, a, x), Follows(A, pos, M, b, x)
    PROVE  a = b
  <1> SUFFICES ASSUME a # b PROVE FALSE
    OBVIOUS
  <1>1. /\ M \in Nat /\ M > 0
        /\ pos[a] \in 0..M - 1 /\ pos[b] \in 0..M - 1 /\ pos[x] \in 0..M - 1 /\ pos[a] # pos[b]
    BY DEF OnRing
  <1>2. /\ Ahead(M, pos[a], pos[x]) <= Ahead(M, pos[a], pos[b])
        /\ Ahead(M, pos[b], pos[x]) <= Ahead(M, pos[b], pos[a])
    BY DEF Follows
  <1> DEFINE p == pos[a]
             q == pos[b]
             r == pos[x]
  <1>3. /\ M \in Nat /\ M > 0 /\ p \in 0..M - 1 /\ q \in 0..M - 1 /\ r \in 0..M - 1 /\ p # q
        /\ Ahead(M, p, r) <= Ahead(M, p, q) /\ Ahead(M, q, r) <= Ahead(M, q, p)
    BY <1>1, <1>2
  <1> HIDE DEF p, q, r
  <1>4. QED
    BY <1>3 DEF Ahead

\* A set of elements that contains what follows each of them contains them all.
LEMMA ClosedIsAll ==
    ASSUME NEW A, NEW pos, NEW M, OnRing(A, pos, M),
           NEW B \in SUBSET A, B # {},
           \A b \in B : \E x \in B : Follows(A, pos, M, b, x)
    PROVE  B = A
  <1> SUFFICES ASSUME NEW a \in A, a \notin B PROVE FALSE
    OBVIOUS
  <1>0. M \in Nat /\ M > 0 /\ \A b \in A : pos[b] \in 0..M - 1
    BY DEF OnRing
  <1> DEFINE D == {Ahead(M, pos[b], pos[a]) : b \in B}
  <1>1. ASSUME NEW b \in A, NEW c \in A PROVE Ahead(M, pos[b], pos[c]) \in Nat
    <2>1. pos[b] \in 0..M - 1 /\ pos[c] \in 0..M - 1
      BY <1>0
    <2>2. QED
      BY <1>0, <2>1 DEF Ahead
  <1>2. D \in SUBSET Nat /\ D # {}
    BY <1>1
  <1>3. PICK d \in D : \A e \in D : d <= e
    <2> HIDE DEF D
    <2>1. QED
      BY <1>2, NatLeast
  <1>4. PICK b \in B : d = Ahead(M, pos[b], pos[a])
    BY <1>3
  <1>5. PICK x \in B : Follows(A, pos, M, b, x)
    OBVIOUS
  <1>6. Ahead(M, pos[b], pos[x]) <= Ahead(M, pos[b], pos[a])
    BY <1>5 DEF Follows
  <1>7. Ahead(M, pos[b], pos[a]) <= Ahead(M, pos[x], pos[a])
    BY <1>3, <1>4
  <1>8. pos[x] # pos[a]
    BY DEF OnRing
  <1> DEFINE p == pos[b]
             q == pos[x]
             r == pos[a]
  <1>9. /\ p \in 0..M - 1 /\ q \in 0..M - 1 /\ r \in 0..M - 1 /\ q # r
        /\ Ahead(M, p, q) <= Ahead(M, p, r) /\ Ahead(M, p, r) <= Ahead(M, q, r)
    BY <1>0, <1>6, <1>7, <1>8
  <1> HIDE DEF p, q, r
  <1>10. QED
    BY <1>0, <1>9 DEF Ahead

\* A chain that is shorter than the ring has elements goes on to a new one.
LEMMA ChainNew ==
    ASSUME NEW A, IsFiniteSet(A), NEW pos, NEW M, OnRing(A, pos, M),
           NEW n \in Nat \ {0}, NEW sl, Chain(A, pos, M, sl, n),
           NEW x \in A, Follows(A, pos, M, sl[n], x), n < Cardinality(A)
    PROVE  \A i \in 1..n : sl[i] # x
  <1> SUFFICES ASSUME NEW j \in 1..n, sl[j] = x PROVE FALSE
    OBVIOUS
  <1>1. sl \in [1..n -> A] /\ \A i, k \in 1..n : sl[i] = sl[k] => i = k
    BY DEF Chain
  <1>2. CASE j # 1
    <2>1. j - 1 \in 1..n /\ j - 1 \in 1..n - 1 /\ j - 1 + 1 = j /\ n \in 1..n
      BY <1>2
    <2>2. Follows(A, pos, M, sl[j - 1], x)
      BY <2>1 DEF Chain
    <2>3. sl[j - 1] = sl[n]
      BY <1>1, <2>1, <2>2, FollowsOnce
    <2>4. QED
      BY <1>1, <2>1, <2>3
  <1>3. CASE j = 1
    <2> DEFINE B == {sl[i] : i \in 1..n}
    <2>1. B \in SUBSET A /\ B # {}
      BY <1>1
    <2>2. \A b \in B : \E y \in B : Follows(A, pos, M, b, y)
      <3> SUFFICES ASSUME NEW i \in 1..n PROVE \E y \in B : Follows(A, pos, M, sl[i], y)
        OBVIOUS
      <3>1. CASE i = n
        BY <1>3, <3>1
      <3>2. CASE i # n
        <4>1. i \in 1..n - 1 /\ i + 1 \in 1..n
          BY <3>2
        <4>2. QED
          BY <4>1 DEF Chain
      <3>3. QED
        BY <3>1, <3>2
    <2>3. B = A
      <3> HIDE DEF B
      <3>1. QED
        BY <2>1, <2>2, ClosedIsAll
    <2>4. sl \in Injection(1..n, A) /\ sl \in Surjection(1..n, A)
      BY <1>1, <2>3 DEF Injection, Surjection, IsInjective
    <2>5. Cardinality(1..n) = n
      BY FS_Interval
    <2>6. Cardinality(1..n) = Cardinality(A)
      BY <2>4, FS_Injection
    <2>7. QED
      BY <2>5, <2>6
  <1>4. QED
    BY <1>2, <1>3

\* A chain goes on.
LEMMA ChainGrows ==
    ASSUME NEW A, IsFiniteSet(A), NEW pos, NEW M, OnRing(A, pos, M),
           NEW n \in Nat \ {0}, NEW sl, Chain(A, pos, M, sl, n),
           NEW x \in A, Follows(A, pos, M, sl[n], x), n < Cardinality(A)
    PROVE  Chain(A, pos, M, [i \in 1..n + 1 |-> IF i = n + 1 THEN x ELSE sl[i]], n + 1)
  <1> DEFINE r == [i \in 1..n + 1 |-> IF i = n + 1 THEN x ELSE sl[i]]
  <1>1. sl \in [1..n -> A] /\ \A i, k \in 1..n : sl[i] = sl[k] => i = k
    BY DEF Chain
  <1>2. \A i \in 1..n : sl[i] # x
    BY ChainNew
  <1>3. /\ n + 1 \in 1..n + 1 /\ r[n + 1] = x
        /\ \A i \in 1..n + 1 : i = n + 1 \/ (i \in 1..n /\ r[i] = sl[i])
    OBVIOUS
  <1>4. r \in [1..n + 1 -> A]
    BY <1>1
  <1> HIDE DEF r
  <1>5. \A i, k \in 1..n + 1 : r[i] = r[k] => i = k
    BY <1>1, <1>2, <1>3
  <1>6. ASSUME NEW i \in 1..(n + 1) - 1 PROVE Follows(A, pos, M, r[i], r[i + 1])
    <2>1. i \in 1..n /\ i \in 1..n + 1 /\ i # n + 1 /\ i + 1 \in 1..n + 1
      OBVIOUS
    <2>2. r[i] = sl[i]
      BY <1>3, <2>1
    <2>3. CASE i = n
      BY <1>3, <2>2, <2>3
    <2>4. CASE i # n
      <3>1. i \in 1..n - 1 /\ i + 1 # n + 1
        BY <2>4
      <3>2. r[i + 1] = sl[i + 1]
        BY <1>3, <2>1, <3>1
      <3>3. QED
        BY <2>2, <3>1, <3>2 DEF Chain
    <2>5. QED
      BY <2>3, <2>4
  <1>7. Chain(A, pos, M, r, n + 1)
    BY <1>4, <1>5, <1>6 DEF Chain
  <1>8. QED
    BY <1>7 DEF r

\* A chain goes on and leaves its first element behind.
LEMMA ChainMoves ==
    ASSUME NEW A, NEW pos, NEW M, OnRing(A, pos, M),
           NEW n \in Nat \ {0}, NEW sl, Chain(A, pos, M, sl, n),
           NEW x \in A, Follows(A, pos, M, sl[n], x)
    PROVE  Chain(A, pos, M, [i \in 1..n |-> IF i = n THEN x ELSE sl[i + 1]], n)
  <1> DEFINE r == [i \in 1..n |-> IF i = n THEN x ELSE sl[i + 1]]
  <1>1. sl \in [1..n -> A] /\ \A i, k \in 1..n : sl[i] = sl[k] => i = k
    BY DEF Chain
  <1>2. ASSUME NEW i \in 1..n - 1 PROVE sl[i + 1] # x
    <2>1. i \in 1..n /\ i # n /\ i + 1 \in 1..n /\ n \in 1..n
      OBVIOUS
    <2>2. Follows(A, pos, M, sl[i], sl[i + 1])
      BY DEF Chain
    <2>3. sl[i] \in A /\ sl[n] \in A /\ sl[i] # sl[n]
      BY <1>1, <2>1
    <2>4. QED
      BY <2>2, <2>3, FollowsOnce
  <1>3. /\ n \in 1..n /\ r[n] = x
        /\ \A i \in 1..n : i = n \/ (i \in 1..n - 1 /\ i + 1 \in 1..n /\ r[i] = sl[i + 1])
    OBVIOUS
  <1>4. r \in [1..n -> A]
    BY <1>1
  <1> HIDE DEF r
  <1>5. \A i, k \in 1..n : r[i] = r[k] => i = k
    <2> SUFFICES ASSUME NEW i \in 1..n, NEW k \in 1..n, r[i] = r[k] PROVE i = k
      OBVIOUS
    <2>1. CASE i = n \/ k = n
      BY <1>2, <1>3, <2>1
    <2>2. CASE i # n /\ k # n
      <3>1. i + 1 \in 1..n /\ k + 1 \in 1..n /\ sl[i + 1] = sl[k + 1]
        BY <1>3, <2>2
      <3>2. i + 1 = k + 1
        BY <1>1, <3>1
      <3>3. QED
        BY <3>2
    <2>3. QED
      BY <2>1, <2>2
  <1>6. ASSUME NEW i \in 1..n - 1 PROVE Follows(A, pos, M, r[i], r[i + 1])
    <2>1. i \in 1..n /\ i # n /\ i + 1 \in 1..n
      OBVIOUS
    <2>2. r[i] = sl[i + 1]
      BY <1>3, <2>1
    <2>3. CASE i + 1 = n
      BY <1>3, <2>2, <2>3
    <2>4. CASE i + 1 # n
      <3>1. i + 1 \in 1..n - 1
        BY <2>4
      <3>2. r[i + 1] = sl[i + 1 + 1]
        BY <1>3, <2>1, <2>4
      <3>3. QED
        BY <2>2, <3>1, <3>2 DEF Chain
    <2>5. QED
      BY <2>3, <2>4
  <1>7. Chain(A, pos, M, r, n)
    BY <1>4, <1>5, <1>6 DEF Chain
  <1>8. QED
    BY <1>7 DEF r

\* A chain as long as there are elements comes to each of them.
LEMMA ChainFull ==
    ASSUME NEW A, IsFiniteSet(A), NEW pos, NEW M, NEW n \in Nat, n = Cardinality(A),
           NEW sl, Chain(A, pos, M, sl, n)
    PROVE  \A a \in A : \E i \in 1..n : sl[i] = a
  <1>1. sl \in Injection(1..n, A)
    BY DEF Chain, Injection, IsInjective
  <1>2. Cardinality(1..n) = n
    BY FS_Interval
  <1>3. sl \in Surjection(1..n, A)
    BY <1>1, <1>2, FS_Injection
  <1>4. QED
    BY <1>3 DEF Surjection

-----------------------------------------------------------------------------
(* The slots of a round.                                                   *)

\* get_healthy_servers returns no server twice.
LEMMA HealthyOnce ==
    ASSUME is_healthy \in [1..N -> BOOLEAN]
    PROVE  \A i, j \in 1..Len(Healthy) : Healthy[i] = Healthy[j] => i = j
  <1>1. PICK f : /\ f[0] = <<>> /\ Healthy = f[N]
                 /\ \A n \in 1..N : f[n] = IF is_healthy[n] THEN Append(f[n - 1], n) ELSE f[n - 1]
    BY HealthyRecursion
  <1> DEFINE Good(n) == /\ f[n] \in Seq(1..N)
                        /\ \A i \in 1..Len(f[n]) : f[n][i] <= n
                        /\ \A i, j \in 1..Len(f[n]) : f[n][i] = f[n][j] => i = j
             T == {n \in 0..N : Good(n)}
  <1>0. N \in Nat /\ N > 0
    BY ServersAssumption
  <1>2. 0 \in T
    <2>1. f[0] \in Seq(1..N) /\ Len(f[0]) = 0
      BY <1>1
    <2>2. QED
      BY <1>0, <2>1
  <1>3. ASSUME NEW n \in 1..N, n - 1 \in T PROVE n \in T
    <2> DEFINE q == f[n - 1]
               r == f[n]
    <2>1. /\ q \in Seq(1..N) /\ Len(q) \in Nat
          /\ \A i \in 1..Len(q) : q[i] \in 1..N /\ q[i] <= n - 1
          /\ \A i, j \in 1..Len(q) : q[i] = q[j] => i = j
      <3>1. Good(n - 1)
        BY <1>3
      <3>2. q \in Seq(1..N)
        BY <3>1
      <3>3. \A i \in 1..Len(q) : q[i] \in 1..N
        BY <3>2, ElementOfSeq
      <3>4. QED
        BY <3>1, <3>3
    <2>2. r = IF is_healthy[n] THEN Append(q, n) ELSE q
      BY <1>1
    <2> HIDE DEF q, r
    <2>3. CASE ~is_healthy[n]
      <3>1. r = q
        BY <2>2, <2>3
      <3>2. \A i \in 1..Len(q) : q[i] <= n
        BY <1>0, <2>1
      <3>3. Good(n)
        BY <2>1, <3>1, <3>2 DEF r
      <3> HIDE DEF Good
      <3>4. QED
        BY <1>0, <3>3
    <2>4. CASE is_healthy[n]
      <3>1. /\ r \in Seq(1..N) /\ Len(r) = Len(q) + 1 /\ r[Len(q) + 1] = n
            /\ \A i \in 1..Len(q) : r[i] = q[i]
        BY <2>1, <2>2, <2>4
      <3>2. \A i \in 1..Len(r) : i = Len(q) + 1 \/ i \in 1..Len(q)
        BY <2>1, <3>1
      <3>3. \A i \in 1..Len(r) : r[i] <= n /\ (r[i] = n => i = Len(q) + 1)
        BY <1>0, <2>1, <3>1, <3>2
      <3>4. \A i, j \in 1..Len(r) : r[i] = r[j] => i = j
        BY <2>1, <3>1, <3>2, <3>3
      <3>5. Good(n)
        BY <3>1, <3>3, <3>4 DEF r
      <3> HIDE DEF Good
      <3>6. QED
        BY <1>0, <3>5
    <2>5. QED
      BY <2>3, <2>4
  <1>4. T = 0..N
    <2> HIDE DEF Good
    <2>1. 0 \in 0..N /\ T \in SUBSET (0..N)
      BY <1>0
    <2> HIDE DEF T
    <2>2. \A n \in 0 + 1..N : n - 1 \in T => n \in T
      BY <1>0, <1>3
    <2>3. QED
      BY <1>0, <1>2, <2>1, <2>2, UpTo
  <1>5. Good(N)
    <2>1. N \in T
      <3> HIDE DEF T
      <3>1. QED
        BY <1>0, <1>4
    <2> HIDE DEF Good
    <2>2. QED
      BY <2>1
  <1>6. QED
    BY <1>1, <1>5

\* A set that can be numbered from 1 to n has n elements.
LEMMA Numbered ==
    ASSUME NEW n \in Nat, NEW S, NEW f \in [1..n -> S],
           \A i, j \in 1..n : f[i] = f[j] => i = j,
           \A x \in S : \E i \in 1..n : f[i] = x
    PROVE  IsFiniteSet(S) /\ Cardinality(S) = n
  <1>1. f \in Injection(1..n, S) /\ f \in Surjection(1..n, S)
    BY DEF Injection, Surjection, IsInjective
  <1>2. ExistsBijection(1..n, S)
    BY <1>1 DEF ExistsBijection, Bijection
  <1>3. IsFiniteSet(1..n) /\ Cardinality(1..n) = n
    BY FS_Interval
  <1>4. QED
    BY <1>2, <1>3, FS_Bijection

\* What a round hands out: a slot for each healthy server and each unit of its
\* share.
Slots == {a \in (1..N) \X (1..MaxWeight) : is_healthy[a[1]] /\ a[2] <= Share(a[1])}

\* There are as many slots as a round is long.
LEMMA SlotsCounted ==
    ASSUME TypeOK
    PROVE  IsFiniteSet(Slots) /\ Cardinality(Slots) = Round
  <1> DEFINE P == (1..N) \X (1..MaxWeight)
             S(n) == {a \in P : a[1] <= n /\ is_healthy[a[1]] /\ a[2] <= Share(a[1])}
  <1>0. N \in Nat /\ N > 0 /\ MaxWeight \in Nat /\ MaxWeight > 0
    BY ServersAssumption
  <1>1. PICK f : /\ f[0] = 0 /\ Round = f[N]
                 /\ \A n \in 1..N : f[n] = IF is_healthy[n] THEN f[n - 1] + Share(n) ELSE f[n - 1]
    BY RoundRecursion DEF TypeOK
  <1>2. \A n \in 1..N : Share(n) \in 1..MaxWeight
    BY <1>0 DEF Share, TypeOK
  <1> DEFINE Good(n) == IsFiniteSet(S(n)) /\ Cardinality(S(n)) = f[n]
             T == {n \in 0..N : Good(n)}
  <1>3. 0 \in T
    <2>1. S(0) = {}
      BY <1>0
    <2> HIDE DEF S
    <2>2. Good(0)
      BY <1>1, <2>1, FS_EmptySet
    <2> HIDE DEF Good
    <2>3. QED
      BY <1>0, <2>2
  <1>4. ASSUME NEW n \in 1..N, n - 1 \in T PROVE n \in T
    <2>1. Good(n - 1)
      BY <1>4
    <2>2. CASE ~is_healthy[n]
      <3>1. S(n) = S(n - 1)
        BY <1>0, <2>2
      <3>2. f[n] = f[n - 1]
        BY <1>1, <2>2
      <3> HIDE DEF S
      <3>3. Good(n)
        BY <2>1, <3>1, <3>2
      <3> HIDE DEF Good
      <3>4. QED
        BY <1>0, <3>3
    <2>3. CASE is_healthy[n]
      <3> DEFINE k == Share(n)
                 C == {a \in P : a[1] = n /\ a[2] <= k}
                 num == [i \in 1..k |-> <<n, i>>]
      <3>0. k \in 1..MaxWeight /\ k \in Nat
        BY <1>0, <1>2
      <3>1. S(n) = S(n - 1) \cup C
        BY <1>0, <2>3
      <3>2. S(n - 1) \cap C = {}
        BY <1>0
      <3>3. IsFiniteSet(C) /\ Cardinality(C) = k
        <4> HIDE DEF k
        <4>1. num \in [1..k -> C]
          BY <1>0, <3>0
        <4>2. \A i, j \in 1..k : num[i] = num[j] => i = j
          BY <3>0
        <4>3. ASSUME NEW a \in C PROVE \E i \in 1..k : num[i] = a
          <5>1. a = <<n, a[2]>> /\ a[2] \in 1..k
            BY <1>0, <3>0
          <5>2. QED
            BY <5>1
        <4> HIDE DEF num, C
        <4>4. QED
          BY <3>0, <4>1, <4>2, <4>3, Numbered
      <3>4. f[n] = f[n - 1] + k
        BY <1>1, <2>3
      <3> HIDE DEF S, C, k
      <3>5. /\ IsFiniteSet(S(n))
            /\ Cardinality(S(n)) = Cardinality(S(n - 1)) + Cardinality(C) - Cardinality({})
        <4>1. IsFiniteSet(S(n - 1))
          BY <2>1
        <4>2. QED
          BY <3>1, <3>2, <3>3, <4>1, FS_Union
      <3>6. Cardinality({}) = 0
        BY FS_EmptySet
      <3>7. Cardinality(S(n - 1)) \in Nat
        BY <2>1, FS_CardinalityType
      <3>8. Cardinality(S(n)) = f[n]
        <4>1. Cardinality(S(n - 1)) = f[n - 1]
          BY <2>1
        <4>2. QED
          BY <3>0, <3>3, <3>4, <3>5, <3>6, <3>7, <4>1
      <3>9. Good(n)
        BY <3>5, <3>8
      <3> HIDE DEF Good
      <3>10. QED
        BY <1>0, <3>9
    <2>4. QED
      BY <2>2, <2>3
  <1>5. T = 0..N
    <2> HIDE DEF Good
    <2>1. 0 \in 0..N /\ T \in SUBSET (0..N)
      BY <1>0
    <2> HIDE DEF T
    <2>2. \A n \in 0 + 1..N : n - 1 \in T => n \in T
      BY <1>0, <1>4
    <2>3. QED
      BY <1>0, <1>3, <2>1, <2>2, UpTo
  <1>6. Good(N)
    <2>1. N \in T
      <3> HIDE DEF T
      <3>1. QED
        BY <1>0, <1>5
    <2> HIDE DEF Good
    <2>2. QED
      BY <2>1
  <1>7. S(N) = Slots
    BY <1>0 DEF Slots
  <1> HIDE DEF S
  <1>8. QED
    BY <1>1, <1>6, <1>7

\* The greatest share of a healthy server.
Top == IF strategy = "WEIGHTED_ROUND_ROBIN" THEN GreatestWeight(Healthy) ELSE 1

\* The index of server s among the healthy ones.
Nth(s) == CHOOSE i \in 1..Len(Healthy) : Healthy[i] = s

\* The place of index i and weight w on a ring of g passages over k servers,
\* the passage for the greatest weight first.
Place(g, k, i, w) == (g - w) * k + i

\* The places of the slots.
Where == [a \in Slots |-> Place(Top, Len(Healthy), Nth(a[1]) - 1, a[2])]

\* The places of one passage are on the ring and below those of the next one.
LEMMA PlaceRange ==
    ASSUME NEW g \in Nat, NEW k \in Nat \ {0}, NEW w \in 1..g, NEW i \in 0..k - 1
    PROVE  /\ Place(g, k, i, w) \in 0..g * k - 1 /\ g * k \in Nat \ {0}
           /\ \A v \in 1..g : \A j \in 0..k - 1 : v < w => Place(g, k, i, w) < Place(g, k, j, v)
  <1> DEFINE a == g - w
  <1>1. a \in Nat /\ a + 1 <= g
    OBVIOUS
  <1>2. a * k \in Nat /\ (a + 1) * k = a * k + k /\ (a + 1) * k <= g * k /\ g * k \in Nat
    BY <1>1, Products
  <1>3. Place(g, k, i, w) = a * k + i
    BY DEF Place
  <1>4. ASSUME NEW v \in 1..g, NEW j \in 0..k - 1, v < w
        PROVE  Place(g, k, i, w) < Place(g, k, j, v)
    <2> DEFINE b == g - v
    <2>1. b \in Nat /\ a + 1 \in Nat /\ a + 1 <= b /\ k <= k /\ k \in Nat
      BY <1>4
    <2>2. Place(g, k, j, v) = b * k + j
      BY DEF Place
    <2> HIDE DEF a, b
    <2>3. b * k \in Nat /\ (a + 1) * k <= b * k
      BY <2>1, Products
    <2>4. QED
      BY <1>2, <1>3, <2>2, <2>3
  <1> HIDE DEF a
  <1>5. a * k + i \in 0..g * k - 1 /\ g * k # 0
    BY <1>2
  <1>6. QED
    BY <1>2, <1>3, <1>4, <1>5

\* Different indices or weights have different places.
LEMMA PlaceOnce ==
    ASSUME NEW g \in Nat, NEW k \in Nat \ {0}, NEW w \in 1..g, NEW i \in 0..k - 1,
           NEW v \in 1..g, NEW j \in 0..k - 1, Place(g, k, i, w) = Place(g, k, j, v)
    PROVE  w = v /\ i = j
  <1>0. g * k \in Nat /\ Place(g, k, i, w) \in 0..g * k - 1 /\ Place(g, k, j, v) \in 0..g * k - 1
    BY PlaceRange
  <1>1. ~(v < w)
    <2>1. v < w => Place(g, k, i, w) < Place(g, k, j, v)
      BY PlaceRange
    <2>2. QED
      BY <1>0, <2>1
  <1>2. ~(w < v)
    <2>1. w < v => Place(g, k, j, v) < Place(g, k, i, w)
      BY PlaceRange
    <2>2. QED
      BY <1>0, <2>1
  <1>3. w = v
    BY <1>1, <1>2
  <1>4. (g - w) * k \in Nat
    <2>1. g - w \in Nat
      OBVIOUS
    <2>2. QED
      BY <2>1, Products
  <1>5. (g - w) * k + i = (g - w) * k + j
    BY <1>3 DEF Place
  <1>6. QED
    BY <1>3, <1>4, <1>5

\* A slot is a healthy server, by its index, and a weight up to the greatest share.
LEMMA SlotParts ==
    ASSUME TypeOK, Healthy # <<>>
    PROVE  /\ Healthy \in Seq(1..N) /\ Len(Healthy) \in 1..N /\ Len(Healthy) \in Nat \ {0}
           /\ Top \in Nat /\ Top \in 1..MaxWeight
           /\ \A a \in Slots : /\ Nth(a[1]) - 1 \in 0..Len(Healthy) - 1 /\ a[2] \in 1..Top
                               /\ a = <<Healthy[(Nth(a[1]) - 1) + 1], a[2]>>
  <1> DEFINE h == Healthy
  <1>0. N \in Nat /\ N > 0 /\ MaxWeight \in Nat /\ MaxWeight > 0
    BY ServersAssumption
  <1>1. h \in Seq(1..N) /\ Len(h) \in 1..N
    BY HealthyLength
  <1>2. \A s \in 1..N : is_healthy[s] <=> \E i \in 1..Len(h) : h[i] = s
    BY HealthyServers DEF TypeOK
  <1> HIDE DEF h
  <1>3. Len(h) \in Nat \ {0} /\ Len(h) # 0
    BY <1>0, <1>1
  <1>4. GreatestWeight(h) \in 1..MaxWeight /\ \A i \in 1..Len(h) : weight[h[i]] <= GreatestWeight(h)
    BY <1>1, <1>3, Greatest
  <1>5. Top \in 1..MaxWeight
    BY <1>0, <1>4 DEF Top, h
  <1>6. ASSUME NEW a \in Slots
        PROVE  /\ Nth(a[1]) - 1 \in 0..Len(h) - 1 /\ a[2] \in 1..Top
               /\ a = <<h[(Nth(a[1]) - 1) + 1], a[2]>>
    <2>1. /\ a = <<a[1], a[2]>> /\ a[1] \in 1..N /\ a[2] \in 1..MaxWeight
          /\ is_healthy[a[1]] /\ a[2] <= Share(a[1])
      BY DEF Slots
    <2>2. PICK i \in 1..Len(h) : h[i] = a[1]
      BY <1>2, <2>1
    <2>3. Nth(a[1]) \in 1..Len(h) /\ h[Nth(a[1])] = a[1]
      BY <2>2 DEF Nth, h
    <2>4. a[2] <= Top
      <3>1. CASE strategy = "WEIGHTED_ROUND_ROBIN"
        <4>1. weight[a[1]] \in 1..MaxWeight /\ weight[a[1]] <= GreatestWeight(h)
          BY <1>4, <2>1, <2>2 DEF TypeOK
        <4>2. Top = GreatestWeight(h) /\ a[2] <= weight[a[1]]
          BY <2>1, <3>1 DEF Top, Share, h
        <4>3. QED
          BY <1>0, <1>4, <2>1, <4>1, <4>2
      <3>2. CASE strategy # "WEIGHTED_ROUND_ROBIN"
        BY <2>1, <3>2 DEF Top, Share
      <3>3. QED
        BY <3>1, <3>2
    <2>5. Nth(a[1]) - 1 \in 0..Len(h) - 1 /\ (Nth(a[1]) - 1) + 1 = Nth(a[1])
      BY <1>3, <2>3
    <2>6. a[2] \in 1..Top
      BY <1>0, <1>5, <2>1, <2>4
    <2>7. QED
      BY <2>1, <2>3, <2>5, <2>6
  <1>7. Top \in Nat
    BY <1>0, <1>5
  <1>8. QED
    BY <1>1, <1>3, <1>5, <1>6, <1>7 DEF h

\* The slots are on a ring of as many passages as the greatest share.
LEMMA SlotsOnRing ==
    ASSUME TypeOK, Healthy # <<>>
    PROVE  OnRing(Slots, Where, Top * Len(Healthy))
  <1> DEFINE k == Len(Healthy)
             M == Top * k
             nr(a) == Nth(a[1]) - 1
  <1>1. /\ k \in Nat \ {0} /\ Top \in Nat
        /\ \A a \in Slots : /\ nr(a) \in 0..k - 1 /\ a[2] \in 1..Top
                            /\ a = <<Healthy[nr(a) + 1], a[2]>>
    BY SlotParts
  <1>2. \A a \in Slots : Where[a] = Place(Top, k, nr(a), a[2])
    BY DEF Where
  <1>3. M \in Nat \ {0}
    <2>1. Top \in 1..Top /\ 0 \in 0..k - 1
      <3>1. Top \in 1..MaxWeight /\ MaxWeight \in Nat
        BY SlotParts, ServersAssumption
      <3>2. QED
        BY <1>1, <3>1
    <2> HIDE DEF k
    <2>2. QED
      BY <1>1, <2>1, PlaceRange
  <1>4. \A a \in Slots : Where[a] \in 0..M - 1
    <2> SUFFICES ASSUME NEW a \in Slots PROVE Where[a] \in 0..M - 1
      OBVIOUS
    <2>1. nr(a) \in 0..k - 1 /\ a[2] \in 1..Top /\ Where[a] = Place(Top, k, nr(a), a[2])
      BY <1>1, <1>2
    <2> HIDE DEF k, nr
    <2>2. Place(Top, k, nr(a), a[2]) \in 0..Top * k - 1
      BY <1>1, <2>1, PlaceRange
    <2>3. QED
      BY <2>1, <2>2
  <1>5. ASSUME NEW a \in Slots, NEW b \in Slots, Where[a] = Where[b] PROVE a = b
    <2>1. /\ nr(a) \in 0..k - 1 /\ a[2] \in 1..Top /\ a = <<Healthy[nr(a) + 1], a[2]>>
          /\ nr(b) \in 0..k - 1 /\ b[2] \in 1..Top /\ b = <<Healthy[nr(b) + 1], b[2]>>
      BY <1>1
    <2>2. Place(Top, k, nr(a), a[2]) = Place(Top, k, nr(b), b[2])
      BY <1>2, <1>5
    <2> HIDE DEF k, nr
    <2>3. a[2] = b[2] /\ nr(a) = nr(b)
      BY <1>1, <2>1, <2>2, PlaceOnce
    <2>4. QED
      BY <2>1, <2>3
  <1>6. Where \in [Slots -> 0..M - 1]
    BY <1>4 DEF Where
  <1>7. QED
    BY <1>3, <1>5, <1>6 DEF OnRing

\* The slot of a healthy server, by its index.
LEMMA SlotAt ==
    ASSUME TypeOK, Healthy # <<>>, NEW i \in 0..Len(Healthy) - 1,
           NEW w \in Nat \ {0}, w <= Share(Healthy[i + 1])
    PROVE  /\ <<Healthy[i + 1], w>> \in Slots
           /\ w \in 1..Top
           /\ Where[<<Healthy[i + 1], w>>] = Place(Top, Len(Healthy), i, w)
  <1> DEFINE h == Healthy
             s == h[i + 1]
             x == <<s, w>>
  <1>0. N \in Nat /\ N > 0 /\ MaxWeight \in Nat /\ MaxWeight > 0
    BY ServersAssumption
  <1>1. h \in Seq(1..N) /\ Len(h) \in Nat \ {0}
    BY SlotParts
  <1>2. i + 1 \in 1..Len(h)
    BY <1>1
  <1>3. s \in 1..N
    <2> HIDE DEF h
    <2>1. QED
      BY <1>1, <1>2, ElementOfSeq
  <1>4. is_healthy[s]
    BY <1>2, <1>3, HealthyServers DEF TypeOK
  <1>5. Share(s) \in 1..MaxWeight
    BY <1>0, <1>3 DEF Share, TypeOK
  <1>6. x \in Slots
    <2>1. w \in 1..MaxWeight /\ w <= Share(s)
      BY <1>0, <1>5
    <2>2. QED
      BY <1>3, <1>4, <2>1 DEF Slots
  <1>7. x[1] = s /\ x[2] = w
    OBVIOUS
  <1>8. Nth(x[1]) - 1 \in 0..Len(h) - 1 /\ x[2] \in 1..Top /\ x = <<h[(Nth(x[1]) - 1) + 1], x[2]>>
    BY <1>6, SlotParts
  <1> DEFINE j == Nth(x[1]) - 1
  <1>9. j \in 0..Len(h) - 1 /\ s = h[j + 1] /\ j + 1 \in 1..Len(h)
    BY <1>1, <1>8
  <1>10. j = i
    <2> HIDE DEF j
    <2>1. j + 1 = i + 1
      BY <1>2, <1>9, HealthyOnce DEF TypeOK
    <2>2. QED
      BY <1>1, <1>9, <2>1
  <1>11. Where[x] = Place(Top, Len(h), j, x[2])
    BY <1>6 DEF Where
  <1> HIDE DEF j
  <1>12. QED
    BY <1>6, <1>8, <1>7, <1>10, <1>11

-----------------------------------------------------------------------------
(* A selection goes on to the slot that follows.                           *)

\* The slot of the last selection, as the indices tell it.
Current(a) ==
    \E i \in 0..Len(Healthy) - 1 :
        IF strategy = "WEIGHTED_ROUND_ROBIN"
        THEN i = weighted_index /\ a = <<Healthy[i + 1], current_weight>>
        ELSE (i + 1) % Len(Healthy) = rr_index % Len(Healthy) /\ a = <<Healthy[i + 1], 1>>

\* A selection goes on to the slot that follows.
GoesOn ==
    \E x \in Slots :
        /\ selected' = x[1]
        /\ Current(x)'
        /\ \A z \in Slots : Current(z) => Follows(Slots, Where, Top * Len(Healthy), z, x)

\* The remainder of the next number.
LEMMA ModuloNext ==
    ASSUME NEW r \in Nat, NEW k \in Nat \ {0}
    PROVE  ((r % k) + 1) % k = (r + 1) % k
  <1> DEFINE q == r \div k
             m == r % k
  <1>1. q \in Nat /\ m \in 0..k - 1 /\ r = k * q + m
    OBVIOUS
  <1> HIDE DEF q, m
  <1>2. k * q \in Nat /\ k * (q + 1) = k * q + k
    BY <1>1
  <1>3. \A a \in Nat : \A e \in 0..k - 1 : (k * a + e) % k = e
    OBVIOUS
  <1>4. CASE m + 1 < k
    <2>1. (r + 1) % k = m + 1
      BY <1>1, <1>2, <1>3, <1>4
    <2>2. QED
      BY <1>1, <1>4, <2>1, Modulo DEF m
  <1>5. CASE m + 1 = k
    <2>1. r + 1 = k * (q + 1) + 0
      BY <1>1, <1>2, <1>5
    <2>2. (r + 1) % k = 0
      BY <1>1, <1>3, <2>1
    <2>3. QED
      BY <1>5, <2>2, Modulo DEF m
  <1>6. QED
    BY <1>1, <1>4, <1>5

\* The way from one place to another.
LEMMA AheadRange ==
    ASSUME NEW M \in Nat \ {0}, NEW p \in 0..M - 1, NEW q \in 0..M - 1
    PROVE  /\ Ahead(M, p, q) \in 1..M
           /\ \A r \in 0..M - 1 : Ahead(M, p, q) = Ahead(M, p, r) => q = r
  BY DEF Ahead

\* One place further.
LEMMA AheadNext ==
    ASSUME NEW M \in Nat \ {0}, NEW p \in 0..M - 1, NEW q \in 0..M - 1, NEW r \in 0..M - 1,
           r = IF q + 1 = M THEN 0 ELSE q + 1
    PROVE  Ahead(M, p, r) = IF q = p THEN 1 ELSE Ahead(M, p, q) + 1
  BY DEF Ahead

\* Round robin goes on to the next healthy server.
LEMMA RoundRobinGoesOn ==
    ASSUME TypeOK, Healthy # <<>>, strategy = "ROUND_ROBIN", RoundRobin(Healthy),
           UNCHANGED <<strategy, is_healthy, weight>>
    PROVE  GoesOn
  <1> DEFINE h == Healthy
             k == Len(h)
             j == rr_index % k
  <1>0. k \in 1..N /\ k \in Nat \ {0} /\ rr_index \in Nat /\ RRPeriod \in Nat \ {0} /\ rr_index < RRPeriod
    BY SlotParts, PeriodAssumption DEF TypeOK
  <1>1. Healthy' = h
    BY DEF Healthy
  <1>2. j \in 0..k - 1
    <2> HIDE DEF k
    <2>1. QED
      BY <1>0
  <1>3. Top = 1
    BY DEF Top
  <1>4. ASSUME NEW i \in 0..k - 1
        PROVE  <<h[i + 1], 1>> \in Slots /\ Where[<<h[i + 1], 1>>] = i
    <2>1. 1 \in Nat \ {0} /\ 1 <= Share(h[i + 1])
      BY DEF Share
    <2>2. <<h[i + 1], 1>> \in Slots /\ Where[<<h[i + 1], 1>>] = Place(Top, k, i, 1)
      BY <2>1, SlotAt
    <2>3. Place(Top, k, i, 1) = i
      <3> HIDE DEF k
      <3>1. 0 * k = 0
        BY <1>0
      <3>2. Place(Top, k, i, 1) = 0 * k + i
        BY <1>0, <1>3 DEF Place
      <3>3. QED
        BY <1>0, <3>1, <3>2
    <2>4. QED
      BY <2>2, <2>3
  <1> PICK x : x = <<h[j + 1], 1>>
    OBVIOUS
  <1>5. x \in Slots /\ Where[x] = j
    BY <1>2, <1>4
  <1>6. selected' = x[1]
    BY DEF RoundRobin
  <1>7. Current(x)'
    <2>1. RRPeriod % k = 0
      BY <1>0, PeriodAssumption
    <2>2. rr_index' = (rr_index + 1) % RRPeriod
      BY DEF RoundRobin
    <2>3. rr_index' % k = (rr_index + 1) % k
      <3> HIDE DEF k
      <3>1. CASE rr_index + 1 = RRPeriod
        <4>1. rr_index' = 0
          BY <1>0, <2>2, <3>1, Modulo
        <4>2. 0 % k = 0
          BY <1>0
        <4>3. QED
          BY <2>1, <3>1, <4>1, <4>2
      <3>2. CASE rr_index + 1 # RRPeriod
        <4>1. rr_index + 1 \in 0..RRPeriod - 1
          BY <1>0, <3>2
        <4>2. rr_index' = rr_index + 1
          BY <1>0, <2>2, <4>1, Modulo
        <4>3. QED
          BY <4>2
      <3>3. QED
        BY <3>1, <3>2
    <2>4. (j + 1) % k = rr_index' % k
      <3> HIDE DEF k
      <3>1. QED
        BY <1>0, <2>3, ModuloNext
    <2> HIDE DEF j, h
    <2>5. \E i \in 0..k - 1 : (i + 1) % k = rr_index' % k /\ x = <<h[i + 1], 1>>
      BY <1>2, <2>4
    <2>6. strategy' # "WEIGHTED_ROUND_ROBIN"
      OBVIOUS
    <2>7. QED
      BY <1>1, <2>5, <2>6 DEF Current
  <1>8. ASSUME NEW z \in Slots, Current(z) PROVE Follows(Slots, Where, Top * k, z, x)
    <2>1. PICK i \in 0..k - 1 : (i + 1) % k = j /\ z = <<h[i + 1], 1>>
      BY <1>8 DEF Current
    <2>2. Where[z] = i
      BY <1>4, <2>1
    <2> HIDE DEF h
    <2>3. Top * k = k
      <3> HIDE DEF k
      <3>1. QED
        BY <1>0, <1>3
    <2>4. j = IF i + 1 = k THEN 0 ELSE i + 1
      <3>1. (i + 1) % k = j
        BY <2>1
      <3> HIDE DEF k, j
      <3>2. CASE i + 1 = k
        BY <1>0, <3>1, <3>2, Modulo
      <3>3. CASE i + 1 # k
        <4>1. i + 1 \in 0..k - 1
          BY <1>0, <3>3
        <4>2. QED
          BY <1>0, <3>1, <3>3, <4>1, Modulo
      <3>4. QED
        BY <3>2, <3>3
    <2>5. Ahead(k, i, j) = 1
      <3> HIDE DEF k, j
      <3>1. QED
        BY <1>0, <1>2, <2>4, AheadNext
    <2>6. ASSUME NEW c \in Slots PROVE Ahead(k, i, j) <= Ahead(k, i, Where[c])
      <3>1. Where[c] \in 0..k - 1
        BY <2>3, SlotsOnRing DEF OnRing, h
      <3> HIDE DEF k, j
      <3>2. Ahead(k, i, Where[c]) \in 1..k
        BY <1>0, <3>1, AheadRange
      <3>3. QED
        BY <1>0, <2>5, <3>2
    <2>7. QED
      BY <1>5, <2>2, <2>3, <2>6 DEF Follows
  <1>9. QED
    BY <1>5, <1>6, <1>7, <1>8 DEF GoesOn

\* Where the loop is once current_weight is between 1 and the greatest weight
\* of the healthy servers.
OnTheRing(h, p) == p.i \in 0..Len(h) - 1 /\ p.w \in 1..GreatestWeight(h)

\* The place on the ring.
PlaceOf(h, p) == Place(GreatestWeight(h), Len(h), p.i, p.w)

\* One turn of the loop is one place further on the ring.
LEMMA AdvanceOnRing ==
    ASSUME TypeOK, NEW h \in Seq(1..N), Len(h) \in 1..N, NEW p, OnTheRing(h, p)
    PROVE  /\ OnTheRing(h, Advance(h, p))
           /\ PlaceOf(h, Advance(h, p)) = IF PlaceOf(h, p) + 1 = GreatestWeight(h) * Len(h) THEN 0
                                          ELSE PlaceOf(h, p) + 1
  <1> DEFINE k == Len(h)
             g == GreatestWeight(h)
             q == Advance(h, p)
             i == p.i
             w == p.w
  <1>0. k \in Nat \ {0} /\ g \in Nat \ {0} /\ i \in 0..k - 1 /\ w \in 1..g
    <2>1. N \in Nat /\ MaxWeight \in Nat /\ Len(h) # 0
      BY ServersAssumption
    <2>2. g \in 1..MaxWeight
      BY <2>1, Greatest
    <2>3. QED
      BY <2>1, <2>2 DEF OnTheRing
  <1>1. i + 1 < k => (i + 1) % k = i + 1
    <2> HIDE DEF k, i
    <2>1. i + 1 < k => i + 1 \in 0..k - 1
      BY <1>0
    <2>2. QED
      BY <1>0, <2>1, Modulo
  <1>2. i + 1 = k => (i + 1) % k = 0
    BY <1>0, Modulo
  <1>3. i + 1 < k => q.i = i + 1 /\ q.w = w
    BY <1>0, <1>1 DEF Advance
  <1>4. i + 1 = k => q.i = 0 /\ q.w = IF w <= 1 THEN g ELSE w - 1
    BY <1>2 DEF Advance
  <1>5. PlaceOf(h, p) = (g - w) * k + i /\ PlaceOf(h, q) = (g - q.w) * k + q.i
    BY DEF PlaceOf, Place
  <1> SUFFICES /\ q.i \in 0..k - 1 /\ q.w \in 1..g
               /\ PlaceOf(h, q) = IF PlaceOf(h, p) + 1 = g * k THEN 0 ELSE PlaceOf(h, p) + 1
    BY DEF OnTheRing
  <1> DEFINE a == g - w
             P == PlaceOf(h, p)
             R == PlaceOf(h, q)
             M == g * k
  <1> HIDE DEF k, g, q, i, w
  <1>6. a \in Nat /\ a + 1 <= g
    BY <1>0
  <1>7. a * k \in Nat /\ (a + 1) * k = a * k + k /\ (a + 1) * k <= M /\ M \in Nat
    BY <1>0, <1>6, Products
  <1>8. P = a * k + i
    BY <1>5
  <1>9. CASE i + 1 < k
    <2>1. q.i = i + 1 /\ q.w = w
      BY <1>3, <1>9
    <2>2. R = a * k + (i + 1)
      BY <1>5, <2>1
    <2> HIDE DEF a, P, R, M
    <2>3. P + 1 < M
      BY <1>0, <1>7, <1>8, <1>9
    <2>4. R = P + 1
      BY <1>0, <1>7, <1>8, <2>2
    <2>5. q.i \in 0..k - 1 /\ q.w \in 1..g
      BY <1>0, <1>9, <2>1
    <2>6. P + 1 # M
      BY <1>0, <1>7, <1>8, <2>3
    <2>7. QED
      BY <2>4, <2>5, <2>6 DEF P, R, M
  <1>10. CASE i + 1 = k /\ w <= 1
    <2>1. q.i = 0 /\ q.w = g /\ w = 1 /\ g - q.w = 0 /\ a + 1 = g
      BY <1>0, <1>4, <1>10
    <2>2. R = 0
      BY <1>0, <1>5, <2>1
    <2> HIDE DEF a, P, R
    <2>3. M = a * k + k
      BY <1>7, <2>1
    <2> HIDE DEF M
    <2>4. P + 1 = M
      BY <1>0, <1>7, <1>8, <1>10, <2>3
    <2>5. q.i \in 0..k - 1 /\ q.w \in 1..g
      BY <1>0, <2>1
    <2>6. QED
      BY <2>2, <2>4, <2>5 DEF P, R, M
  <1>11. CASE i + 1 = k /\ ~(w <= 1)
    <2>1. q.i = 0 /\ q.w = w - 1 /\ g - q.w = a + 1 /\ a + 1 + 1 <= g /\ a + 1 \in Nat
      BY <1>0, <1>4, <1>11
    <2>2. R = (a + 1) * k
      BY <1>0, <1>5, <1>7, <2>1
    <2>3. (a + 1 + 1) * k <= M /\ (a + 1 + 1) * k = (a + 1) * k + k
      BY <1>0, <2>1, Products
    <2>4. q.i \in 0..k - 1 /\ q.w \in 1..g
      BY <1>0, <1>11, <2>1
    <2> HIDE DEF a, P, R, M
    <2>5. R = P + 1
      BY <1>0, <1>7, <1>8, <1>11, <2>2
    <2>6. P + 1 # M
      BY <1>0, <1>7, <1>8, <1>11, <2>3
    <2>7. QED
      BY <2>4, <2>5, <2>6 DEF P, R, M
  <1>12. QED
    BY <1>0, <1>9, <1>10, <1>11

\* After m turns from a place on the ring the loop is m places further on.
LEMMA WalkOnRing ==
    ASSUME TypeOK, NEW h \in Seq(1..N), Len(h) \in 1..N, OnTheRing(h, Turns(h)[0])
    PROVE  /\ GreatestWeight(h) * Len(h) \in 1..Horizon
           /\ \A m \in 1..GreatestWeight(h) * Len(h) :
                 /\ OnTheRing(h, Turns(h)[m])
                 /\ Ahead(GreatestWeight(h) * Len(h), PlaceOf(h, Turns(h)[0]), PlaceOf(h, Turns(h)[m])) = m
  <1> DEFINE k == Len(h)
             g == GreatestWeight(h)
             M == g * k
             walk == Turns(h)
             P(m) == PlaceOf(h, walk[m])
  <1>0. k \in Nat \ {0} /\ g \in Nat \ {0} /\ N \in Nat /\ k <= N /\ MaxWeight \in Nat /\ g <= MaxWeight
    <2>1. N \in Nat /\ MaxWeight \in Nat /\ Len(h) # 0
      BY ServersAssumption
    <2>2. g \in 1..MaxWeight
      BY <2>1, Greatest
    <2>3. QED
      BY <2>1, <2>2
  <1>1. M \in Nat \ {0} /\ M \in 1..Horizon /\ Horizon \in Nat
    <2> HIDE DEF g, k
    <2>1. M \in Nat /\ M <= MaxWeight * N /\ MaxWeight * N \in Nat
      BY <1>0, Products
    <2>2. Horizon = MaxWeight * N + N
      BY <1>0 DEF Horizon
    <2>3. 1 * k <= M /\ 1 * k = k
      <3>1. 1 \in Nat /\ 1 <= g /\ k <= k
        BY <1>0
      <3>2. QED
        BY <1>0, <3>1, Products
    <2> HIDE DEF M
    <2>4. QED
      BY <1>0, <2>1, <2>2, <2>3
  <1>2. ASSUME NEW p, OnTheRing(h, p) PROVE PlaceOf(h, p) \in 0..M - 1
    <2>1. p.i \in 0..k - 1 /\ p.w \in 1..g
      BY <1>2 DEF OnTheRing
    <2>2. PlaceOf(h, p) = Place(g, k, p.i, p.w)
      BY DEF PlaceOf
    <2> HIDE DEF g, k
    <2>3. Place(g, k, p.i, p.w) \in 0..g * k - 1
      BY <1>0, <2>1, PlaceRange
    <2>4. QED
      BY <2>2, <2>3
  <1>3. ASSUME NEW m \in 1..M, OnTheRing(h, walk[m - 1])
        PROVE  /\ OnTheRing(h, walk[m])
               /\ P(m) = IF P(m - 1) + 1 = M THEN 0 ELSE P(m - 1) + 1
    <2>1. m \in 1..Horizon
      <3> HIDE DEF M
      <3>1. QED
        BY <1>1
    <2>2. walk[m] = Advance(h, walk[m - 1])
      BY <2>1, Walk
    <2>3. QED
      BY <1>3, <2>2, AdvanceOnRing
  <1> DEFINE Good(m) == OnTheRing(h, walk[m]) /\ Ahead(M, P(0), P(m)) = m
             T == {m \in 1..M : Good(m)}
  <1> HIDE DEF M, walk
  <1>4. Good(1)
    <2>1. 1 \in 1..M /\ 1 - 1 = 0
      BY <1>1
    <2>2. OnTheRing(h, walk[0])
      BY DEF walk
    <2>3. OnTheRing(h, walk[1]) /\ P(1) = IF P(0) + 1 = M THEN 0 ELSE P(0) + 1
      BY <1>3, <2>1, <2>2
    <2>4. P(0) \in 0..M - 1 /\ P(1) \in 0..M - 1
      BY <1>2, <2>2, <2>3
    <2> HIDE DEF P
    <2>5. Ahead(M, P(0), P(1)) = 1
      BY <1>1, <2>3, <2>4, AheadNext
    <2>6. QED
      BY <2>3, <2>5
  <1>5. ASSUME NEW m \in 2..M, Good(m - 1) PROVE Good(m)
    <2>1. m \in 1..M /\ m - 1 # M
      BY <1>1
    <2>2. OnTheRing(h, walk[0])
      BY DEF walk
    <2>3. OnTheRing(h, walk[m]) /\ P(m) = IF P(m - 1) + 1 = M THEN 0 ELSE P(m - 1) + 1
      BY <1>3, <1>5, <2>1
    <2>4. P(0) \in 0..M - 1 /\ P(m) \in 0..M - 1 /\ P(m - 1) \in 0..M - 1
      BY <1>2, <1>5, <2>2, <2>3
    <2>5. Ahead(M, P(0), P(m - 1)) = m - 1
      BY <1>5
    <2> HIDE DEF P
    <2>6. P(m - 1) # P(0)
      <3>1. Ahead(M, P(0), P(0)) = M
        BY <1>1, <2>4 DEF Ahead
      <3>2. QED
        BY <2>1, <2>5, <3>1
    <2>7. Ahead(M, P(0), P(m)) = (m - 1) + 1
      <3>1. Ahead(M, P(0), P(m)) = Ahead(M, P(0), P(m - 1)) + 1
        BY <1>1, <2>3, <2>4, <2>6, AheadNext
      <3>2. QED
        BY <2>5, <3>1
    <2>8. (m - 1) + 1 = m
      BY <1>1
    <2>9. QED
      BY <2>3, <2>7, <2>8
  <1> HIDE DEF Good
  <1>6. T = 1..M
    <2>1. 1 \in 0..M /\ T \in SUBSET (1..M) /\ 1 \in T
      BY <1>1, <1>4
    <2>2. ASSUME NEW m \in 1 + 1..M, m - 1 \in T PROVE m \in T
      <3>1. m \in 2..M /\ m \in 1..M
        BY <1>1
      <3>2. QED
        BY <1>5, <2>2, <3>1
    <2> HIDE DEF T
    <2>3. QED
      BY <1>1, <2>1, <2>2, UpTo
  <1>7. \A m \in 1..M : Good(m)
    BY <1>6
  <1>8. QED
    BY <1>1, <1>7 DEF Good, M, walk

\* The loop returns at each slot it comes to: at the latest when it comes to c
\* from the place where it started.
LEMMA ReturnsAtSlot ==
    ASSUME TypeOK, Healthy # <<>>, strategy = "WEIGHTED_ROUND_ROBIN",
           OnTheRing(Healthy, Turns(Healthy)[0]), NEW c \in Slots
    PROVE  LET d == Ahead(Top * Len(Healthy), PlaceOf(Healthy, Turns(Healthy)[0]), Where[c])
           IN  d \in 1..Top * Len(Healthy) /\ Returns(Healthy, Turns(Healthy), d)
  <1> DEFINE h == Healthy
             k == Len(h)
             g == Top
             M == g * k
             walk == Turns(h)
             z == PlaceOf(h, walk[0])
             d == Ahead(M, z, Where[c])
             j == Nth(c[1]) - 1
             v == c[2]
  <1>0. g = GreatestWeight(h)
    BY DEF Top
  <1>1. /\ h \in Seq(1..N) /\ k \in 1..N /\ k \in Nat \ {0} /\ g \in Nat
        /\ j \in 0..k - 1 /\ v \in 1..g /\ c = <<h[j + 1], v>>
    BY SlotParts
  <1>2. Where[c] = Place(g, k, j, v)
    BY DEF Where
  <1>3. OnTheRing(h, walk[0])
    OBVIOUS
  <1>4. v <= weight[h[j + 1]]
    <2>1. v <= Share(c[1]) /\ c[1] = h[j + 1]
      BY <1>1 DEF Slots
    <2>2. QED
      BY <2>1 DEF Share
  <1> SUFFICES d \in 1..M /\ Returns(h, walk, d)
    OBVIOUS
  <1>5. z = Place(g, k, walk[0].i, walk[0].w) /\ walk[0].i \in 0..k - 1 /\ walk[0].w \in 1..g
    BY <1>0, <1>3 DEF PlaceOf, OnTheRing
  <1> HIDE DEF h, g, k, j, v
  <1>6. M \in Nat \ {0} /\ Where[c] \in 0..M - 1
    BY <1>1, <1>2, PlaceRange
  <1>7. z \in 0..M - 1
    <2>1. Place(g, k, walk[0].i, walk[0].w) \in 0..M - 1
      BY <1>1, <1>5, PlaceRange
    <2>2. QED
      BY <1>5, <2>1
  <1>8. d \in 1..M
    <2> HIDE DEF M, z
    <2>1. QED
      BY <1>6, <1>7, AheadRange
  <1>9. OnTheRing(h, walk[d]) /\ Ahead(M, z, PlaceOf(h, walk[d])) = d
    <2>1. \A m \in 1..M : OnTheRing(h, walk[m]) /\ Ahead(M, z, PlaceOf(h, walk[m])) = m
      BY <1>0, <1>1, <1>3, WalkOnRing DEF k
    <2> HIDE DEF M, z, d
    <2>2. QED
      BY <1>8, <2>1
  <1> DEFINE i == walk[d].i
             w == walk[d].w
  <1>10. i \in 0..k - 1 /\ w \in 1..g /\ PlaceOf(h, walk[d]) = Place(g, k, i, w)
    BY <1>0, <1>9 DEF OnTheRing, PlaceOf, k
  <1>11. PlaceOf(h, walk[d]) = Where[c]
    <2>1. Place(g, k, i, w) \in 0..M - 1
      <3> HIDE DEF i, w
      <3>1. QED
        BY <1>1, <1>10, PlaceRange
    <2>2. PlaceOf(h, walk[d]) \in 0..M - 1
      BY <1>10, <2>1
    <2> DEFINE y == PlaceOf(h, walk[d])
    <2>3. Ahead(M, z, Where[c]) = Ahead(M, z, y)
      BY <1>9
    <2> HIDE DEF M, z, d, y
    <2>4. Where[c] = y
      BY <1>6, <1>7, <2>2, <2>3, AheadRange DEF y
    <2>5. QED
      BY <2>4 DEF y
  <1>12. w = v /\ i = j
    <2>1. Place(g, k, i, w) = Place(g, k, j, v)
      BY <1>2, <1>10, <1>11
    <2> HIDE DEF i, w
    <2>2. QED
      BY <1>1, <1>10, <2>1, PlaceOnce
  <1>13. Returns(h, walk, d)
    <2>1. weight[h[walk[d].i + 1]] >= walk[d].w
      <3>1. walk[d].i = j /\ walk[d].w = v
        BY <1>12
      <3>2. h[j + 1] \in 1..N
        <4>1. j + 1 \in 1..k
          BY <1>1
        <4>2. QED
          BY <1>1, <4>1, ElementOfSeq DEF k
      <3>3. weight[h[j + 1]] \in Nat /\ v \in Nat
        BY <1>1, <3>2 DEF TypeOK
      <3> HIDE DEF walk, d
      <3>4. QED
        BY <1>4, <3>1, <3>3
    <2>2. QED
      BY <2>1 DEF Returns
  <1>14. QED
    BY <1>8, <1>13

\* Weighted round robin goes on to the next slot on the ring.
LEMMA WeightedGoesOn ==
    ASSUME TypeOK, Healthy # <<>>, strategy = "WEIGHTED_ROUND_ROBIN",
           WeightedRoundRobin(Healthy), current_weight' # 0,
           UNCHANGED <<strategy, is_healthy, weight>>
    PROVE  GoesOn
  <1> DEFINE h == Healthy
             k == Len(h)
             g == Top
             M == g * k
             walk == Turns(h)
  <1>0. g = GreatestWeight(h)
    BY DEF Top
  <1>1. h \in Seq(1..N) /\ k \in 1..N /\ k \in Nat \ {0} /\ g \in Nat /\ MaxWeight \in Nat
    BY SlotParts, ServersAssumption
  <1>2. Healthy' = h
    BY DEF Healthy
  <1>3. PICK n \in 1..Horizon :
           /\ Returns(h, walk, n) /\ \A m \in 1..n - 1 : ~Returns(h, walk, m)
           /\ weighted_index' = walk[n].i /\ current_weight' = walk[n].w
           /\ selected' = h[walk[n].i + 1]
    BY DEF WeightedRoundRobin
  <1>4. Horizon \in Nat /\ walk[0] = [i |-> weighted_index, w |-> current_weight]
    BY <1>1, Walk
  <1>5. walk[n].i \in 0..k - 1 /\ walk[n].w \in 0..MaxWeight
    <2>1. n \in 0..Horizon
      BY <1>4
    <2>2. walk[n] \in Places /\ walk[n].i \in 0..k - 1
      BY <1>1, <2>1, Walk
    <2>3. QED
      BY <2>2 DEF Places
  <1> PICK i, w : i = walk[n].i /\ w = walk[n].w
    OBVIOUS
  <1> PICK x : x = <<h[i + 1], w>>
    OBVIOUS
  <1>6. w \in Nat \ {0} /\ w <= Share(h[i + 1]) /\ i \in 0..k - 1
    <2>1. weight[h[i + 1]] >= w
      BY <1>3 DEF Returns
    <2>2. h[i + 1] \in 1..N
      <3>1. i + 1 \in 1..k
        BY <1>1, <1>5
      <3> HIDE DEF h
      <3>2. QED
        BY <1>1, <3>1, ElementOfSeq
    <2>3. weight[h[i + 1]] \in Nat
      BY <1>1, <2>2 DEF TypeOK
    <2>4. Share(h[i + 1]) = weight[h[i + 1]]
      BY DEF Share
    <2>5. w # 0 /\ w \in Nat
      BY <1>1, <1>3, <1>5
    <2>6. QED
      BY <1>5, <2>1, <2>3, <2>4, <2>5
  <1>7. x \in Slots /\ Where[x] = Place(g, k, i, w)
    BY <1>6, SlotAt
  <1>8. selected' = x[1]
    BY <1>3
  <1>9. Current(x)'
    <2>1. i \in 0..Len(Healthy') - 1
      BY <1>2, <1>6
    <2>2. i = weighted_index' /\ x = <<Healthy'[i + 1], current_weight'>>
      BY <1>2, <1>3
    <2>3. QED
      BY <2>1, <2>2 DEF Current
  <1>10. ASSUME NEW z \in Slots, Current(z) PROVE Follows(Slots, Where, M, z, x)
    <2>1. weighted_index \in 0..k - 1 /\ z = <<h[weighted_index + 1], current_weight>>
      BY <1>10 DEF Current
    <2>2. z[2] = current_weight /\ z[1] = h[weighted_index + 1]
      BY <2>1
    <2>3. current_weight \in 1..g
      BY <2>2, SlotParts
    <2>4. current_weight <= Share(h[weighted_index + 1])
      BY <2>2 DEF Slots
    <2>5. Where[z] = Place(g, k, weighted_index, current_weight)
      <3>1. current_weight \in Nat \ {0}
        BY <1>1, <2>3
      <3>2. QED
        BY <2>1, <2>4, <3>1, SlotAt
    <2>6. OnTheRing(h, walk[0])
      BY <1>0, <1>4, <2>1, <2>3 DEF OnTheRing
    <2>7. Where[z] = PlaceOf(h, walk[0])
      BY <1>0, <1>4, <2>5 DEF PlaceOf
    <2>8. Where[x] = PlaceOf(h, walk[n])
      BY <1>0, <1>7 DEF PlaceOf
    <2>9. ASSUME NEW c \in Slots PROVE n <= Ahead(M, Where[z], Where[c]) /\ Ahead(M, Where[z], Where[c]) \in 1..M
      <3> DEFINE d == Ahead(M, Where[z], Where[c])
      <3>1. d \in 1..M /\ Returns(h, walk, d)
        BY <2>6, <2>7, ReturnsAtSlot
      <3>2. M \in Nat
        <4> HIDE DEF g, k
        <4>1. QED
          BY <1>1, Products
      <3> HIDE DEF d, M
      <3>3. ~(d <= n - 1)
        BY <1>3, <1>4, <3>1, <3>2
      <3>4. n <= d
        BY <1>4, <3>1, <3>2, <3>3
      <3>5. QED
        BY <3>1, <3>4 DEF d
    <2>10. Ahead(M, Where[z], Where[x]) = n
      <3>1. \A m \in 1..M : Ahead(M, PlaceOf(h, walk[0]), PlaceOf(h, walk[m])) = m
        BY <1>0, <1>1, <2>6, WalkOnRing
      <3>2. n \in 1..M
        <4>1. M \in Nat
          <5> HIDE DEF g, k
          <5>1. QED
            BY <1>1, Products
        <4> HIDE DEF M
        <4>2. QED
          BY <1>4, <1>7, <2>9, <4>1
      <3> HIDE DEF M, walk, h
      <3>3. QED
        BY <2>7, <2>8, <3>1, <3>2
    <2>11. QED
      BY <2>9, <2>10 DEF Follows
  <1>11. QED
    BY <1>7, <1>8, <1>9, <1>10 DEF GoesOn

-----------------------------------------------------------------------------
(* Fairness.                                                               *)

\* The selections q are those of a chain of slots, the last of which is x.
Recorded(q, x) ==
    \E sl : /\ Chain(Slots, Where, Top * Len(Healthy), sl, Len(q))
            /\ \A i \in 1..Len(q) : q[i] = sl[i][1]
            /\ x = sl[Len(q)]

\* The inductive invariant: the selections that are remembered are those of a
\* chain of slots that ends where the indices are.
RoundInv ==
    recent # <<>> =>
        /\ Healthy # <<>> /\ strategy \in {"ROUND_ROBIN", "WEIGHTED_ROUND_ROBIN"}
        /\ Len(recent) <= Round
        /\ \E x \in Slots : Current(x) /\ Recorded(recent, x)

\* The first selection that is remembered.
LEMMA RecordedFirst ==
    ASSUME TypeOK, Healthy # <<>>, NEW x \in Slots, NEW q, q = LastOf(Append(<<>>, x[1]), Round)
    PROVE  q # <<>> /\ Len(q) <= Round /\ Recorded(q, x)
  <1>1. IsFiniteSet(Slots) /\ Cardinality(Slots) = Round /\ Round \in Nat
    BY SlotsCounted, RoundType DEF TypeOK
  <1>2. Round >= 1
    <2>1. Cardinality(Slots) # 0
      BY <1>1, FS_EmptySet
    <2>2. QED
      BY <1>1, <2>1
  <1> DEFINE r == Append(<<>>, x[1])
  <1>3. Len(r) = 1 /\ r[1] = x[1]
    OBVIOUS
  <1> HIDE DEF r
  <1>4. q = r
    BY <1>1, <1>2, <1>3 DEF LastOf, r
  <1>5. Len(q) = 1 /\ q[1] = x[1]
    BY <1>3, <1>4
  <1>6. Chain(Slots, Where, Top * Len(Healthy), [i \in 1..1 |-> x], 1)
    BY DEF Chain
  <1>7. Recorded(q, x)
    <2> PICK sl : sl = [i \in 1..1 |-> x]
      OBVIOUS
    <2>1. sl[1] = x
      OBVIOUS
    <2>2. \A i \in 1..Len(q) : q[i] = sl[i][1]
      BY <1>5, <2>1
    <2>3. QED
      BY <1>5, <1>6, <2>1, <2>2 DEF Recorded
  <1>8. QED
    BY <1>1, <1>2, <1>5, <1>7

\* Another selection, from the slot that follows.
LEMMA RecordedNext ==
    ASSUME TypeOK, Healthy # <<>>, recent # <<>>, Len(recent) <= Round,
           NEW z \in Slots, Recorded(recent, z),
           NEW x \in Slots, Follows(Slots, Where, Top * Len(Healthy), z, x),
           NEW q, q = LastOf(Append(recent, x[1]), Round)
    PROVE  q # <<>> /\ Len(q) <= Round /\ Recorded(q, x)
  <1> DEFINE M == Top * Len(Healthy)
             n == Len(recent)
             r == Append(recent, x[1])
  <1>0. recent \in Seq(1..N) /\ n \in Nat \ {0} /\ x[1] \in 1..N
    BY DEF TypeOK, Slots
  <1>1. IsFiniteSet(Slots) /\ Cardinality(Slots) = Round /\ Round \in Nat
    BY SlotsCounted, RoundType DEF TypeOK
  <1>2. OnRing(Slots, Where, M)
    BY SlotsOnRing
  <1>3. PICK sl : /\ Chain(Slots, Where, M, sl, n)
                  /\ \A i \in 1..n : recent[i] = sl[i][1]
                  /\ z = sl[n]
    BY DEF Recorded
  <1>4. r \in Seq(1..N) /\ Len(r) = n + 1 /\ r[n + 1] = x[1] /\ \A i \in 1..n : r[i] = recent[i]
    BY <1>0
  <1>5. n <= Round /\ Follows(Slots, Where, M, sl[n], x)
    BY <1>3
  <1>6. CASE n < Round
    <2> PICK t : t = [i \in 1..n + 1 |-> IF i = n + 1 THEN x ELSE sl[i]]
      OBVIOUS
    <2>1. Chain(Slots, Where, M, t, n + 1)
      <3> HIDE DEF M, n
      <3>1. QED
        BY <1>0, <1>1, <1>2, <1>3, <1>5, <1>6, ChainGrows
    <2>2. q = r
      BY <1>0, <1>1, <1>4, <1>6 DEF LastOf
    <2> HIDE DEF n, r
    <2>3. t[n + 1] = x /\ \A i \in 1..n : t[i] = sl[i]
      BY <1>0
    <2>4. \A i \in 1..n + 1 : r[i] = t[i][1]
      BY <1>0, <1>3, <1>4, <2>3
    <2>5. Len(q) = n + 1
      BY <1>4, <2>2
    <2>6. Recorded(q, x)
      BY <2>1, <2>2, <2>3, <2>4, <2>5 DEF Recorded
    <2>7. q # <<>> /\ Len(q) <= Round
      BY <1>0, <1>1, <1>6, <2>5
    <2>8. QED
      BY <2>6, <2>7
  <1>7. CASE n = Round
    <2> PICK t : t = [i \in 1..n |-> IF i = n THEN x ELSE sl[i + 1]]
      OBVIOUS
    <2>1. Chain(Slots, Where, M, t, n)
      <3> HIDE DEF M, n
      <3>1. QED
        BY <1>0, <1>2, <1>3, <1>5, ChainMoves
    <2>2. q = SubSeq(r, 2, n + 1)
      <3>1. ~(Len(r) <= Round) /\ Len(r) - Round + 1 = 2
        BY <1>0, <1>4, <1>7
      <3>2. q = LastOf(r, Round)
        OBVIOUS
      <3> HIDE DEF n, r
      <3>3. QED
        BY <1>4, <3>1, <3>2 DEF LastOf
    <2> HIDE DEF n, r
    <2>3. t[n] = x /\ \A i \in 1..n - 1 : t[i] = sl[i + 1]
      BY <1>0
    <2>4. Len(q) = n /\ \A i \in 1..n : q[i] = r[i + 1]
      BY <1>0, <1>4, <2>2
    <2>5. \A i \in 1..n : q[i] = t[i][1]
      <3> SUFFICES ASSUME NEW i \in 1..n PROVE q[i] = t[i][1]
        OBVIOUS
      <3>1. CASE i = n
        BY <1>4, <2>3, <2>4, <3>1
      <3>2. CASE i # n
        <4>1. i \in 1..n - 1 /\ i + 1 \in 1..n
          BY <1>0, <3>2
        <4>2. r[i + 1] = recent[i + 1] /\ recent[i + 1] = sl[i + 1][1]
          BY <1>3, <1>4, <4>1
        <4>3. QED
          BY <2>3, <2>4, <4>1, <4>2
      <3>3. QED
        BY <3>1, <3>2
    <2>6. Recorded(q, x)
      BY <2>1, <2>3, <2>4, <2>5 DEF Recorded
    <2>7. q # <<>> /\ Len(q) <= Round
      BY <1>0, <1>7, <1>1, <2>4
    <2>8. QED
      BY <2>6, <2>7
  <1>8. QED
    BY <1>0, <1>1, <1>5, <1>6, <1>7

\* A selection keeps the invariant.
LEMMA SelectKeepsRound ==
    ASSUME TypeOK, RoundInv, Select
    PROVE  RoundInv'
  <1>0. strategy' = strategy /\ is_healthy' = is_healthy /\ weight' = weight
    BY DEF Select
  <1>1. Healthy' = Healthy
    BY <1>0 DEF Healthy
  <1>2. Slots' = Slots
    BY <1>0 DEF Slots, Share
  <1>3. Round' = Round
    BY <1>0 DEF Round, Share
  <1>4. Top' = Top
    BY <1>0, <1>1 DEF Top, GreatestWeight
  <1>5. Where' = Where
    BY <1>1, <1>2, <1>4 DEF Where, Nth
  <1>6. \A q, x : Recorded(q, x)' <=> Recorded(q, x)
    BY <1>1, <1>2, <1>4, <1>5 DEF Recorded
  <1>7. CASE Healthy = <<>>
    <2>1. recent' = recent
      BY <1>7 DEF Select
    <2>2. recent = <<>>
      BY <1>7 DEF RoundInv
    <2>3. QED
      BY <2>1, <2>2 DEF RoundInv
  <1>8. CASE Healthy # <<>> /\ recent' # <<>>
    <2>1. Remember(selected')
      BY <1>8 DEF Select
    <2>2. /\ recent' = LastOf(Append(recent, selected'), Round)
          /\ \/ strategy = "ROUND_ROBIN"
             \/ strategy = "WEIGHTED_ROUND_ROBIN" /\ current_weight' # 0
      BY <1>8, <2>1 DEF Remember
    <2>3. GoesOn
      <3>1. CASE strategy = "ROUND_ROBIN"
        <4>1. RoundRobin(Healthy)
          BY <1>8, <3>1 DEF Select
        <4>2. QED
          BY <1>0, <1>8, <3>1, <4>1, RoundRobinGoesOn
      <3>2. CASE strategy = "WEIGHTED_ROUND_ROBIN" /\ current_weight' # 0
        <4>1. WeightedRoundRobin(Healthy)
          BY <1>8, <3>2 DEF Select
        <4>2. QED
          BY <1>0, <1>8, <3>2, <4>1, WeightedGoesOn
      <3>3. QED
        BY <2>2, <3>1, <3>2
    <2>4. PICK x \in Slots :
             /\ selected' = x[1] /\ Current(x)'
             /\ \A z \in Slots : Current(z) => Follows(Slots, Where, Top * Len(Healthy), z, x)
      BY <2>3 DEF GoesOn
    <2> PICK q : q = LastOf(Append(recent, x[1]), Round)
      OBVIOUS
    <2>5. recent' = q
      BY <2>2, <2>4
    <2>6. q # <<>> /\ Len(q) <= Round /\ Recorded(q, x)
      <3>1. CASE recent = <<>>
        <4>1. q = LastOf(Append(<<>>, x[1]), Round)
          BY <3>1
        <4>2. QED
          BY <1>8, <4>1, RecordedFirst
      <3>2. CASE recent # <<>>
        <4>1. Len(recent) <= Round
          BY <3>2 DEF RoundInv
        <4>2. PICK z \in Slots : Current(z) /\ Recorded(recent, z)
          BY <3>2 DEF RoundInv
        <4>3. Follows(Slots, Where, Top * Len(Healthy), z, x)
          BY <2>4, <4>2
        <4>4. QED
          BY <1>8, <3>2, <4>1, <4>2, <4>3, RecordedNext
      <3>3. QED
        BY <3>1, <3>2
    <2>7. Recorded(recent, x)'
      <3>1. Recorded(q, x)'
        BY <1>6, <2>6
      <3>2. QED
        BY <2>5, <3>1
    <2>8. strategy' \in {"ROUND_ROBIN", "WEIGHTED_ROUND_ROBIN"}
      BY <1>0, <2>2
    <2>9. (Len(recent) <= Round)' /\ (Healthy # <<>>)' /\ x \in Slots'
      BY <1>1, <1>2, <1>3, <1>8, <2>5, <2>6
    <2>10. QED
      BY <2>4, <2>7, <2>8, <2>9 DEF RoundInv
  <1>9. CASE recent' = <<>>
    BY <1>9 DEF RoundInv
  <1>10. QED
    BY <1>7, <1>8, <1>9

\* Every step keeps the invariant: all but a selection forget what was selected.
LEMMA RoundStep == TypeOK /\ RoundInv /\ [Next]_vars => RoundInv'
  <1> SUFFICES ASSUME TypeOK, RoundInv, [Next]_vars PROVE RoundInv'
    OBVIOUS
  <1>1. CASE Select
    BY <1>1, SelectKeepsRound
  <1>2. CASE recent' = <<>>
    BY <1>2 DEF RoundInv
  <1>3. CASE UNCHANGED vars
    <2>0. /\ strategy' = strategy /\ is_healthy' = is_healthy /\ weight' = weight
          /\ rr_index' = rr_index /\ weighted_index' = weighted_index
          /\ current_weight' = current_weight /\ recent' = recent
      BY <1>3 DEF vars
    <2>1. Healthy' = Healthy
      BY <2>0 DEF Healthy
    <2>2. Slots' = Slots /\ Round' = Round
      BY <2>0 DEF Slots, Share, Round
    <2>3. Top' = Top
      BY <2>0, <2>1 DEF Top, GreatestWeight
    <2>4. Where' = Where
      BY <2>1, <2>2, <2>3 DEF Where, Nth
    <2>5. \A x : Recorded(recent, x)' <=> Recorded(recent, x)
      BY <2>0, <2>1, <2>2, <2>3, <2>4 DEF Recorded
    <2>6. \A x : Current(x)' <=> Current(x)
      BY <2>0, <2>1 DEF Current
    <2>7. QED
      BY <2>0, <2>1, <2>2, <2>5, <2>6 DEF RoundInv
  <1>4. QED
    BY <1>1, <1>2, <1>3 DEF Next, SetStrategy, ToggleHealth, SetWeight, Reset

\* A round of slots gives each healthy server its share.
LEMMA RoundIsFair == TypeOK /\ RoundInv => FairShare
  <1> SUFFICES ASSUME TypeOK, RoundInv, Len(recent) = Round, NEW s \in 1..N, is_healthy[s]
               PROVE  Cardinality({i \in 1..Len(recent) : recent[i] = s}) = Share(s)
    BY DEF FairShare
  <1> DEFINE n == Len(recent)
             I == {i \in 1..n : recent[i] = s}
  <1>0. recent \in Seq(1..N) /\ n \in Nat /\ N \in Nat /\ MaxWeight \in Nat /\ MaxWeight > 0
    BY ServersAssumption DEF TypeOK
  <1>1. IsFiniteSet(Slots) /\ Cardinality(Slots) = Round
    BY SlotsCounted
  <1>2. Share(s) \in Nat /\ \A w \in 1..Share(s) : <<s, w>> \in Slots
    <2>1. Share(s) \in 1..MaxWeight
      BY <1>0 DEF Share, TypeOK
    <2>2. ASSUME NEW w \in 1..Share(s) PROVE <<s, w>> \in Slots
      <3>1. w \in 1..MaxWeight /\ w <= Share(s)
        BY <1>0, <2>1
      <3>2. QED
        BY <3>1 DEF Slots
    <2>3. QED
      BY <1>0, <2>1, <2>2
  <1>3. recent # <<>>
    <2>1. 1 \in 1..Share(s)
      BY <1>0 DEF Share, TypeOK
    <2>2. Slots # {}
      BY <1>2, <2>1
    <2>3. n # 0
      BY <1>1, <2>2, FS_EmptySet
    <2>4. QED
      BY <2>3
  <1>4. PICK sl : /\ Chain(Slots, Where, Top * Len(Healthy), sl, n)
                  /\ \A i \in 1..n : recent[i] = sl[i][1]
    BY <1>3 DEF RoundInv, Recorded
  <1>5. /\ sl \in [1..n -> Slots] /\ \A i, j \in 1..n : sl[i] = sl[j] => i = j
        /\ \A a \in Slots : \E i \in 1..n : sl[i] = a
    <2>1. \A a \in Slots : \E i \in 1..n : sl[i] = a
      <3>1. n = Cardinality(Slots)
        BY <1>1
      <3> HIDE DEF n
      <3>2. QED
        BY <1>0, <1>1, <1>4, <3>1, ChainFull
    <2>2. QED
      BY <1>4, <2>1 DEF Chain
  <1> DEFINE f == [w \in 1..Share(s) |-> CHOOSE i \in 1..n : sl[i] = <<s, w>>]
  <1>6. ASSUME NEW w \in 1..Share(s) PROVE f[w] \in 1..n /\ sl[f[w]] = <<s, w>>
    <2>1. \E i \in 1..n : sl[i] = <<s, w>>
      BY <1>2, <1>5
    <2>2. f[w] = CHOOSE i \in 1..n : sl[i] = <<s, w>>
      OBVIOUS
    <2> HIDE DEF f
    <2>3. QED
      BY <2>1, <2>2, Zenon
  <1>7. f \in [1..Share(s) -> I]
    <2>1. ASSUME NEW w \in 1..Share(s) PROVE f[w] \in I
      <3>1. f[w] \in 1..n /\ sl[f[w]] = <<s, w>>
        BY <1>6
      <3> HIDE DEF f
      <3>2. recent[f[w]] = s
        BY <1>4, <3>1
      <3>3. QED
        BY <3>1, <3>2
    <2> HIDE DEF I
    <2>2. QED
      BY <2>1
  <1>8. \A v, w \in 1..Share(s) : f[v] = f[w] => v = w
    <2> HIDE DEF f
    <2>1. QED
      BY <1>6
  <1>9. ASSUME NEW i \in I PROVE \E w \in 1..Share(s) : f[w] = i
    <2>1. i \in 1..n /\ sl[i] \in Slots /\ sl[i][1] = s
      BY <1>4, <1>5
    <2> PICK w : w = sl[i][2]
      OBVIOUS
    <2>2. sl[i] = <<s, w>> /\ w \in 1..MaxWeight /\ w <= Share(s)
      BY <2>1 DEF Slots
    <2>3. w \in 1..Share(s)
      BY <1>0, <1>2, <2>2
    <2>4. f[w] \in 1..n /\ sl[f[w]] = <<s, w>>
      BY <1>6, <2>3
    <2> HIDE DEF f
    <2>5. f[w] = i
      <3>1. sl[f[w]] = sl[i]
        BY <2>2, <2>4
      <3>2. QED
        BY <1>5, <2>1, <2>4, <3>1
    <2>6. QED
      BY <2>3, <2>5
  <1>10. Cardinality(I) = Share(s)
    <2> HIDE DEF f, I
    <2>1. QED
      BY <1>2, <1>7, <1>8, <1>9, Numbered
  <1>11. QED
    BY <1>10

\* Round robin and weighted round robin are fair for every number of servers and
\* all weights, from whatever state earlier changes left behind: in a round of
\* selections during which nothing else is changed every healthy server is
\* selected exactly as often as its share.
THEOREM FairShareHolds == Spec => []FairShare
  <1>1. Init => RoundInv
    BY DEF Init, RoundInv
  <1>2. QED
    BY <1>1, TypeCorrect, RoundStep, RoundIsFair, PTL DEF Spec
=============================================================================
