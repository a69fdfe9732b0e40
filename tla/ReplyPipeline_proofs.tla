------------------------- MODULE ReplyPipeline_proofs -------------------------
(***************************************************************************)
(* Theorems about the reply path, for any messages, rooms, rules, TTLs and  *)
(* limits.  Two facts carry them: a room's bucket never holds more than the *)
(* burst and the refill leave of what the room has spent (Spent), and a     *)
(* bounded map whose entries have one TTL forgets a decision only when the  *)
(* TTL is over or enough later ones were made (Remembers).                  *)
(***************************************************************************)
EXTENDS ReplyPipeline, FiniteSetTheorems, SequenceTheorems, TLAPS

(* What a room has spent since any admission, and what it has left, is no   *)
(* more than the burst and what was refilled since.                         *)
Spent(r) ==
  LET b == buckets[r]
      times == admits[r]
  IN /\ b.at <= now
     /\ times # <<>> => b.at # 0
     /\ \A i \in DOMAIN times :
          /\ times[i] <= b.at
          /\ (Len(times) - i + 1) * Unit + b.tokens <= Full + (b.at - times[i]) * Refill

(* A map with entries of one TTL knows the time of the last decision on a   *)
(* key until that has run out or enough other keys were decided on.         *)
Remembers(map, times, c) ==
  \A k \in DOMAIN map :
    /\ times[k] <= now
    /\ map[k] # 0 => map[k] = times[k]
    /\ times[k] # 0 =>
         map[k] = times[k] \/ times[k] + c.ttl <= now \/ Crowded(times, k, c)

IInv ==
  /\ TypeOK
  /\ RateBound
  /\ \A r \in Rooms : Spent(r)
  /\ Remembers(roomAnswer, decided, Room)
  /\ Remembers(jobs, sent, Jobs)

(* The facts about the constants that the proofs use.                       *)
LEMMA Constants ==
  /\ IsFiniteSet(Msgs) /\ IsFiniteSet(Keys) /\ RoomOf \in [Msgs -> Rooms]
  /\ IsLimits(Incoming) /\ IsLimits(Reply) /\ IsLimits(Room) /\ IsLimits(Jobs)
  /\ Capacity \in Nat \ {0} /\ Unit \in Nat \ {0} /\ Refill \in Nat \ {0}
  /\ Full \in Nat \ {0} /\ IdleTtl \in Nat /\ IdleTtl * Refill >= Full
  /\ MaxTime \in Nat /\ Time \subseteq Nat /\ 0 \in Time
<1>1. IsFiniteSet(Keys)
  BY PipelineAssumption, FS_Product DEF PipelineAssumption, Keys
<1>2. Full \in Nat \ {0}
  BY PipelineAssumption DEF PipelineAssumption, Full
<1> QED
  BY <1>1, <1>2, PipelineAssumption, IdleAssumption DEF PipelineAssumption, IdleAssumption, Time

LEMMA RateConstants ==
  /\ Unit \in Nat /\ Refill \in Nat /\ Full \in Nat /\ IdleTtl \in Nat
  /\ \A t \in Time : t \in Nat
  /\ \A b \in [tokens: 0..Full, at: Time] : b.tokens \in Nat /\ b.at \in Nat
<1>1. Unit \in Nat /\ Refill \in Nat /\ Full \in Nat /\ IdleTtl \in Nat /\ \A t \in Time : t \in Nat
  BY Constants
<1> QED
  BY <1>1

------------------------------------------------------------------------------
(* The bounded TTL maps.                                                    *)

With(map, k) == [map EXCEPT ![k] = now]

(* BoundedTtlMap.set keeps a map within its bound; a key that it pushes out *)
(* is no newer than as many others as the map has room for.                 *)
LEMMA SetsKeeps ==
  ASSUME NEW S, IsFiniteSet(S), NEW map \in [S -> Time], NEW k \in S,
         NEW c, IsLimits(c), now \in Time \ {0},
         Cardinality(Entries(map)) <= c.max, NEW new \in Sets(map, k, c)
  PROVE  /\ new \in [S -> Time] /\ Cardinality(Entries(new)) <= c.max /\ new[k] = now
         /\ \A o \in S \ {k} :
              \/ new[o] = map[o]
              \/ new[o] = 0 /\ map[o] # 0 /\ Crowded(With(map, k), o, c)
<1> DEFINE added == [map EXCEPT ![k] = now]
<1>1. added \in [S -> Time] /\ added[k] = now /\ \A o \in S \ {k} : added[o] = map[o]
  OBVIOUS
<1>2. /\ Entries(map) \subseteq S /\ Entries(added) \subseteq S
      /\ Entries(added) = Entries(map) \union {k}
  BY <1>1, Constants DEF Entries
<1>3. /\ IsFiniteSet(Entries(map)) /\ IsFiniteSet(Entries(added))
      /\ Cardinality(Entries(map)) \in Nat /\ Cardinality(Entries(added)) \in Nat
  BY <1>2, FS_Subset, FS_CardinalityType
<1>4. Cardinality(Entries(added)) <= Cardinality(Entries(map)) + 1
  <2> DEFINE more == Entries(map) \union {k}
  <2>1. Cardinality(more) \in {Cardinality(Entries(map)), Cardinality(Entries(map)) + 1}
    BY <1>3, FS_AddElement
  <2>2. Entries(added) = more
    BY <1>2
  <2> HIDE DEF more
  <2> QED
    BY <1>3, <2>1, <2>2
<1>5. c.max \in Nat \ {0}
  BY DEF IsLimits
<1> HIDE DEF added
<1>6. CASE Cardinality(Entries(added)) <= c.max
  <2>1. new = added
    BY <1>6 DEF Sets, added
  <2> QED
    BY <1>1, <1>6, <2>1
<1>7. CASE ~(Cardinality(Entries(added)) <= c.max)
  <2>1. PICK o \in Evictable(added, k) : new = [added EXCEPT ![o] = 0]
    BY <1>7 DEF Sets, added
  <2>2. o \in Entries(added) /\ o # k /\ o \in S /\ \A p \in Entries(added) : added[o] <= added[p]
    BY <1>2, <2>1 DEF Evictable
  <2>3. new \in [S -> Time] /\ new[k] = now /\ new[o] = 0 /\ added[o] # 0
        /\ \A p \in S \ {k, o} : new[p] = map[p]
    BY <1>1, <2>1, <2>2, Constants DEF Entries
  <2>4. Entries(new) = Entries(added) \ {o}
    BY <1>1, <2>1, <2>2, <2>3 DEF Entries
  <2>5. Cardinality(Entries(new)) = Cardinality(Entries(added)) - 1 /\ IsFiniteSet(Entries(new))
        /\ Cardinality(Entries(new)) \in Nat
    BY <1>3, <2>2, <2>4, FS_RemoveElement, FS_CardinalityType
  <2>6. Cardinality(Entries(new)) <= c.max
    BY <1>3, <1>4, <1>5, <2>5, FS_CardinalityType
  <2> DEFINE others == {p \in S \ {o} : added[p] >= added[o]}
  <2>7. Entries(new) \subseteq others
    BY <1>1, <1>2, <2>2, <2>4, Constants
  <2>8. IsFiniteSet(others) /\ Cardinality(others) \in Nat
    BY FS_Subset, FS_CardinalityType
  <2>9. Cardinality(Entries(new)) <= Cardinality(others)
    BY <2>7, <2>8, FS_Subset
  <2>10. Cardinality(others) >= c.max
    BY <1>3, <1>5, <1>7, <2>5, <2>8, <2>9
  <2>11. Crowded(added, o, c)
    <3>1. DOMAIN added = S
      BY <1>1
    <3> QED
      BY <2>10, <3>1 DEF Crowded
  <2>12. map[o] # 0
    BY <1>1, <2>2, <2>3
  <2> QED
    BY <2>2, <2>3, <2>6, <2>11, <2>12 DEF added, With
<1> QED
  BY <1>6, <1>7

(* Decisions on other keys only add to a crowd.                             *)
LEMMA CrowdStays ==
  ASSUME NEW S, IsFiniteSet(S), NEW times \in [S -> Nat], NEW later \in [S -> Nat],
         \A o \in S : later[o] >= times[o],
         NEW k \in S, later[k] = times[k], NEW c, IsLimits(c), Crowded(times, k, c)
  PROVE  Crowded(later, k, c)
<1> DEFINE before == {o \in S \ {k} : times[o] >= times[k]}
           after == {o \in S \ {k} : later[o] >= later[k]}
<1>1. before \subseteq after
  OBVIOUS
<1>2. IsFiniteSet(after) /\ Cardinality(after) \in Nat
  BY FS_Subset, FS_CardinalityType
<1>3. Cardinality(before) <= Cardinality(after) /\ Cardinality(before) \in Nat
  BY <1>1, <1>2, FS_Subset, FS_CardinalityType
<1>4. Cardinality(before) >= c.max /\ c.max \in Nat
  BY DEF Crowded, IsLimits
<1>5. Cardinality(after) >= c.max
  BY <1>2, <1>3, <1>4
<1> QED
  BY <1>5 DEF Crowded

(* A new entry is remembered, and what it pushes out was crowded out.       *)
LEMMA SetRemembers ==
  ASSUME NEW S, IsFiniteSet(S), NEW map \in [S -> Time], NEW times \in [S -> Time],
         NEW k \in S, NEW c, IsLimits(c), now \in Time \ {0},
         Cardinality(Entries(map)) <= c.max, Remembers(map, times, c),
         NEW new \in Sets(map, k, c), NEW later, later = [times EXCEPT ![k] = now]
  PROVE  Remembers(new, later, c) /\ later \in [S -> Time]
<1>1. /\ new \in [S -> Time] /\ new[k] = now
      /\ \A o \in S \ {k} :
           \/ new[o] = map[o]
           \/ new[o] = 0 /\ map[o] # 0 /\ Crowded(With(map, k), o, c)
  BY SetsKeeps
<1>2. later \in [S -> Time] /\ later[k] = now /\ \A o \in S \ {k} : later[o] = times[o]
  OBVIOUS
<1>3. \A o \in S : /\ times[o] <= now
                   /\ map[o] # 0 => map[o] = times[o]
                   /\ times[o] # 0 => \/ map[o] = times[o] \/ times[o] + c.ttl <= now
                                      \/ Crowded(times, o, c)
  BY DEF Remembers
<1>4. times \in [S -> Nat] /\ later \in [S -> Nat] /\ now \in Nat /\ c.max \in Nat /\ map \in [S -> Nat]
  BY <1>2, Constants DEF IsLimits
<1>5. \A o \in S : later[o] >= times[o]
  BY <1>2, <1>3, <1>4
<1>6. ASSUME NEW o \in S \ {k}, times[o] # 0
      PROVE  new[o] = times[o] \/ times[o] + c.ttl <= now \/ Crowded(later, o, c)
  <2>1. CASE Crowded(times, o, c)
    BY <1>2, <1>4, <1>5, <2>1, CrowdStays
  <2>2. CASE new[o] # map[o] /\ map[o] = times[o]
    <3> DEFINE added == With(map, k)
    <3>1. added \in [S -> Nat] /\ added[o] = later[o] /\ \A p \in S : later[p] >= added[p]
      BY <1>2, <1>3, <1>4, <2>2 DEF With
    <3>2. Crowded(added, o, c)
      BY <1>1, <2>2
    <3> HIDE DEF added
    <3> QED
      BY <1>4, <3>1, <3>2, CrowdStays
  <2> QED
    BY <1>3, <1>6, <2>1, <2>2
<1>7. ASSUME NEW o \in S, new[o] # 0
      PROVE  new[o] = later[o]
  BY <1>1, <1>2, <1>3, <1>7
<1>8. \A o \in S : later[o] <= now
  BY <1>2, <1>3, <1>4
<1>9. DOMAIN new = S
  BY <1>1
<1> QED
  BY <1>1, <1>2, <1>6, <1>7, <1>8, <1>9 DEF Remembers

(* An expired entry can be dropped, and time can pass.                      *)
LEMMA ExpiryRemembers ==
  ASSUME NEW S, NEW map \in [S -> Time], NEW times \in [S -> Time], NEW c, IsLimits(c),
         now \in Time, Remembers(map, times, c), NEW k \in S, ~Has(map, k, c)
  PROVE  Remembers([map EXCEPT ![k] = 0], times, c)
<1>1. map[k] \in Nat /\ now \in Nat /\ c.ttl \in Nat
  BY Constants DEF IsLimits
<1>2. map[k] # 0 => map[k] + c.ttl <= now
  BY <1>1 DEF Has
<1> QED
  BY <1>2 DEF Remembers

------------------------------------------------------------------------------
(* The rate limiter.                                                        *)

(* A look at a bucket forgives nothing: what a room has spent and what it    *)
(* then has left stays below the burst and what was refilled, also when the *)
(* bucket was idle for so long that it was made anew.                       *)
LEMMA RefillBound ==
  ASSUME NEW b \in [tokens: 0..Full, at: Time], b.at # 0, b.at <= now, now \in Time,
         NEW t \in Nat, t <= b.at, NEW s \in Nat,
         s + b.tokens <= Full + (b.at - t) * Refill
  PROVE  s + Refilled(b) <= Full + (now - t) * Refill
<1> DEFINE before == (b.at - t) * Refill
           since == (now - b.at) * Refill
<1>1. /\ b.tokens \in Nat /\ b.at \in Nat /\ now \in Nat /\ Full \in Nat
      /\ Refill \in Nat /\ IdleTtl \in Nat
  BY RateConstants
<1>2. (now - t) * Refill = before + since
  BY <1>1
<1>3. before \in Nat /\ since \in Nat
  BY <1>1
<1>4. b.at + IdleTtl <= now => since >= Full
  <2>1. \A x, y, z \in Nat : x <= y => x * z <= y * z
    OBVIOUS
  <2>2. b.at + IdleTtl <= now => IdleTtl <= now - b.at /\ now - b.at \in Nat
    BY <1>1
  <2>3. b.at + IdleTtl <= now => IdleTtl * Refill <= since
    BY <1>1, <2>1, <2>2
  <2>4. IdleTtl * Refill \in Nat /\ IdleTtl * Refill >= Full
    BY <1>1, Constants
  <2> HIDE DEF since
  <2> QED
    BY <1>1, <1>3, <2>3, <2>4
<1>5. (Refilled(b) = Full /\ b.at + IdleTtl <= now) \/ Refilled(b) <= b.tokens + since
  BY <1>1, <1>3 DEF Refilled
<1>6. Refilled(b) \in Nat
  BY <1>1, <1>3 DEF Refilled
<1> HIDE DEF before, since
<1>7. s + b.tokens <= Full + before
  BY DEF before
<1> QED
  BY <1>1, <1>2, <1>3, <1>4, <1>5, <1>6, <1>7

LEMMA RefillTypes ==
  ASSUME NEW b \in [tokens: 0..Full, at: Time], b.at <= now, now \in Time
  PROVE  Refilled(b) \in 0..Full
<1>1. b.tokens \in Nat /\ b.at \in Nat /\ now \in Nat /\ Full \in Nat /\ Refill \in Nat
  BY RateConstants
<1>2. (now - b.at) * Refill \in Nat
  BY <1>1
<1> QED
  BY <1>1, <1>2 DEF Refilled

(* What a look at a bucket that leaves some tokens makes of the invariant.  *)
LEMMA SpentStays ==
  ASSUME TypeOK, RateBound, NEW r \in Rooms, \A x \in Rooms : Spent(x),
         NEW tokens, tokens = Refilled(buckets[r]),
         UNCHANGED now,
         \/ /\ buckets' = [buckets EXCEPT ![r] = [tokens |-> tokens, at |-> now]]
            /\ UNCHANGED admits
         \/ /\ tokens >= Unit
            /\ buckets' = [buckets EXCEPT ![r] = [tokens |-> tokens - Unit, at |-> now]]
            /\ admits' = [admits EXCEPT ![r] = Append(@, now)]
  PROVE  /\ buckets' \in [Rooms -> [tokens: 0..Full, at: Time]] /\ admits' \in [Rooms -> Seq(Time)]
         /\ RateBound' /\ \A x \in Rooms : Spent(x)'
<1> DEFINE b == buckets[r]
           times == admits[r]
<1>1. /\ b \in [tokens: 0..Full, at: Time] /\ times \in Seq(Time) /\ now \in Time \ {0}
      /\ b.tokens \in Nat /\ b.at \in Nat /\ now \in Nat /\ now # 0 /\ Unit \in Nat /\ Full \in Nat
      /\ Refill \in Nat
  BY RateConstants DEF TypeOK
<1>2. tokens \in 0..Full /\ tokens \in Nat
  BY <1>1, RefillTypes DEF Spent
<1>3. /\ \A i \in DOMAIN times : i \in Nat /\ times[i] \in Nat /\ Len(times) - i + 1 \in Nat
      /\ Len(times) \in Nat /\ DOMAIN times = 1..Len(times)
  <2>1. Len(times) \in Nat /\ DOMAIN times = 1..Len(times) /\ \A i \in DOMAIN times : times[i] \in Time
    BY <1>1
  <2> HIDE DEF times
  <2> QED
    BY <2>1, RateConstants
<1>4. ASSUME NEW i \in DOMAIN times
      PROVE  /\ times[i] <= b.at /\ b.at <= now
             /\ (Len(times) - i + 1) * Unit + tokens <= Full + (now - times[i]) * Refill
  <2>1. /\ times[i] <= b.at /\ b.at <= now /\ b.at # 0
        /\ (Len(times) - i + 1) * Unit + b.tokens <= Full + (b.at - times[i]) * Refill
    <3>1. times # <<>>
      BY <1>3
    <3> QED
      BY <3>1 DEF Spent
  <2>2. (Len(times) - i + 1) * Unit \in Nat
    BY <1>1, <1>3
  <2> QED
    BY <1>1, <1>3, <2>1, <2>2, RefillBound
<1>5. (\A x, y \in Nat : x * y \in Nat) /\ (\A x, y \in Int : x * y \in Int)
  OBVIOUS
<1> HIDE DEF b, times
<1>6. CASE /\ buckets' = [buckets EXCEPT ![r] = [tokens |-> tokens, at |-> now]]
           /\ UNCHANGED admits
  <2>1. buckets' \in [Rooms -> [tokens: 0..Full, at: Time]]
    BY <1>1, <1>2, <1>6 DEF TypeOK
  <2>2. buckets'[r].tokens = tokens /\ buckets'[r].at = now
    BY <1>6 DEF TypeOK
  <2>3. \A x \in Rooms \ {r} : buckets'[x] = buckets[x]
    BY <1>6 DEF TypeOK
  <2>4. \A x \in Rooms \ {r} : Spent(x)'
    BY <1>6, <2>3 DEF Spent
  <2>5. Spent(r)'
    <3>1. \A i \in DOMAIN times : times[i] <= now
      BY <1>1, <1>3, <1>4
    <3> QED
      BY <1>1, <1>4, <1>6, <2>2, <3>1 DEF Spent, times
  <2> QED
    BY <1>6, <2>1, <2>4, <2>5 DEF RateBound, TypeOK
<1>7. CASE /\ tokens >= Unit
           /\ buckets' = [buckets EXCEPT ![r] = [tokens |-> tokens - Unit, at |-> now]]
           /\ admits' = [admits EXCEPT ![r] = Append(@, now)]
  <2> DEFINE more == Append(times, now)
             n == Len(times)
  <2>0. n \in Nat /\ Unit \in Nat /\ Refill \in Nat /\ now \in Nat
    BY <1>1, <1>3
  <2>1. /\ buckets' \in [Rooms -> [tokens: 0..Full, at: Time]]
        /\ buckets'[r].tokens = tokens - Unit /\ buckets'[r].at = now
        /\ \A x \in Rooms \ {r} : buckets'[x] = buckets[x]
    <3>1. tokens - Unit \in 0..Full
      BY <1>1, <1>2, <1>7
    <3> QED
      BY <1>1, <1>7, <3>1 DEF TypeOK
  <2>2. /\ more \in Seq(Time) /\ Len(more) = n + 1 /\ more[n + 1] = now
        /\ \A i \in 1..n : more[i] = times[i]
    BY <1>1, AppendProperties
  <2>3. /\ admits' \in [Rooms -> Seq(Time)] /\ admits'[r] = more
        /\ \A x \in Rooms \ {r} : admits'[x] = admits[x]
    BY <1>7, <2>2 DEF TypeOK, times
  <2>4. \A x \in Rooms \ {r} : Spent(x)'
    BY <2>1, <2>3 DEF Spent
  <2> HIDE DEF more
  <2>5. DOMAIN more = 1..(n + 1)
    BY <1>3, <2>2
  <2>6. ASSUME NEW i \in DOMAIN more
        PROVE  /\ more[i] \in Nat /\ more[i] <= now
               /\ (n + 1 - i + 1) * Unit + (tokens - Unit) <= Full + (now - more[i]) * Refill
    <3>1. CASE i \in 1..n
      <4>1. (n + 1 - i + 1) * Unit = (n - i + 1) * Unit + Unit
        BY <1>1, <1>3, <3>1
      <4>2. /\ more[i] = times[i] /\ times[i] \in Nat /\ times[i] <= now
            /\ (n - i + 1) * Unit + tokens <= Full + (now - times[i]) * Refill
        BY <1>1, <1>3, <1>4, <2>2, <3>1
      <4> HIDE DEF n
      <4>3. (n - i + 1) * Unit \in Nat /\ (now - times[i]) * Refill \in Int
        <5>1. n - i + 1 \in Nat /\ now - times[i] \in Int /\ Refill \in Int
          BY <2>0, <3>1, <4>2
        <5> QED
          BY <1>5, <2>0, <5>1
      <4> QED
        BY <1>1, <1>2, <4>1, <4>2, <4>3
    <3>2. CASE i = n + 1
      <4>1. (n + 1 - i + 1) * Unit = Unit /\ (now - more[i]) * Refill = 0
        BY <1>1, <1>3, <2>2, <3>2
      <4> QED
        BY <1>1, <1>2, <2>2, <3>2, <4>1
    <3> QED
      BY <1>3, <2>5, <3>1, <3>2
  <2>7. Spent(r)'
    <3>1. /\ buckets'[r].at <= now /\ buckets'[r].at # 0
          /\ \A i \in DOMAIN more :
               /\ more[i] <= buckets'[r].at
               /\ (Len(more) - i + 1) * Unit + buckets'[r].tokens
                    <= Full + (buckets'[r].at - more[i]) * Refill
      <4> HIDE DEF n
      <4>1. \A i \in DOMAIN more : more[i] <= now
        BY <2>6
      <4>2. \A i \in DOMAIN more :
              (n + 1 - i + 1) * Unit + (tokens - Unit) <= Full + (now - more[i]) * Refill
        BY <2>6
      <4> QED
        BY <2>0, <1>1, <2>1, <2>2, <4>1, <4>2
    <3> QED
      BY <2>3, <3>1 DEF Spent
  <2>8. ASSUME NEW i \in DOMAIN more, NEW j \in DOMAIN more, i <= j
        PROVE  (j - i + 1) * Unit <= Full + (more[j] - more[i]) * Refill
    <3>1. CASE j = n + 1
      <4>1. (n + 1 - i + 1) * Unit + (tokens - Unit) <= Full + (now - more[i]) * Refill
        BY <2>6
      <4>2. (n + 1 - i + 1) * Unit \in Int /\ (now - more[i]) * Refill \in Int
        <5>1. /\ n + 1 - i + 1 \in Int /\ now - more[i] \in Int
              /\ Unit \in Int /\ Refill \in Int
          <6>1. i \in Nat /\ more[i] \in Nat
            BY <2>5, <2>6, <2>0
          <6> QED
            BY <2>0, <6>1
        <5> QED
          BY <1>5, <5>1
      <4>3. more[j] = now /\ j - i + 1 = n + 1 - i + 1
        BY <1>3, <2>2, <2>5, <3>1
      <4>4. tokens - Unit >= 0 /\ tokens - Unit \in Int
        BY <1>1, <1>2, <1>7
      <4> HIDE DEF n
      <4> QED
        BY <1>1, <4>1, <4>2, <4>3, <4>4
    <3>2. CASE j # n + 1
      <4>1. i \in DOMAIN times /\ j \in DOMAIN times /\ more[i] = times[i] /\ more[j] = times[j]
        BY <1>3, <2>2, <2>5, <2>8, <3>2
      <4> QED
        BY <2>8, <4>1 DEF RateBound, times
    <3> QED
      BY <3>1, <3>2
  <2>9. RateBound'
    <3> SUFFICES ASSUME NEW x \in Rooms, NEW i \in DOMAIN admits'[x], NEW j \in DOMAIN admits'[x],
                        i <= j
                 PROVE  (j - i + 1) * Unit
                          <= Full + (admits'[x][j] - admits'[x][i]) * Refill
      BY DEF RateBound
    <3>1. CASE x = r
      BY <2>3, <2>8, <3>1
    <3>2. CASE x # r
      BY <2>3, <3>2 DEF RateBound
    <3> QED
      BY <3>1, <3>2
  <2> QED
    BY <2>1, <2>3, <2>4, <2>7, <2>9
<1> QED
  BY <1>6, <1>7

------------------------------------------------------------------------------
(* The steps.                                                               *)

(* What a delivery does to the core, whichever gate it ends at.             *)
LEMMA ReceiveEffect ==
  ASSUME TypeOK, NEW m \in Msgs, Receive(m)
  PROVE  /\ UNCHANGED <<now, rules, selected, phase, aborted>> /\ threw' \in BOOLEAN
         /\ incoming' = incoming \/ incoming' \in Sets(incoming, m, Incoming)
         /\ reply' = reply \/ (Job(m) \in Keys /\ reply' \in Sets(reply, Job(m), Reply))
         /\ \/ UNCHANGED <<roomAnswer, decided, buckets, admits>>
            \/ /\ roomAnswer' \in Sets(roomAnswer, m, Room)
               /\ decided' = [decided EXCEPT ![m] = now]
               /\ \/ Bucket(m, Tokens(m)) /\ UNCHANGED admits
                  \/ /\ Tokens(m) >= Unit /\ Bucket(m, Tokens(m) - Unit)
                     /\ admits' = [admits EXCEPT ![RoomOf[m]] = Append(@, now)]
         /\ \/ jobs' = jobs /\ UNCHANGED <<sent, waiting>>
            \/ Job(m) \in Keys /\ jobs' = JobsRead(m) /\ UNCHANGED <<sent, waiting>>
            \/ /\ Job(m) \in Keys /\ jobs' \in Sets(JobsRead(m), Job(m), Jobs)
               /\ sent' = [sent EXCEPT ![Job(m)] = now]
               /\ waiting' = [waiting EXCEPT ![m] = @ + 1]
<1>1. ASSUME Matches(m)
      PROVE  Job(m) \in Keys
  <2>1. rules[m] \in Rules
    BY <1>1, PipelineAssumption DEF Matches, TypeOK, PipelineAssumption
  <2> QED
    BY <2>1 DEF Job, Keys
<1>2. CASE RoomNotSelected(m) \/ SenderNotAllowed(m) \/ DedupedIncoming(m)
  BY <1>2 DEF RoomNotSelected, SenderNotAllowed, DedupedIncoming, Suppressed, coreVars,
     claimVars, runVars, history, TypeOK
<1>3. CASE NoRuleMatches(m)
  BY <1>3 DEF NoRuleMatches, ClaimsIncoming, Suppressed, runVars, history, TypeOK
<1>4. CASE DedupedReply(m)
  BY <1>1, <1>4 DEF DedupedReply, Matches, ClaimsIncoming, Suppressed, runVars, history, TypeOK
<1>5. CASE DedupedRoom(m)
  BY <1>1, <1>5 DEF DedupedRoom, ClaimsReply, Matches, ClaimsIncoming, Suppressed, runVars,
     history, TypeOK
<1>6. ASSUME ClaimsRoom(m)
      PROVE  /\ incoming' \in Sets(incoming, m, Incoming)
             /\ Job(m) \in Keys /\ reply' \in Sets(reply, Job(m), Reply)
             /\ roomAnswer' \in Sets(roomAnswer, m, Room)
             /\ decided' = [decided EXCEPT ![m] = now]
  BY <1>1, <1>6 DEF ClaimsRoom, ClaimsReply, Matches, ClaimsIncoming
<1>7. CASE RateLimited(m)
  BY <1>6, <1>7 DEF RateLimited, runVars, TypeOK
<1>8. CASE Throws(m)
  BY <1>6, <1>8 DEF Throws, Admitted, runVars, TypeOK
<1>9. CASE Sends(m)
  BY <1>6, <1>9 DEF Sends, Admitted, runVars, TypeOK
<1> QED
  BY <1>2, <1>3, <1>4, <1>5, <1>7, <1>8, <1>9 DEF Receive

(* A delivery keeps the invariant.                                          *)
LEMMA ReceiveStep ==
  ASSUME IInv, NEW m \in Msgs, Receive(m)
  PROVE  IInv'
<1>1. TypeOK
  BY DEF IInv
<1>2. /\ UNCHANGED <<now, rules, selected, phase, aborted>> /\ threw' \in BOOLEAN
      /\ incoming' = incoming \/ incoming' \in Sets(incoming, m, Incoming)
      /\ reply' = reply \/ (Job(m) \in Keys /\ reply' \in Sets(reply, Job(m), Reply))
  BY <1>1, ReceiveEffect
<1>3. /\ incoming' \in [Msgs -> Time] /\ Cardinality(Entries(incoming')) <= Incoming.max
      /\ reply' \in [Keys -> Time] /\ Cardinality(Entries(reply')) <= Reply.max
  <2>1. IsFiniteSet(Msgs) /\ IsFiniteSet(Keys) /\ IsLimits(Incoming) /\ IsLimits(Reply)
    BY Constants
  <2>2. /\ incoming \in [Msgs -> Time] /\ Cardinality(Entries(incoming)) <= Incoming.max
        /\ reply \in [Keys -> Time] /\ Cardinality(Entries(reply)) <= Reply.max
        /\ now \in Time \ {0}
    BY <1>1 DEF TypeOK
  <2>3. incoming' \in [Msgs -> Time] /\ Cardinality(Entries(incoming')) <= Incoming.max
    <3>1. CASE incoming' = incoming
      BY <2>2, <3>1
    <3>2. CASE incoming' \in Sets(incoming, m, Incoming)
      BY <2>1, <2>2, <3>2, SetsKeeps
    <3> QED
      BY <1>2, <3>1, <3>2
  <2>4. reply' \in [Keys -> Time] /\ Cardinality(Entries(reply')) <= Reply.max
    <3>1. CASE reply' = reply
      BY <2>2, <3>1
    <3>2. CASE Job(m) \in Keys /\ reply' \in Sets(reply, Job(m), Reply)
      BY <2>1, <2>2, <3>2, SetsKeeps
    <3> QED
      BY <1>2, <3>1, <3>2
  <2> QED
    BY <2>3, <2>4
<1>4. /\ roomAnswer' \in [Msgs -> Time] /\ Cardinality(Entries(roomAnswer')) <= Room.max
      /\ decided' \in [Msgs -> Time] /\ Remembers(roomAnswer', decided', Room)
  <2>1. CASE UNCHANGED <<roomAnswer, decided>>
    BY <1>1, <2>1 DEF IInv, TypeOK
  <2>2. CASE roomAnswer' \in Sets(roomAnswer, m, Room) /\ decided' = [decided EXCEPT ![m] = now]
    <3>1. IsFiniteSet(Msgs) /\ IsLimits(Room)
      BY Constants
    <3>2. /\ roomAnswer \in [Msgs -> Time] /\ decided \in [Msgs -> Time] /\ now \in Time \ {0}
          /\ Cardinality(Entries(roomAnswer)) <= Room.max /\ Remembers(roomAnswer, decided, Room)
      BY DEF IInv, TypeOK
    <3> QED
      BY <2>2, <3>1, <3>2, SetsKeeps, SetRemembers
  <2> QED
    BY <1>1, <2>1, <2>2, ReceiveEffect
<1>5. /\ jobs' \in [Keys -> Time] /\ Cardinality(Entries(jobs')) <= Jobs.max
      /\ sent' \in [Keys -> Time] /\ Remembers(jobs', sent', Jobs)
  <2>1. IsFiniteSet(Keys) /\ IsLimits(Jobs) /\ 0 \in Time
    BY Constants
  <2>2. /\ jobs \in [Keys -> Time] /\ sent \in [Keys -> Time] /\ now \in Time \ {0}
        /\ Cardinality(Entries(jobs)) <= Jobs.max /\ Remembers(jobs, sent, Jobs)
    BY DEF IInv, TypeOK
  <2>3. ASSUME Job(m) \in Keys
        PROVE  /\ JobsRead(m) \in [Keys -> Time] /\ Cardinality(Entries(JobsRead(m))) <= Jobs.max
               /\ Remembers(JobsRead(m), sent, Jobs)
    <3>1. CASE Has(jobs, Job(m), Jobs)
      BY <2>2, <3>1 DEF JobsRead
    <3>2. CASE ~Has(jobs, Job(m), Jobs)
      <4> DEFINE read == [jobs EXCEPT ![Job(m)] = 0]
      <4>1. JobsRead(m) = read
        BY <3>2 DEF JobsRead
      <4>2. read \in [Keys -> Time] /\ Entries(read) \subseteq Entries(jobs)
            /\ Entries(jobs) \subseteq Keys
        BY <2>1, <2>2, <2>3 DEF Entries
      <4>3. Remembers(read, sent, Jobs)
        BY <2>1, <2>2, <2>3, <3>2, ExpiryRemembers
      <4>4. /\ IsFiniteSet(Entries(jobs)) /\ Cardinality(Entries(read)) <= Cardinality(Entries(jobs))
            /\ Cardinality(Entries(read)) \in Nat /\ Cardinality(Entries(jobs)) \in Nat
        BY <2>1, <4>2, FS_Subset, FS_CardinalityType
      <4> HIDE DEF read
      <4>5. Cardinality(Entries(read)) <= Jobs.max
        BY <2>1, <2>2, <4>4 DEF IsLimits
      <4> QED
        BY <4>1, <4>2, <4>3, <4>5
    <3> QED
      BY <3>1, <3>2
  <2>4. CASE jobs' = jobs /\ UNCHANGED sent
    BY <1>2, <2>2, <2>4
  <2>5. CASE Job(m) \in Keys /\ jobs' = JobsRead(m) /\ UNCHANGED sent
    BY <1>2, <2>2, <2>3, <2>5
  <2>6. CASE /\ Job(m) \in Keys /\ jobs' \in Sets(JobsRead(m), Job(m), Jobs)
             /\ sent' = [sent EXCEPT ![Job(m)] = now]
    BY <2>1, <2>2, <2>3, <2>6, SetsKeeps, SetRemembers
  <2> QED
    BY <1>1, <2>4, <2>5, <2>6, ReceiveEffect
<1>6. /\ buckets' \in [Rooms -> [tokens: 0..Full, at: Time]] /\ admits' \in [Rooms -> Seq(Time)]
      /\ RateBound' /\ \A r \in Rooms : Spent(r)'
  <2>1. CASE UNCHANGED <<buckets, admits>>
    BY <1>2, <2>1 DEF IInv, TypeOK, RateBound, Spent
  <2>2. CASE \/ Bucket(m, Tokens(m)) /\ UNCHANGED admits
             \/ /\ Tokens(m) >= Unit /\ Bucket(m, Tokens(m) - Unit)
                /\ admits' = [admits EXCEPT ![RoomOf[m]] = Append(@, now)]
    <3>1. RoomOf[m] \in Rooms
      BY Constants
    <3> QED
      BY <1>2, <2>2, <3>1, SpentStays DEF Bucket, Tokens, IInv
  <2> QED
    BY <1>1, <2>1, <2>2, ReceiveEffect
<1>7. waiting' \in [Msgs -> Nat]
  <2>1. waiting' = waiting \/ waiting' = [waiting EXCEPT ![m] = @ + 1]
    BY <1>1, ReceiveEffect
  <2> QED
    BY <1>1, <2>1 DEF TypeOK
<1>8. TypeOK'
  BY <1>1, <1>2, <1>3, <1>4, <1>5, <1>6, <1>7 DEF TypeOK, Entries
<1>9. Remembers(roomAnswer, decided, Room)' /\ Remembers(jobs, sent, Jobs)'
  BY <1>2, <1>4, <1>5 DEF Remembers, Crowded
<1> QED
  BY <1>6, <1>8, <1>9 DEF IInv

(* A Worker that is made anew has decided nothing yet.                      *)
CoreIsNew ==
  /\ now \in Time \ {0}
  /\ incoming = Empty(Msgs) /\ reply = Empty(Keys) /\ roomAnswer = Empty(Msgs)
  /\ jobs = Empty(Keys) /\ buckets = NoBuckets
  /\ decided = Empty(Msgs) /\ sent = Empty(Keys) /\ admits = [r \in Rooms |-> <<>>]

CoreIsSound ==
  /\ incoming \in [Msgs -> Time] /\ reply \in [Keys -> Time]
  /\ roomAnswer \in [Msgs -> Time] /\ jobs \in [Keys -> Time]
  /\ Cardinality(Entries(incoming)) <= Incoming.max
  /\ Cardinality(Entries(reply)) <= Reply.max
  /\ Cardinality(Entries(roomAnswer)) <= Room.max
  /\ Cardinality(Entries(jobs)) <= Jobs.max
  /\ buckets \in [Rooms -> [tokens: 0..Full, at: Time]]
  /\ decided \in [Msgs -> Time] /\ sent \in [Keys -> Time]
  /\ admits \in [Rooms -> Seq(Time)]
  /\ RateBound /\ \A r \in Rooms : Spent(r)
  /\ Remembers(roomAnswer, decided, Room) /\ Remembers(jobs, sent, Jobs)

LEMMA NewCore == CoreIsNew => CoreIsSound
<1> SUFFICES ASSUME CoreIsNew
             PROVE  CoreIsSound
  OBVIOUS
<1>1. 0 \in Time /\ 0 \in 0..Full /\ \A t \in Time : t \in Nat
  BY Constants, RateConstants
<1>2. \A S : Empty(S) \in [S -> Time] /\ Entries(Empty(S)) = {} /\ \A k \in S : Empty(S)[k] = 0
  BY <1>1 DEF Empty, Entries
<1>3. Cardinality({}) = 0
  BY FS_EmptySet
<1>4. 0 <= Incoming.max /\ 0 <= Reply.max /\ 0 <= Room.max /\ 0 <= Jobs.max
  BY PipelineAssumption DEF PipelineAssumption, IsLimits
<1>5. admits \in [Rooms -> Seq(Time)] /\ \A r \in Rooms : admits[r] = <<>> /\ DOMAIN admits[r] = {}
  BY DEF CoreIsNew
<1>6. buckets \in [Rooms -> [tokens: 0..Full, at: Time]] /\ \A r \in Rooms : buckets[r].at = 0
  BY <1>1 DEF NoBuckets, CoreIsNew
<1>7. RateBound
  BY <1>5 DEF RateBound
<1>8. \A r \in Rooms : Spent(r)
  BY <1>1, <1>5, <1>6 DEF Spent, CoreIsNew
<1>9. Remembers(roomAnswer, decided, Room) /\ Remembers(jobs, sent, Jobs)
  BY <1>1, <1>2 DEF Remembers, CoreIsNew
<1> QED
  BY <1>2, <1>3, <1>4, <1>5, <1>6, <1>7, <1>8, <1>9 DEF CoreIsNew, CoreIsSound

LEMMA InitIInv == Init => IInv
<1> SUFFICES ASSUME Init
             PROVE  IInv
  OBVIOUS
<1>1. now \in Time \ {0}
  BY PipelineAssumption DEF Init, Time, PipelineAssumption
<1>2. rules \in RuleSets /\ selected \in SUBSET Rooms /\ waiting \in [Msgs -> Nat]
      /\ phase \in {"running", "draining", "returned"} /\ aborted \in BOOLEAN /\ threw \in BOOLEAN
  BY DEF Init, Empty
<1> QED
  BY <1>1, <1>2, NewCore DEF Init, IInv, TypeOK, CoreIsNew, CoreIsSound

(* A step that leaves the core and its clock alone keeps what is known of   *)
(* the core; every action but a delivery, the clock and a restart is one.   *)
LEMMA CoreUntouched ==
  ASSUME IInv, UNCHANGED <<now, coreVars, history>>,
         rules' \in RuleSets, selected' \in SUBSET Rooms, waiting' \in [Msgs -> Nat],
         phase' \in {"running", "draining", "returned"}, aborted' \in BOOLEAN, threw' \in BOOLEAN
  PROVE  IInv'
<1>1. TypeOK'
  BY DEF IInv, TypeOK, coreVars, claimVars, history, Entries
<1>2. RateBound' /\ \A r \in Rooms : Spent(r)'
  BY DEF IInv, RateBound, Spent, coreVars, claimVars, history
<1>3. Remembers(roomAnswer, decided, Room)' /\ Remembers(jobs, sent, Jobs)'
  BY DEF IInv, Remembers, Crowded, coreVars, claimVars, history
<1> QED
  BY <1>1, <1>2, <1>3 DEF IInv

(* What is remembered stays so while time passes.                           *)
LEMMA TickRemembers ==
  ASSUME NEW S, NEW map, NEW times \in [S -> Nat], DOMAIN map = S, NEW c, IsLimits(c),
         now \in Nat, now' = now + 1, Remembers(map, times, c)
  PROVE  \A k \in DOMAIN map :
           /\ times[k] <= now'
           /\ map[k] # 0 => map[k] = times[k]
           /\ times[k] # 0 =>
                map[k] = times[k] \/ times[k] + c.ttl <= now' \/ Crowded(times, k, c)
<1>1. c.ttl \in Nat
  BY DEF IsLimits
<1> QED
  BY <1>1 DEF Remembers

(* The clock keeps the invariant.                                           *)
LEMMA TickStep ==
  ASSUME IInv, Tick
  PROVE  IInv'
<1>1. TypeOK /\ now \in Nat /\ now' = now + 1 /\ now' \in Time \ {0}
      /\ UNCHANGED <<rules, selected, coreVars, waiting, runVars, threw, history>>
  BY Constants DEF IInv, TypeOK, Tick, Time
<1>2. TypeOK'
  BY <1>1 DEF TypeOK, coreVars, claimVars, runVars, history, Entries
<1>3. RateBound'
  BY <1>1 DEF IInv, RateBound, history
<1>4. \A r \in Rooms : Spent(r)'
  <2>1. \A r \in Rooms : buckets[r].at \in Nat /\ buckets[r].at <= now
    BY <1>1, RateConstants DEF IInv, TypeOK, Spent
  <2>2. \A r \in Rooms : buckets[r].at <= now'
    BY <1>1, <2>1
  <2>3. buckets' = buckets /\ admits' = admits
    BY <1>1 DEF coreVars, history
  <2> QED
    BY <2>2, <2>3 DEF IInv, Spent
<1>5. /\ roomAnswer' = roomAnswer /\ decided' = decided /\ jobs' = jobs /\ sent' = sent
      /\ IsLimits(Room) /\ IsLimits(Jobs)
      /\ decided \in [Msgs -> Nat] /\ DOMAIN roomAnswer = Msgs
      /\ sent \in [Keys -> Nat] /\ DOMAIN jobs = Keys
  BY <1>1, Constants DEF TypeOK, coreVars, claimVars, history
<1>6. Remembers(roomAnswer, decided, Room)'
  <2>1. Remembers(roomAnswer, decided, Room)
    BY DEF IInv
  <2>2. \A k \in DOMAIN roomAnswer :
          /\ decided[k] <= now'
          /\ roomAnswer[k] # 0 => roomAnswer[k] = decided[k]
          /\ decided[k] # 0 => \/ roomAnswer[k] = decided[k] \/ decided[k] + Room.ttl <= now'
                               \/ Crowded(decided, k, Room)
    BY <1>1, <1>5, <2>1, TickRemembers
  <2> QED
    BY <1>5, <2>2 DEF Remembers, Crowded
<1>7. Remembers(jobs, sent, Jobs)'
  <2>1. Remembers(jobs, sent, Jobs)
    BY DEF IInv
  <2>2. \A k \in DOMAIN jobs :
          /\ sent[k] <= now'
          /\ jobs[k] # 0 => jobs[k] = sent[k]
          /\ sent[k] # 0 => \/ jobs[k] = sent[k] \/ sent[k] + Jobs.ttl <= now'
                            \/ Crowded(sent, k, Jobs)
    BY <1>1, <1>5, <2>1, TickRemembers
  <2> QED
    BY <1>5, <2>2 DEF Remembers, Crowded
<1> QED
  BY <1>2, <1>3, <1>4, <1>6, <1>7 DEF IInv

(* A new Worker has an empty core.                                          *)
LEMMA RestartStep ==
  ASSUME IInv, Restart
  PROVE  IInv'
<1>1. /\ now' \in Time \ {0} /\ rules' \in RuleSets /\ selected' \in SUBSET Rooms
      /\ waiting' \in [Msgs -> Nat] /\ threw' \in BOOLEAN /\ aborted' \in BOOLEAN
      /\ phase' \in {"running", "draining", "returned"}
  BY DEF IInv, TypeOK, Restart
<1>2. CoreIsNew' => CoreIsSound'
  BY NewCore, PTL
<1>3. CoreIsNew'
  BY <1>1 DEF Restart, CoreIsNew
<1> QED
  BY <1>1, <1>2, <1>3 DEF IInv, TypeOK, CoreIsSound

(* Every step keeps the invariant.                                          *)
LEMMA NextIInv == IInv /\ [Next]_vars => IInv'
<1> SUFFICES ASSUME IInv, [Next]_vars
             PROVE  IInv'
  OBVIOUS
<1>0. /\ rules \in RuleSets /\ selected \in SUBSET Rooms /\ waiting \in [Msgs -> Nat]
      /\ phase \in {"running", "draining", "returned"} /\ aborted \in BOOLEAN /\ threw \in BOOLEAN
  BY DEF IInv, TypeOK
<1>1. CASE Tick
  BY <1>1, TickStep
<1>2. CASE SetRules \/ SetSelectedRooms
  BY <1>0, <1>2, CoreUntouched DEF SetRules, SetSelectedRooms, runVars
<1>3. ASSUME NEW m \in Msgs, Receive(m)
      PROVE  IInv'
  BY <1>3, ReceiveStep
<1>4. ASSUME NEW m \in Msgs, Settles(m)
      PROVE  IInv'
  <2>1. waiting' \in [Msgs -> Nat]
    BY <1>0, <1>4 DEF Settles
  <2> QED
    BY <1>0, <1>4, <2>1, CoreUntouched DEF Settles, runVars
<1>5. CASE Abort
  <2>1. waiting' \in [Msgs -> Nat]
    BY <1>5 DEF Abort, Empty
  <2> QED
    BY <1>0, <1>5, <2>1, CoreUntouched DEF Abort
<1>6. CASE StreamEnds \/ RunReturns
  BY <1>0, <1>6, CoreUntouched DEF StreamEnds, RunReturns
<1>7. CASE Restart
  BY <1>7, RestartStep
<1>8. CASE UNCHANGED vars
  BY <1>0, <1>8, CoreUntouched DEF vars, runVars
<1> QED
  BY <1>1, <1>2, <1>3, <1>4, <1>5, <1>6, <1>7, <1>8 DEF Next

------------------------------------------------------------------------------
THEOREM InductiveInvariant == Spec => []IInv
  BY InitIInv, NextIInv, PTL DEF Spec

(* Every map of the core, the buckets and the counters keep to their types  *)
(* and every map to its maxEntries (lib/bounded-ttl-map.ts).                *)
THEOREM TypeCorrect == Spec => []TypeOK
<1>1. IInv => TypeOK
  BY DEF IInv
<1> QED
  BY <1>1, InductiveInvariant, PTL

(* In no window are more replies admitted in a room than the burst and what *)
(* is refilled meanwhile, for any capacity, rate and idle TTL that          *)
(* IdleAssumption allows (core/rate-limiter.ts).                            *)
THEOREM RateIsBounded == Spec => []RateBound
<1>1. IInv => RateBound
  BY DEF IInv
<1> QED
  BY <1>1, InductiveInvariant, PTL

(* Only a send makes a message wait.                                        *)
LEMMA OnlySendsStart ==
  ASSUME TypeOK, [Next]_vars, NEW m \in Msgs, Starts(m)
  PROVE  Sends(m)
<1>0. waiting \in [Msgs -> Nat]
  BY DEF TypeOK
<1>1. ASSUME UNCHANGED waiting
      PROVE  FALSE
  BY <1>0, <1>1 DEF Starts
<1>2. ASSUME Tick \/ SetRules \/ SetSelectedRooms \/ StreamEnds \/ RunReturns \/ Restart
             \/ UNCHANGED vars
      PROVE  FALSE
  <2>1. UNCHANGED waiting
    BY <1>2 DEF Tick, SetRules, SetSelectedRooms, StreamEnds, RunReturns, Restart, vars
  <2> QED
    BY <1>1, <2>1
<1>3. ~Abort
  BY <1>0 DEF Abort, Starts, Empty
<1>4. ASSUME NEW k \in Msgs, Settles(k)
      PROVE  FALSE
  BY <1>0, <1>4 DEF Settles, Starts
<1>5. ASSUME NEW k \in Msgs, Receive(k), ~Sends(k)
      PROVE  FALSE
  <2>1. UNCHANGED waiting
    BY <1>5 DEF Receive, RoomNotSelected, SenderNotAllowed, DedupedIncoming, NoRuleMatches,
       DedupedReply, DedupedRoom, RateLimited, Throws, Suppressed
  <2> QED
    BY <1>1, <2>1
<1>6. ASSUME NEW k \in Msgs, Sends(k)
      PROVE  k = m
  BY <1>0, <1>6 DEF Sends, Starts
<1> QED
  BY <1>2, <1>3, <1>4, <1>5, <1>6 DEF Next

(* The claim on a message outlives the rules, the sources and the sends: a  *)
(* message is answered once within the TTL of the room answers              *)
(* (pipeline/process-inbound.ts, core/core.ts).                             *)
THEOREM MessagesAnsweredOnce == Spec => AnsweredOnce
<1>1. ASSUME IInv, [Next]_vars, NEW m \in Msgs, Starts(m), decided[m] # 0
      PROVE  now >= decided[m] + Room.ttl \/ Crowded(decided, m, Room)
  <2>1. Sends(m) /\ TypeOK
    BY <1>1, OnlySendsStart DEF IInv
  <2>2. ~Has(roomAnswer, m, Room)
    BY <2>1 DEF Sends, Admitted, ClaimsRoom, TryClaim
  <2>3. m \in DOMAIN roomAnswer /\ decided[m] \in Nat /\ now \in Nat /\ Room.ttl \in Nat
    BY <2>1, Constants DEF TypeOK, IsLimits
  <2>4. roomAnswer[m] = decided[m] \/ decided[m] + Room.ttl <= now \/ Crowded(decided, m, Room)
    BY <1>1, <2>3 DEF IInv, Remembers
  <2> QED
    BY <1>1, <2>2, <2>3, <2>4 DEF Has
<1>2. IInv /\ [Next]_vars =>
        [\A m \in Msgs : Starts(m) /\ decided[m] # 0
           => now >= decided[m] + Room.ttl \/ Crowded(decided, m, Room)]_vars
  BY <1>1
<1> QED
  BY <1>2, InductiveInvariant, PTL DEF Spec, AnsweredOnce

(* Within the TTL of the registry a job is dispatched once, also when the   *)
(* claims before it have lapsed (core/job-registry.ts).                     *)
THEOREM JobsDispatchedOnce == Spec => JobDispatchedOnce
<1>1. ASSUME IInv, [Next]_vars, NEW m \in Msgs, Starts(m), sent[Job(m)] # 0
      PROVE  now >= sent[Job(m)] + Jobs.ttl \/ Crowded(sent, Job(m), Jobs)
  <2>1. Sends(m) /\ TypeOK
    BY <1>1, OnlySendsStart DEF IInv
  <2>2. ~Has(jobs, Job(m), Jobs) /\ Receive(m)
    BY <2>1 DEF Sends, Receive
  <2>3. Job(m) \in Keys
    <3>1. rules[m] \in Rules
      BY <2>1, PipelineAssumption DEF Sends, Admitted, ClaimsRoom, ClaimsReply, Matches, TypeOK,
         PipelineAssumption
    <3> QED
      BY <3>1 DEF Job, Keys
  <2>4. Job(m) \in DOMAIN jobs /\ sent[Job(m)] \in Nat /\ now \in Nat /\ Jobs.ttl \in Nat
    BY <2>1, <2>3, Constants DEF TypeOK, IsLimits
  <2>5. \/ jobs[Job(m)] = sent[Job(m)] \/ sent[Job(m)] + Jobs.ttl <= now
        \/ Crowded(sent, Job(m), Jobs)
    BY <1>1, <2>4 DEF IInv, Remembers
  <2> QED
    BY <1>1, <2>2, <2>4, <2>5 DEF Has
<1>2. IInv /\ [Next]_vars =>
        [\A m \in Msgs : Starts(m) /\ sent[Job(m)] # 0
           => now >= sent[Job(m)] + Jobs.ttl \/ Crowded(sent, Job(m), Jobs)]_vars
  BY <1>1
<1> QED
  BY <1>2, InductiveInvariant, PTL DEF Spec, JobDispatchedOnce
===============================================================================
