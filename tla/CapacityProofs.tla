--------------------------- MODULE CapacityProofs ---------------------------
(***************************************************************************)
(* Proofs about Capacity: for every answer about users and memory, and for *)
(* every limit of the pool up to the 625 shards of the deployment.         *)
(***************************************************************************)
EXTENDS Capacity, TLAPS

-----------------------------------------------------------------------------
(* Division.                                                               *)

(* What divides into parts of at least b divides by a into at least b.     *)
LEMMA Quotient ==
    ASSUME NEW a \in Nat \ {0}, NEW b \in Nat, NEW p \in Nat, a * b <= p
    PROVE  b <= p \div a
  OBVIOUS

(* The quotient by a constant, as the solver uses it.                      *)
LEMMA Tenth ==
    ASSUME NEW n \in Nat
    PROVE  n \div 10 \in Nat /\ 10 * (n \div 10) <= n /\ n < 10 * (n \div 10) + 10
  OBVIOUS

LEMMA Sixteenth ==
    ASSUME NEW n \in Nat
    PROVE  n \div 16 \in Nat /\ 16 * (n \div 16) <= n /\ n < 16 * (n \div 16) + 16
  OBVIOUS

-----------------------------------------------------------------------------
(* Sizing.                                                                 *)

LEMMA PendingBounds ==
    ASSUME NEW mem \in Nat
    PROVE  PendingBytes(mem) \in Nat /\ PendingBytes(mem) >= MaxPendingPerSession
  BY DEF PendingBytes, Larger, Smaller, MaxPendingPerSession

(* The sessions reserve at most half of the bytes.                         *)
LEMMA SessionsFit ==
    ASSUME NEW slots \in Nat \ {0}, NEW pending \in Nat, pending >= MaxPendingPerSession
    PROVE  /\ PlannedSessions(slots, pending) \in Nat \ {0}
           /\ PlannedSessions(slots, pending) * (2 * ReserveCost) <= pending
<1> DEFINE fitting == pending \div 214400
<1>1. fitting \in Nat \ {0} /\ fitting * 214400 <= pending
  BY DEF MaxPendingPerSession
<1>2. 2 * ReserveCost = 214400
  BY DEF ReserveCost, ReserveItems
<1>3. PlannedSessions(slots, pending) = IF slots > fitting THEN fitting ELSE slots
  BY <1>1, <1>2 DEF PlannedSessions, Larger
<1> QED  BY <1>1, <1>2, <1>3

LEMMA RelayLimitsAccepted ==
    ASSUME NEW slots \in Nat \ {0}, NEW pending \in Nat, NEW s \in Nat \ {0},
           pending >= MaxPendingPerSession, s * (2 * ReserveCost) <= pending
    PROVE  /\ RelayLimits(slots, pending, s) \in Limits
           /\ LimitsAccepted(RelayLimits(slots, pending, s))
<1> DEFINE l == RelayLimits(slots, pending, s)
<1>1. /\ l.sessions = s /\ l.pending = pending
      /\ l.items = s * ReserveItems + DefaultPendingItems
      /\ l.streams \in Nat /\ l.streams >= MaxStreamsPerSession
      /\ l.dials \in Nat /\ l.dials > 0 /\ l.streams >= l.dials
      /\ l.streams_burst \in Nat /\ StreamsBurst <= l.streams_burst
      /\ l.streams_per_minute \in Nat /\ StreamsPerMinute <= l.streams_per_minute
      /\ l.max_profiles = slots + ShardSize
  BY DEF RelayLimits, Larger, Smaller, MaxStreamsPerSession, StreamsBurst, StreamsPerMinute
<1>2. l.items \in Nat /\ l.items >= 16384 /\ l.items >= s * 400 /\ l.max_profiles \in Nat
  BY <1>1 DEF ReserveItems, DefaultPendingItems, ShardSize
<1>3. l \in Limits
  BY <1>1, <1>2 DEF RelayLimits, Limits
<1>4. s * 107200 <= pending
  BY DEF ReserveCost, ReserveItems
<1>5. 107200 <= pending \div s
  BY <1>4, Quotient
<1>6. 400 <= l.items \div s
  <2> DEFINE items == l.items
  <2>1. items \in Nat /\ s * 400 <= items
    BY <1>2
  <2> HIDE DEF items
  <2>2. 400 <= items \div s
    BY <2>1, Quotient
  <2> QED  BY <2>2 DEF items
<1>7. ReserveCost = 107200 /\ ReserveItems = 400
  BY DEF ReserveCost, ReserveItems
<1>8. LimitsAccepted(l)
  BY <1>1, <1>2, <1>5, <1>6, <1>7 DEF LimitsAccepted
<1> QED  BY <1>3, <1>8

Sizing == [shards : Nat \ {0}, limits : {l \in Limits : LimitsAccepted(l)}]

(* Every plan that compute() returns has limits that the relay accepts.    *)
LEMMA ComputeAccepted ==
    ASSUME NEW n \in Nat \ {0}, NEW mem \in Nat
    PROVE  Compute(n, mem) \in Sizing
<1> DEFINE slots == n * ShardSize
           pending == PendingBytes(mem)
           s == PlannedSessions(slots, pending)
<1>1. slots \in Nat \ {0}
  BY DEF ShardSize
<1>2. pending \in Nat /\ pending >= MaxPendingPerSession
  BY PendingBounds
<1>3. s \in Nat \ {0} /\ s * (2 * ReserveCost) <= pending
  BY <1>1, <1>2, SessionsFit
<1>4. RelayLimits(slots, pending, s) \in {l \in Limits : LimitsAccepted(l)}
  BY <1>1, <1>2, <1>3, RelayLimitsAccepted
<1> QED  BY <1>4 DEF Compute, Sizing

LEMMA PlannedShardsPositive ==
    ASSUME NEW users \in Nat \ {0}
    PROVE  PlannedShards(users) \subseteq Nat \ {0}
<1>1. CeilDiv(33 * users, 400) \in Nat \ {0}
  BY DEF CeilDiv
<1> QED  BY <1>1 DEF PlannedShards

-----------------------------------------------------------------------------
(* Growth.                                                                 *)

Pools == {p \in [shards : 0 .. MaxShards, free : Nat, dirty : Nat] :
            p.free + p.dirty <= Slots(p)}

Short(p, n) == LowWater(p) - p.free <= n

(* Automatic growth adds the least number of shards that reaches the       *)
(* threshold of the pool as it was; each time, the new threshold is        *)
(* farther by a tenth of what was added.                                   *)
LEMMA GrowthShortens ==
    ASSUME NEW p \in Pools, p.shards + Growth(p) <= MaxShards
    PROVE  /\ Growth(p) \in Nat
           /\ Short(Grown(p, Growth(p)), 101)
           /\ Short(p, 101) => Short(Grown(p, Growth(p)), 12)
           /\ Short(p, 12) => Short(Grown(p, Growth(p)), 0)
<1> DEFINE t == LowWater(p)
           missing == Larger(0, t - (p.free + p.dirty))
           g == Growth(p)
           q == Grown(p, g)
           u == LowWater(q)
<1>1. /\ p.shards \in 0 .. 625 /\ p.free \in Nat /\ p.dirty \in Nat /\ Slots(p) = 16 * p.shards
      /\ Slots(p) \in Nat
  BY CapacityConstants DEF Pools, Slots, ShardSize
<1>2. t \in Nat /\ t >= 16 /\ t <= 1000
      /\ (t = 16 \/ 10 * t <= 16 * p.shards) /\ 16 * p.shards < 10 * t + 10
  BY <1>1, Tenth DEF LowWater, Larger, ShardSize
<1>3. missing \in Nat /\ missing >= t - (p.free + p.dirty)
      /\ (missing = 0 \/ missing = t - (p.free + p.dirty)) /\ missing <= 1000
  BY <1>1, <1>2 DEF Larger
<1>4. g \in Nat /\ 16 * g >= missing /\ 16 * g <= missing + 15
  <2>1. g = (missing + 15) \div 16
    BY <1>3 DEF Growth, CeilDiv, ShardSize
  <2> QED  BY <2>1, <1>3, Sixteenth
<1>5. /\ q.shards = p.shards + g /\ q.free = p.free + p.dirty + 16 * g
      /\ Slots(q) = 16 * (p.shards + g) /\ Slots(q) \in Nat
  BY <1>1, <1>4 DEF Grown, Slots, ShardSize
<1>6. u \in Nat /\ u >= 16 /\ (u = 16 \/ 10 * u <= 16 * (p.shards + g))
  BY <1>5, Tenth DEF LowWater, Larger, ShardSize
<1>7. 10 * u <= 10 * t + 10 + 16 * g /\ (g = 0 => u = t)
  <2>1. g = 0 => u = t
    BY <1>1, <1>5 DEF LowWater
  <2> QED  BY <2>1, <1>1, <1>2, <1>4, <1>6
<1> HIDE DEF t, missing, g, q, u
<1>8. u - q.free <= 101
  BY <1>1, <1>2, <1>3, <1>4, <1>5, <1>6, <1>7
<1>9. ASSUME t - p.free <= 101  PROVE u - q.free <= 12
  BY <1>9, <1>1, <1>2, <1>3, <1>4, <1>5, <1>6, <1>7
<1>10. ASSUME t - p.free <= 12  PROVE u - q.free <= 0
  <2>1. CASE g = 0
    BY <2>1, <1>10, <1>1, <1>2, <1>3, <1>4, <1>5, <1>6, <1>7
  <2>2. CASE g > 0
    <3>1. g = 1
      BY <2>2, <1>10, <1>1, <1>2, <1>3, <1>4
    <3> QED  BY <3>1, <1>10, <1>1, <1>2, <1>3, <1>4, <1>5, <1>6, <1>7
  <2> QED  BY <2>1, <2>2, <1>4
<1> QED  BY <1>4, <1>8, <1>9, <1>10 DEF t, g, q, u, Short

(* Maintenance with any number of new shards leaves a pool.                *)
LEMMA MaintainType ==
    ASSUME pool \in Pools, relay \in {NoPlan} \cup [limits : Limits, profiles : Nat], RelayStarts,
           NEW sizing \in Sizing, NEW n \in Nat, Maintain(sizing, n)
    PROVE  /\ pool' \in Pools /\ pool' = Grown(pool, n)
           /\ relay' \in {NoPlan} \cup [limits : Limits, profiles : Nat] /\ RelayStarts'
<1>1. pool' = Grown(pool, n) /\ pool.shards + n <= MaxShards
  BY DEF Maintain
<1>2. pool' \in Pools
  BY <1>1, CapacityConstants DEF Pools, Grown, Slots, ShardSize
<1>3. Slots(pool') \in Nat
  BY <1>2, CapacityConstants DEF Pools, Slots, ShardSize
<1>4. CASE relay' = relay
  BY <1>1, <1>2, <1>4 DEF RelayStarts
<1>5. CASE relay' = Render(sizing.limits, Slots(pool'))
  <2> DEFINE profiles == Slots(pool')
             l == sizing.limits
             r == Render(l, profiles)
  <2>1. l \in Limits /\ LimitsAccepted(l) /\ profiles \in Nat
    BY <1>3 DEF Sizing
  <2>2. /\ r.limits = [l EXCEPT !.max_profiles = Larger(@, profiles)]
        /\ r.profiles = profiles
        /\ r = [limits |-> r.limits, profiles |-> profiles]
    BY DEF Render
  <2>3. Larger(l.max_profiles, profiles) \in Nat /\ profiles <= Larger(l.max_profiles, profiles)
    BY <2>1 DEF Larger, Limits
  <2>4. r.limits \in Limits /\ r.limits.max_profiles = Larger(l.max_profiles, profiles)
    BY <2>1, <2>2, <2>3 DEF Limits
  <2>5. LimitsAccepted(r.limits)
    BY <2>1, <2>2 DEF LimitsAccepted, Limits
  <2>6. RelayAccepts(r) /\ r \in [limits : Limits, profiles : Nat]
    BY <2>1, <2>2, <2>3, <2>4, <2>5 DEF RelayAccepts
  <2> QED  BY <1>1, <1>2, <1>5, <2>6 DEF RelayStarts
<1> QED  BY <1>4, <1>5 DEF Maintain

-----------------------------------------------------------------------------
(* The inductive invariant: every plan, in the file or in the worker's     *)
(* hands, has limits that the relay accepts, and the number of maintenances*)
(* bounds what is still missing.                                           *)
Settling ==
    /\ rounds = 1 => Short(pool, 101)
    /\ rounds = 2 => Short(pool, 12)
    /\ rounds = 3 => Short(pool, 0)

IInv ==
    /\ plan \in {NoPlan} \cup Sizing /\ loaded \in {NoPlan} \cup Sizing
    /\ relay \in {NoPlan} \cup [limits : Limits, profiles : Nat]
    /\ pool \in Pools
    /\ rounds \in 0 .. Rounds /\ releases \in 0 .. MaxReleases
    /\ RelayStarts /\ Settling

LEMMA IInvInit == Init => IInv
  BY CapacityConstants DEF Init, IInv, Pools, Slots, ShardSize, Rounds, RelayStarts, Settling

LEMMA IInvStep == IInv /\ [Next]_vars => IInv'
<1> SUFFICES ASSUME IInv, [Next]_vars  PROVE IInv'
  OBVIOUS
<1> USE DEF IInv
<1>1. ASSUME NEW h \in Hosts, NEW resize \in BOOLEAN, CmdInit(h, resize)  PROVE IInv'
  <2>1. plan' \in {NoPlan} \cup Sizing /\ plan' \in Sizing
    <3>1. PICK n \in PlannedShards(h.users) :
            plan' = IF plan # NoPlan /\ ~resize THEN plan ELSE Compute(n, h.mem)
      BY <1>1 DEF CmdInit
    <3>2. n \in Nat \ {0} /\ h.mem \in Nat
      BY PlannedShardsPositive, CapacityConstants
    <3>3. Compute(n, h.mem) \in Sizing
      BY <3>2, ComputeAccepted
    <3> QED  BY <3>1, <3>3
  <2>2. rounds' = 0 /\ loaded' = loaded /\ releases' = releases
    BY <1>1 DEF CmdInit
  <2>3. CASE UNCHANGED <<pool, relay>>
    BY <2>1, <2>2, <2>3 DEF RelayStarts, Settling, Rounds
  <2>4. CASE Maintain(plan', Larger(0, plan'.shards - pool.shards))
    <3>1. Larger(0, plan'.shards - pool.shards) \in Nat
      BY <2>1 DEF Larger, Sizing, Pools
    <3>2. pool' \in Pools /\ relay' \in {NoPlan} \cup [limits : Limits, profiles : Nat] /\ RelayStarts'
      BY <2>1, <2>4, <3>1, MaintainType
    <3> QED  BY <2>1, <2>2, <3>2 DEF Settling, Rounds
  <2> QED  BY <1>1, <2>3, <2>4 DEF CmdInit
<1>2. CASE WorkerLoads
  BY <1>2 DEF WorkerLoads, RelayStarts, Settling
<1>3. CASE WorkerMaintains
  <2>1. /\ Maintain(loaded, Growth(pool)) /\ loaded \in Sizing
        /\ UNCHANGED <<plan, loaded, releases>>
        /\ rounds' = Smaller(rounds + 1, Rounds)
    BY <1>3 DEF WorkerMaintains
  <2>2. /\ Growth(pool) \in Nat
        /\ Short(Grown(pool, Growth(pool)), 101)
        /\ Short(pool, 101) => Short(Grown(pool, Growth(pool)), 12)
        /\ Short(pool, 12) => Short(Grown(pool, Growth(pool)), 0)
    BY <2>1, GrowthShortens DEF Maintain
  <2>3. /\ pool' \in Pools /\ pool' = Grown(pool, Growth(pool))
        /\ relay' \in {NoPlan} \cup [limits : Limits, profiles : Nat] /\ RelayStarts'
    BY <2>1, <2>2, MaintainType
  <2>4. Short(pool, 0) => Short(pool, 12)
    <3>1. LowWater(pool) \in Nat /\ pool.free \in Nat
      BY CapacityConstants, Tenth DEF LowWater, Larger, Pools, Slots, ShardSize
    <3> QED  BY <3>1 DEF Short
  <2>5. /\ rounds = 0 => rounds' = 1
        /\ rounds = 1 => rounds' = 2
        /\ rounds \in {2, 3} => rounds' = 3
        /\ rounds \in {0, 1, 2, 3}
    BY <2>1 DEF Smaller, Rounds
  <2>6. Settling'
    BY <2>2, <2>3, <2>4, <2>5 DEF Settling
  <2> QED  BY <2>1, <2>3, <2>5, <2>6 DEF Rounds
<1>4. CASE TakeFreeSlot
  <2>1. pool' \in Pools
    BY <1>4 DEF TakeFreeSlot, Pools, Slots, ShardSize
  <2> QED  BY <1>4, <2>1 DEF TakeFreeSlot, RelayStarts, Settling, Rounds
<1>5. CASE ReleaseSlot
  <2>1. pool' \in Pools /\ pool'.free = pool.free /\ pool'.shards = pool.shards
    BY <1>5 DEF ReleaseSlot, Pools, Slots, ShardSize
  <2>2. \A n : Short(pool', n) <=> Short(pool, n)
    BY <2>1 DEF Short, LowWater, Slots
  <2>3. releases' \in 0 .. MaxReleases
    BY <1>5, CapacityConstants DEF ReleaseSlot
  <2> QED  BY <1>5, <2>1, <2>2, <2>3 DEF ReleaseSlot, RelayStarts, Settling
<1>6. CASE UNCHANGED vars
  BY <1>6 DEF vars, RelayStarts, Settling, Short, LowWater, Slots
<1> QED  BY <1>1, <1>2, <1>3, <1>4, <1>5, <1>6 DEF Next

LEMMA IInvAlways == Spec => []IInv
  BY IInvInit, IInvStep, PTL DEF Spec

(* Types, and the range of ports: no more slots are free or dirty than     *)
(* there are, and there are never more than MAX_SHARDS shards (pool.py:91).*)
THEOREM CapacityTypeCorrect == Spec => []TypeOK
<1>1. IInv => TypeOK
  BY DEF IInv, TypeOK, Sizing, Pools
<1> QED  BY <1>1, IInvAlways, PTL

(* The relay accepts its configuration on every machine, for every number  *)
(* of users, and however far the pool has grown (sizing.py:38-95,          *)
(* pool.py:179).                                                           *)
THEOREM RelayAlwaysStarts == Spec => []RelayStarts
<1>1. IInv => RelayStarts
  BY DEF IInv
<1> QED  BY <1>1, IInvAlways, PTL

(* Three maintenances in a row are enough for every pool of up to 625      *)
(* shards (pool.py:75, 335-337).                                           *)
THEOREM GrowthAlwaysSettles == Spec => []GrowthSettles
<1>1. IInv => GrowthSettles
  <2>1. pool \in Pools => LowWater(pool) \in Nat /\ pool.free \in Nat
    BY CapacityConstants, Tenth DEF LowWater, Larger, Pools, Slots, ShardSize
  <2> QED  BY <2>1 DEF IInv, GrowthSettles, Settling, Short, Rounds
<1> QED  BY <1>1, IInvAlways, PTL
=============================================================================
