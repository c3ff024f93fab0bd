------------------------------ MODULE Capacity ------------------------------
(***************************************************************************)
(* How many slots and sessions there are: the plan that sizing.py computes *)
(* from the expected users and the memory, the growth of the pool by whole *)
(* shards (webproxy/pool.py) and by "wpp init" (webproxy/cli.py), and the  *)
(* limits that the relay is configured with.  The pool is its numbers of   *)
(* slots: Pool says which slots they are, and what happens during the      *)
(* application of a configuration, which is one step here.                 *)
(***************************************************************************)
EXTENDS Integers, FiniteSets

CONSTANTS Hosts,        \* the answers to "how many users" and "how much memory"
          MaxShards,    \* config.MAX_SHARDS, 625 as deployed
          MaxReleases,  \* bound: slots released
          NoPlan

ASSUME CapacityConstants ==
    /\ \A h \in Hosts : h.users \in Nat \ {0} /\ h.mem \in Nat
    /\ MaxShards \in 1 .. 625
    /\ MaxReleases \in Nat

VARIABLES
    plan,      \* sizing.json
    loaded,    \* the plan that the worker has read for its next maintenance
    relay,     \* the limits in the relay's configuration, and its profiles
    pool,      \* active shards, and their free and dirty slots; others are assigned
    rounds,    \* history: automatic maintenances since a slot was taken, up to Rounds
    releases

vars == <<plan, loaded, relay, pool, rounds, releases>>

-----------------------------------------------------------------------------
(* Sizing.  Memory is in MiB, buffers are in bytes.                        *)

ShardSize == 16
ReserveItems == 400
ReserveCost == ReserveItems * (256 + 8 + 4)
MaxStreamsPerSession == 128
DefaultPendingItems == 262144
MaxPendingPerSession == 32 * 1048576

Larger(a, b) == IF a > b THEN a ELSE b
Smaller(a, b) == IF a < b THEN a ELSE b
CeilDiv(a, b) == (a + b - 1) \div b

(* pool_slots: users * 1.2 * 1.1 / 16, rounded up.  When that is a whole   *)
(* number, the floating-point product may be a little more.                *)
PlannedShards(users) ==
    LET exact == CeilDiv(33 * users, 400)
    IN  {exact} \cup {n \in {exact + 1} : (33 * users) % 400 = 0}

PendingBytes(mem) == Larger(Smaller(2048, mem) * 262144, MaxPendingPerSession)

(* At least half of the bytes stay for data.                               *)
PlannedSessions(slots, pending) ==
    LET fitting == pending \div (2 * ReserveCost)
    IN  IF slots > fitting THEN Larger(1, fitting) ELSE slots

StreamsPerMinute == 300
StreamsBurst == 64

RelayLimits(slots, pending, sessions) ==
    LET streams == Larger(Smaller(sessions * 32, 65536), MaxStreamsPerSession)
        burst == Larger(Larger(512, 4 * sessions), StreamsBurst)
    IN  [sessions |-> sessions, pending |-> pending,
         items |-> sessions * ReserveItems + DefaultPendingItems,
         streams |-> streams, dials |-> Smaller(256, streams),
         streams_burst |-> burst, streams_per_minute |-> Larger(5 * burst, StreamsPerMinute),
         max_profiles |-> slots + ShardSize]

Compute(shards, mem) ==
    LET slots == shards * ShardSize
        pending == PendingBytes(mem)
    IN  [shards |-> shards,
         limits |-> RelayLimits(slots, pending, PlannedSessions(slots, pending))]

-----------------------------------------------------------------------------
(* The pool.                                                               *)

Slots(p) == p.shards * ShardSize
LowWater(p) == Larger(ShardSize, Slots(p) \div 10)

(* Faulty: only whole shards of what is missing.                           *)
GrowthRoundedDown(p) == Larger(0, LowWater(p) - (p.free + p.dirty)) \div ShardSize

(* maintain(grow_shards=None)                                              *)
Growth(p) == CeilDiv(Larger(0, LowWater(p) - (p.free + p.dirty)), ShardSize)

(* Faulty: the rotated slots stay dirty.                                   *)
GrownStillDirty(p, n) ==
    [shards |-> p.shards + n, free |-> p.free + p.dirty + n * ShardSize, dirty |-> p.dirty]

Grown(p, n) ==
    [shards |-> p.shards + n, free |-> p.free + p.dirty + n * ShardSize, dirty |-> 0]

(* Faulty: the limits are those of the plan.                               *)
RenderPlan(limits, profiles) == [limits |-> limits, profiles |-> profiles]

(* render_relay_config: the pool may have grown past the plan.             *)
Render(limits, profiles) ==
    [limits |-> [limits EXCEPT !.max_profiles = Larger(@, profiles)], profiles |-> profiles]

(* maintain: create_shards refuses what is beyond the limit, and a         *)
(* configuration that cannot be applied leaves everything as it was.       *)
Maintain(sizing, n) ==
    /\ pool.shards + n <= MaxShards
    /\ pool' = Grown(pool, n)
    /\ relay' = IF n = 0 /\ pool.dirty = 0 THEN relay
                ELSE Render(sizing.limits, Slots(pool'))

Init ==
    /\ plan = NoPlan /\ loaded = NoPlan /\ relay = NoPlan
    /\ pool = [shards |-> 0, free |-> 0, dirty |-> 0]
    /\ rounds = 0 /\ releases = 0

(* wpp init: only a first run, or --resize, computes the plan; the relay   *)
(* is configured again only when the pool changes.                         *)
CmdInit(h, resize) ==
    /\ \E n \in PlannedShards(h.users) :
         plan' = IF plan # NoPlan /\ ~resize THEN plan ELSE Compute(n, h.mem)
    /\ \/ Maintain(plan', Larger(0, plan'.shards - pool.shards))
       \/ UNCHANGED <<pool, relay>>   \* refused, or failed
    /\ rounds' = 0
    /\ UNCHANGED <<loaded, releases>>

(* The worker loads the plan, and maintains the pool with it later.        *)
WorkerLoads ==
    /\ plan # NoPlan /\ loaded' = plan
    /\ UNCHANGED <<plan, relay, pool, rounds, releases>>

Rounds == 3

WorkerMaintains ==
    /\ loaded # NoPlan
    /\ Maintain(loaded, Growth(pool))
    /\ rounds' = Smaller(rounds + 1, Rounds)
    /\ UNCHANGED <<plan, loaded, releases>>

TakeFreeSlot ==
    /\ pool.free > 0
    /\ pool' = [pool EXCEPT !.free = @ - 1]
    /\ rounds' = 0
    /\ UNCHANGED <<plan, loaded, relay, releases>>

ReleaseSlot ==
    /\ pool.free + pool.dirty < Slots(pool) /\ releases < MaxReleases
    /\ pool' = [pool EXCEPT !.dirty = @ + 1]
    /\ releases' = releases + 1
    /\ UNCHANGED <<plan, loaded, relay, rounds>>

Next ==
    \/ \E h \in Hosts, resize \in BOOLEAN : CmdInit(h, resize)
    \/ WorkerLoads \/ WorkerMaintains
    \/ TakeFreeSlot \/ ReleaseSlot

Spec == Init /\ [][Next]_vars

-----------------------------------------------------------------------------
(* Properties.                                                             *)

Limits == [sessions : Nat \ {0}, pending : Nat, items : Nat, streams : Nat, dials : Nat,
           streams_burst : Nat, streams_per_minute : Nat, max_profiles : Nat]

(* Every variable stays in its type, no more slots are free or dirty than  *)
(* there are, and the pool stays within the range of ports.                *)
TypeOK ==
    /\ {plan, loaded} \subseteq {NoPlan} \cup [shards : Nat \ {0}, limits : Limits]
    /\ relay \in {NoPlan} \cup [limits : Limits, profiles : Nat]
    /\ pool \in [shards : 0 .. MaxShards, free : Nat, dirty : Nat]
    /\ pool.free + pool.dirty <= Slots(pool)
    /\ rounds \in 0 .. Rounds /\ releases \in 0 .. MaxReleases

(* reserve_ok, "same inequality as tproxy-server ValidateBudget", and the  *)
(* rules of its validate() that tests/test_sizing.py:46-62 lists.          *)
LimitsAccepted(l) ==
    /\ ReserveCost <= l.pending \div l.sessions
    /\ ReserveItems <= l.items \div l.sessions
    /\ l.pending >= MaxPendingPerSession /\ l.items >= 16384
    /\ l.streams >= MaxStreamsPerSession /\ l.streams >= l.dials /\ l.dials > 0
    /\ StreamsPerMinute <= l.streams_per_minute /\ StreamsBurst <= l.streams_burst

RelayAccepts(r) == LimitsAccepted(r.limits) /\ r.profiles <= r.limits.max_profiles

(* Whatever the machine, the plans computed for it, and the growth of the  *)
(* pool since, with a plan read before or after another was written, the   *)
(* relay accepts its configuration (sizing.py:63, pool.py:179).            *)
RelayStarts == relay # NoPlan => RelayAccepts(relay)

(* Growth raises the threshold that it has to reach (pool.py:75): one      *)
(* maintenance may leave a large pool below it, but while nobody takes a   *)
(* slot three are enough, whatever the size.                               *)
GrowthSettles == rounds = Rounds => pool.free >= LowWater(pool)
=============================================================================
