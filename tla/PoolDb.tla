------------------------------- MODULE PoolDb -------------------------------
(***************************************************************************)
(* The tables "shards" and "slots" of the panel's database and the         *)
(* functions of webproxy/pool.py that read and change them inside one      *)
(* transaction.  Every operator takes the database as a value and returns  *)
(* the database the function leaves, so that the modules that extend this  *)
(* one decide when a transaction commits and when it is rolled back.       *)
(*                                                                         *)
(* A slot is the pair of its shard and its index in it; its port and its   *)
(* row id are increasing functions of that pair.  A secret is the number   *)
(* of the slot's secrets generated so far when it was made: the code draws *)
(* 128 random bits, and the model never repeats a value for a slot.        *)
(***************************************************************************)
EXTENDS Integers, FiniteSets

CONSTANTS ShardSize,    \* slots in a shard (16 in the code)
          MaxShards     \* shards in the port range (625 in the code)

ASSUME PoolConstants == ShardSize \in Nat \ {0} /\ MaxShards \in Nat \ {0}

Shards == 0 .. MaxShards - 1
Indexes == 0 .. ShardSize - 1
Slots == Shards \X Indexes
ShardOf(s) == s[1]

Statuses == {"none", "free", "assigned", "dirty"}   \* "none": no row
ShardStates == {"none", "staged", "active"}         \* no row, active = 0, active = 1

Row == [status : Statuses, secret : Nat, pending : Nat]   \* pending 0: NULL
NoRow == [status |-> "none", secret |-> 0, pending |-> 0]

(* minted[s] counts the secrets ever generated for slot s, committed ones. *)
Database == [shard  : [Shards -> ShardStates],
             slot   : [Slots -> Row],
             minted : [Slots -> Nat]]

EmptyDatabase == [shard  |-> [h \in Shards |-> "none"],
                  slot   |-> [s \in Slots |-> NoRow],
                  minted |-> [s \in Slots |-> 0]]

-----------------------------------------------------------------------------
(* Queries.                                                                *)

ShardsIn(d, state) == {h \in Shards : d.shard[h] = state}
Existing(d) == {h \in Shards : d.shard[h] # "none"}

(* Slots of active shards with the given status, which counts() reports.   *)
ActiveSlots(d, status) ==
    {s \in Slots : d.slot[s].status = status /\ d.shard[ShardOf(s)] = "active"}

PendingSlots(d) == {s \in Slots : d.slot[s].pending # 0}

TheLarger(a, b) == IF a >= b THEN a ELSE b

LowWater(d) ==
    TheLarger(ShardSize, (Cardinality(ShardsIn(d, "active")) * ShardSize) \div 10)

NeedsMaintenance(d) ==
    \/ ActiveSlots(d, "dirty") # {}
    \/ Cardinality(ActiveSlots(d, "free")) < LowWater(d)

-----------------------------------------------------------------------------
(* Assignment of slots.                                                    *)

Before(s, t) == s[1] < t[1] \/ (s[1] = t[1] /\ s[2] < t[2])

(* The slot that "ORDER BY s.id LIMIT 1" returns.                          *)
IsFirst(s, S) == s \in S /\ \A t \in S \ {s} : Before(s, t)

CanTake(d, s) == IsFirst(s, ActiveSlots(d, "free"))
TakeFreeSlot(d, s) == [d EXCEPT !.slot[s].status = "assigned"]

ReleaseSlot(d, s) == [d EXCEPT !.slot[s].status = "dirty"]

-----------------------------------------------------------------------------
(* Staging: what a maintenance prepares before it touches any process, and *)
(* what it commits or throws away afterwards.                              *)

DirtyShards(d) == {h \in Shards : \E i \in Indexes : d.slot[<<h, i>>].status = "dirty"}

(* Faulty: gives the slots in use a pending secret too.                    *)
WantsSecretInUse(row) == row.status \in {"dirty", "assigned"} /\ row.pending = 0

(* Faulty: the guard inverted.                                             *)
WantsAnother(row) == row.status = "dirty" /\ row.pending # 0

WantsSecret(row) == row.status = "dirty" /\ row.pending = 0

StageDirty(d) ==
    [shard  |-> d.shard,
     slot   |-> [s \in Slots |-> IF WantsSecret(d.slot[s])
                                 THEN [d.slot[s] EXCEPT !.pending = d.minted[s] + 1]
                                 ELSE d.slot[s]],
     minted |-> [s \in Slots |-> IF WantsSecret(d.slot[s]) THEN d.minted[s] + 1
                                 ELSE d.minted[s]]]

(* Faulty: off by one after the first shard.                               *)
NextShardLeavesGap(d) == IF Existing(d) = {} THEN 0
                         ELSE 2 + (CHOOSE h \in Existing(d) : \A k \in Existing(d) : k <= h)

(* MAX(id) + 1: the id after the last existing shard.                      *)
NextShard(d) == IF Existing(d) = {} THEN 0
                ELSE 1 + (CHOOSE h \in Existing(d) : \A k \in Existing(d) : k <= h)

NewShards(d, n) == NextShard(d) .. NextShard(d) + n - 1

(* Faulty: the limit is off by one.                                        *)
FitsPoolAndOne(d, n) == n > 0 => NextShard(d) + n <= MaxShards + 1

FitsPool(d, n) == n > 0 => NextShard(d) + n <= MaxShards

CreateShards(d, n) ==
    LET new == NewShards(d, n) IN
    [shard  |-> [h \in Shards |-> IF h \in new THEN "staged" ELSE d.shard[h]],
     slot   |-> [s \in Slots |->
                   IF ShardOf(s) \in new
                   THEN [status |-> "free", secret |-> d.minted[s] + 1, pending |-> 0]
                   ELSE d.slot[s]],
     minted |-> [s \in Slots |-> IF ShardOf(s) \in new THEN d.minted[s] + 1 ELSE d.minted[s]]]

(* Faulty: frees the dirty slots that have no pending secret as well.      *)
CommitAllDirty(d) ==
    [shard  |-> [h \in Shards |-> IF d.shard[h] = "staged" THEN "active" ELSE d.shard[h]],
     slot   |-> [s \in Slots |->
                   IF d.slot[s].status = "dirty"
                   THEN [status |-> "free", pending |-> 0,
                         secret |-> TheLarger(d.slot[s].secret, d.slot[s].pending)]
                   ELSE d.slot[s]],
     minted |-> d.minted]

CommitStaged(d) ==
    [shard  |-> [h \in Shards |-> IF d.shard[h] = "staged" THEN "active" ELSE d.shard[h]],
     slot   |-> [s \in Slots |->
                   IF d.slot[s].pending # 0 /\ d.slot[s].status = "dirty"
                   THEN [status |-> "free", secret |-> d.slot[s].pending, pending |-> 0]
                   ELSE d.slot[s]],
     minted |-> d.minted]


(* Faulty: takes the staged dirty slots back into the free ones.           *)
AbortFreesDirty(d) ==
    [shard  |-> [h \in Shards |-> IF d.shard[h] = "staged" THEN "none" ELSE d.shard[h]],
     slot   |-> [s \in Slots |->
                   IF d.shard[ShardOf(s)] = "staged" THEN NoRow
                   ELSE IF d.slot[s].pending = 0 THEN d.slot[s]
                   ELSE [d.slot[s] EXCEPT !.pending = 0, !.status = "free"]],
     minted |-> d.minted]

AbortStaged(d) ==
    [shard  |-> [h \in Shards |-> IF d.shard[h] = "staged" THEN "none" ELSE d.shard[h]],
     slot   |-> [s \in Slots |-> IF d.shard[ShardOf(s)] = "staged" THEN NoRow
                                 ELSE [d.slot[s] EXCEPT !.pending = 0]],
     minted |-> d.minted]

-----------------------------------------------------------------------------
(* Rendering.  A profile list and the environment files of the shards both *)
(* give each slot its pending secret, or else its secret; 0 where the list *)
(* has no entry.                                                           *)

SecretMap == [Slots -> Nat]
Nothing == [s \in Slots |-> 0]

Render(d) == [s \in Slots |-> IF d.slot[s].pending # 0 THEN d.slot[s].pending
                              ELSE d.slot[s].secret]

Entries(f) == {s \in Slots : f[s] # 0}

(* f with the entries of the shards in H taken from g.                     *)
Patch(f, H, g) == [s \in Slots |-> IF ShardOf(s) \in H THEN g[s] ELSE f[s]]
=============================================================================
