----------------------------- MODULE PoolProofs -----------------------------
(***************************************************************************)
(* Theorems about module Pool for every size of the pool and every number  *)
(* of failures, crashes and users.  The inductive invariant IInv says of   *)
(* each slot what its row, the state of its shard, the secrets made for it *)
(* and the secrets given away have to do with each other, and of the shard *)
(* table that it is an interval of active shards with the staged ones on   *)
(* top of it.                                                              *)
(***************************************************************************)
EXTENDS Pool, TLAPS, FiniteSetTheorems

-----------------------------------------------------------------------------
(* The inductive invariant.                                                *)

(* The first a shards are active, the next up to n staged, the rest absent.*)
LayoutIs(d, a, n) ==
    /\ a <= n /\ n <= MaxShards
    /\ \A h \in Shards : d.shard[h] = IF h < a THEN "active"
                                      ELSE IF h < n THEN "staged" ELSE "none"

Layout(d) == \E a, n \in Nat : LayoutIs(d, a, n)

(* One slot: its row, its shard's state, the number m of secrets made for  *)
(* it and the set H of those given away.                                   *)
SlotOK(row, state, m, H) ==
    /\ row.secret <= m /\ row.pending <= m /\ \A x \in H : x <= m
    /\ row.pending # 0 =>
         row.status = "dirty" /\ row.pending \notin H /\ row.pending # row.secret
    /\ row.status # "none" => row.secret > 0
    /\ row.status = "free" => row.secret \notin H
    /\ state = "none" <=> row.status = "none"
    /\ state = "staged" => row.status = "free"

Good(d, g) ==
    /\ d \in Database
    /\ g \in [Slots -> SUBSET Nat]
    /\ Layout(d)
    /\ \A s \in Slots : SlotOK(d.slot[s], d.shard[ShardOf(s)], d.minted[s], g[s])

(* Only wait_healthy visits another unit than a shard.                     *)
LoopOK == pc # "health" => left \in SUBSET Shards

IInv == TypeOK /\ LoopOK /\ Good(db, handed)

-----------------------------------------------------------------------------
(* Facts about the operators of PoolDb.                                    *)

LEMMA ShardOfType == \A s \in Slots : ShardOf(s) \in Shards
  BY DEF Slots, ShardOf

LEMMA ParametersType == ShardSize \in Nat /\ ShardSize > 0 /\ MaxShards \in Nat /\ MaxShards > 0
  BY PoolConstants

(* Every set of slots is finite, so its size is a number.                  *)
LEMMA SlotsFinite == \A S \in SUBSET Slots : Cardinality(S) \in Nat
<1>1. IsFiniteSet(Shards) /\ IsFiniteSet(Indexes)
  BY FS_Interval, ParametersType DEF Shards, Indexes
<1>2. IsFiniteSet(Slots)
  BY <1>1, FS_Product DEF Slots
<1> QED
  BY <1>2, FS_Subset, FS_CardinalityType

(* abort_staged keeps everything but what was staged.                      *)
LEMMA AbortGood ==
  ASSUME NEW d, NEW g, Good(d, g)
  PROVE  /\ Good(AbortStaged(d), g)
         /\ ShardsIn(AbortStaged(d), "staged") = {}
         /\ PendingSlots(AbortStaged(d)) = {}
<1> DEFINE e == AbortStaged(d)
<1>0. /\ d.shard \in [Shards -> ShardStates] /\ d.slot \in [Slots -> Row]
      /\ d.minted \in [Slots -> Nat]
  BY DEF Good, Database
<1>1. e \in Database
  <2>1. e.shard \in [Shards -> ShardStates]
    BY <1>0 DEF ShardStates, AbortStaged
  <2>2. \A r \in Row : NoRow \in Row /\ [r EXCEPT !.pending = 0] \in Row
    BY DEF Row, NoRow, Statuses
  <2>3. e.slot \in [Slots -> Row]
    BY <1>0, <2>2 DEF AbortStaged
  <2> QED
    BY <1>0, <2>1, <2>3 DEF Database, AbortStaged
<1>2. /\ \A h \in Shards : e.shard[h] = IF d.shard[h] = "staged" THEN "none" ELSE d.shard[h]
      /\ \A s \in Slots : e.slot[s] = IF d.shard[ShardOf(s)] = "staged" THEN NoRow
                                      ELSE [d.slot[s] EXCEPT !.pending = 0]
      /\ e.minted = d.minted
  BY DEF Good, Database, AbortStaged
<1> HIDE DEF e
<1>3. Layout(e)
  <2>1. PICK a \in Nat, n \in Nat : LayoutIs(d, a, n)
    BY DEF Good, Layout
  <2>2. LayoutIs(e, a, a)
    BY <2>1, <1>2, ParametersType DEF LayoutIs, Shards
  <2> QED
    BY <2>2 DEF Layout
<1>4. ASSUME NEW s \in Slots
      PROVE  SlotOK(e.slot[s], e.shard[ShardOf(s)], e.minted[s], g[s])
  <2>1. /\ SlotOK(d.slot[s], d.shard[ShardOf(s)], d.minted[s], g[s])
        /\ d.slot[s] \in Row /\ d.minted[s] \in Nat /\ g[s] \in SUBSET Nat
    BY DEF Good, Database
  <2>2. CASE d.shard[ShardOf(s)] = "staged"
    BY <2>1, <2>2, <1>2, ShardOfType DEF SlotOK, NoRow, Row
  <2>3. CASE d.shard[ShardOf(s)] # "staged"
    <3>1. /\ e.slot[s].pending = 0 /\ e.slot[s].secret = d.slot[s].secret
          /\ e.slot[s].status = d.slot[s].status
      BY <2>1, <2>3, <1>2 DEF Row
    <3> QED
      BY <2>1, <2>3, <3>1, <1>2, ShardOfType DEF SlotOK, Row
  <2> QED
    BY <2>2, <2>3
<1>5. ShardsIn(e, "staged") = {}
  BY <1>2 DEF ShardsIn
<1>6. PendingSlots(e) = {}
  <2>1. ASSUME NEW s \in Slots PROVE e.slot[s].pending = 0
    <3>1. CASE d.shard[ShardOf(s)] = "staged"
      <4>1. e.slot[s] = NoRow
        BY <3>1, <1>2
      <4> QED
        BY <4>1 DEF NoRow
    <3>2. CASE d.shard[ShardOf(s)] # "staged"
      <4>1. e.slot[s] = [d.slot[s] EXCEPT !.pending = 0] /\ d.slot[s] \in Row
        BY <3>2, <1>0, <1>2
      <4> QED
        BY <4>1 DEF Row
    <3> QED
      BY <3>1, <3>2
  <2> QED
    BY <2>1 DEF PendingSlots
<1> QED
  BY <1>1, <1>3, <1>4, <1>5, <1>6 DEF Good, e

(* stage_dirty gives dirty slots pending secrets that are new.             *)
LEMMA StageGood ==
  ASSUME NEW d, NEW g, Good(d, g)
  PROVE  Good(StageDirty(d), g) /\ StageDirty(d).shard = d.shard
<1> DEFINE e == StageDirty(d)
<1>0. /\ d.shard \in [Shards -> ShardStates] /\ d.slot \in [Slots -> Row]
      /\ d.minted \in [Slots -> Nat]
  BY DEF Good, Database
<1>1. e \in Database
  <2>1. \A r \in Row, m \in Nat : [r EXCEPT !.pending = m + 1] \in Row
    BY DEF Row
  <2>2. e.slot \in [Slots -> Row]
    BY <1>0, <2>1 DEF StageDirty
  <2>3. e.minted \in [Slots -> Nat]
    BY <1>0 DEF StageDirty
  <2> QED
    BY <1>0, <2>2, <2>3 DEF Database, StageDirty
<1>2. /\ e.shard = d.shard
      /\ \A s \in Slots :
           IF WantsSecret(d.slot[s])
           THEN /\ e.slot[s] = [d.slot[s] EXCEPT !.pending = d.minted[s] + 1]
                /\ e.minted[s] = d.minted[s] + 1
           ELSE e.slot[s] = d.slot[s] /\ e.minted[s] = d.minted[s]
  BY DEF Good, Database, StageDirty
<1> HIDE DEF e
<1>3. Layout(e)
  BY <1>2 DEF Good, Layout, LayoutIs
<1>4. ASSUME NEW s \in Slots
      PROVE  SlotOK(e.slot[s], e.shard[ShardOf(s)], e.minted[s], g[s])
  <2>1. /\ SlotOK(d.slot[s], d.shard[ShardOf(s)], d.minted[s], g[s])
        /\ d.slot[s] \in Row /\ d.minted[s] \in Nat /\ g[s] \in SUBSET Nat
    BY DEF Good, Database
  <2>2. CASE WantsSecret(d.slot[s])
    <3>1. e.slot[s].pending = d.minted[s] + 1 /\ e.slot[s].secret = d.slot[s].secret
          /\ e.slot[s].status = "dirty" /\ d.slot[s].status = "dirty"
          /\ e.minted[s] = d.minted[s] + 1 /\ e.shard = d.shard
      BY <2>1, <2>2, <1>2 DEF WantsSecret, Row
    <3>2. d.slot[s].secret \in Nat /\ d.slot[s].pending \in Nat
      BY <2>1 DEF Row
    <3> QED
      BY <2>1, <3>1, <3>2 DEF SlotOK
  <2>3. CASE ~WantsSecret(d.slot[s])
    BY <2>1, <2>3, <1>2
  <2> QED
    BY <2>2, <2>3
<1> QED
  BY <1>1, <1>2, <1>3, <1>4 DEF Good, e

(* The shards that create_shards adds are the first absent ones.           *)
LEMMA NewShardsAre ==
  ASSUME NEW d, NEW a \in Nat, NEW n \in Nat, LayoutIs(d, a, n), NEW k \in Int, FitsPool(d, k)
  PROVE  /\ NewShards(d, k) = n .. n + k - 1
         /\ k > 0 => n + k <= MaxShards
<1>1. Existing(d) = 0 .. n - 1
  BY ParametersType DEF Existing, LayoutIs, Shards
<1>2. NextShard(d) = n
  <2>1. CASE n = 0
    BY <1>1, <2>1 DEF NextShard
  <2>2. CASE n > 0
    <3>1. n - 1 \in Existing(d) /\ \A j \in Existing(d) : j <= n - 1
      BY <1>1, <2>2
    <3>2. \A h \in Existing(d) : (\A j \in Existing(d) : j <= h) => h = n - 1
      BY <1>1, <3>1
    <3> QED
      BY <3>1, <3>2 DEF NextShard
  <2> QED
    BY <2>1, <2>2
<1> QED
  BY <1>2 DEF NewShards, FitsPool

(* create_shards fills its shards with free slots under new secrets.       *)
LEMMA CreateGood ==
  ASSUME NEW d, NEW g, Good(d, g), NEW k \in Int, FitsPool(d, k), ShardsIn(d, "staged") = {}
  PROVE  Good(CreateShards(d, k), g) /\ NewShards(d, k) \in SUBSET Shards
<1> DEFINE e == CreateShards(d, k)
           new == NewShards(d, k)
<1>0. /\ d.shard \in [Shards -> ShardStates] /\ d.slot \in [Slots -> Row]
      /\ d.minted \in [Slots -> Nat]
  BY DEF Good, Database
<1>1. PICK a \in Nat, n \in Nat : LayoutIs(d, a, n)
  BY DEF Good, Layout
<1>2. new = n .. n + k - 1 /\ (k > 0 => n + k <= MaxShards)
  BY <1>1, NewShardsAre
<1>3. new \in SUBSET Shards
  BY <1>2, ParametersType DEF Shards
<1>4. /\ \A h \in Shards : e.shard[h] = IF h \in new THEN "staged" ELSE d.shard[h]
      /\ \A s \in Slots :
           IF ShardOf(s) \in new
           THEN /\ e.slot[s] = [status |-> "free", secret |-> d.minted[s] + 1, pending |-> 0]
                /\ e.minted[s] = d.minted[s] + 1
           ELSE e.slot[s] = d.slot[s] /\ e.minted[s] = d.minted[s]
  BY DEF CreateShards
<1>5. e \in Database
  <2>1. e.shard \in [Shards -> ShardStates]
    BY <1>0 DEF ShardStates, CreateShards
  <2>2. \A m \in Nat : [status |-> "free", secret |-> m + 1, pending |-> 0] \in Row
    BY DEF Row, Statuses
  <2>3. e.slot \in [Slots -> Row]
    BY <1>0, <2>2 DEF CreateShards
  <2>4. e.minted \in [Slots -> Nat]
    BY <1>0 DEF CreateShards
  <2> QED
    BY <2>1, <2>3, <2>4 DEF Database, CreateShards
<1> HIDE DEF e, new
<1>6. Layout(e)
  <2>1. CASE k > 0
    <3>1. \A h \in Shards : h < n => h < a
      BY <1>1 DEF LayoutIs, ShardsIn
    <3>2. LayoutIs(e, a, n + k)
      BY <1>1, <1>2, <1>4, <2>1, <3>1 DEF LayoutIs, Shards
    <3> QED
      BY <1>1, <2>1, <3>2 DEF Layout
  <2>2. CASE k <= 0
    <3>1. LayoutIs(e, a, n)
      BY <1>1, <1>2, <1>4, <2>2 DEF LayoutIs, Shards
    <3> QED
      BY <3>1 DEF Layout
  <2> QED
    BY <2>1, <2>2
<1>7. ASSUME NEW s \in Slots
      PROVE  SlotOK(e.slot[s], e.shard[ShardOf(s)], e.minted[s], g[s])
  <2>1. /\ SlotOK(d.slot[s], d.shard[ShardOf(s)], d.minted[s], g[s])
        /\ d.minted[s] \in Nat /\ g[s] \in SUBSET Nat
    BY DEF Good, Database
  <2>2. CASE ShardOf(s) \in new
    <3>1. /\ e.slot[s].status = "free" /\ e.slot[s].secret = d.minted[s] + 1
          /\ e.slot[s].pending = 0 /\ e.minted[s] = d.minted[s] + 1
          /\ e.shard[ShardOf(s)] = "staged"
      <4>1. e.slot[s] = [status |-> "free", secret |-> d.minted[s] + 1, pending |-> 0]
        BY <2>2, <1>4
      <4>2. e.minted[s] = d.minted[s] + 1 /\ e.shard[ShardOf(s)] = "staged"
        BY <2>2, <1>4, ShardOfType
      <4> QED
        BY <4>1, <4>2
    <3> QED
      BY <2>1, <3>1 DEF SlotOK
  <2>3. CASE ShardOf(s) \notin new
    BY <2>1, <2>3, <1>4, ShardOfType
  <2> QED
    BY <2>2, <2>3
<1> QED
  BY <1>3, <1>5, <1>6, <1>7 DEF Good, e, new

(* commit_staged frees dirty slots under their pending secrets.            *)
LEMMA CommitGood ==
  ASSUME NEW d, NEW g, Good(d, g)
  PROVE  Good(CommitStaged(d), g)
<1> DEFINE e == CommitStaged(d)
           renewed(s) == d.slot[s].pending # 0 /\ d.slot[s].status = "dirty"
<1>0. /\ d.shard \in [Shards -> ShardStates] /\ d.slot \in [Slots -> Row]
      /\ d.minted \in [Slots -> Nat]
  BY DEF Good, Database
<1>1. /\ \A h \in Shards : e.shard[h] = IF d.shard[h] = "staged" THEN "active" ELSE d.shard[h]
      /\ \A s \in Slots : e.slot[s] = IF renewed(s)
             THEN [status |-> "free", secret |-> d.slot[s].pending, pending |-> 0]
             ELSE d.slot[s]
      /\ e.minted = d.minted
  BY DEF CommitStaged
<1>2. e \in Database
  <2>1. e.shard \in [Shards -> ShardStates]
    BY <1>0 DEF ShardStates, CommitStaged
  <2>2. \A r \in Row : [status |-> "free", secret |-> r.pending, pending |-> 0] \in Row
    BY DEF Row, Statuses
  <2>3. e.slot \in [Slots -> Row]
    BY <1>0, <2>2 DEF CommitStaged
  <2> QED
    BY <1>0, <2>1, <2>3 DEF Database, CommitStaged
<1> HIDE DEF e
<1>3. Layout(e)
  <2>1. PICK a \in Nat, n \in Nat : LayoutIs(d, a, n)
    BY DEF Good, Layout
  <2>2. LayoutIs(e, n, n)
    BY <2>1, <1>1 DEF LayoutIs, Shards
  <2> QED
    BY <2>2 DEF Layout
<1>4. ASSUME NEW s \in Slots
      PROVE  SlotOK(e.slot[s], e.shard[ShardOf(s)], e.minted[s], g[s])
  <2>1. /\ SlotOK(d.slot[s], d.shard[ShardOf(s)], d.minted[s], g[s])
        /\ d.slot[s] \in Row /\ d.minted[s] \in Nat /\ g[s] \in SUBSET Nat
    BY DEF Good, Database
  <2>2. CASE renewed(s)
    <3>1. /\ e.slot[s].status = "free" /\ e.slot[s].secret = d.slot[s].pending
          /\ e.slot[s].pending = 0 /\ e.minted = d.minted
          /\ e.shard[ShardOf(s)] \notin {"staged"}
          /\ d.shard[ShardOf(s)] = "none" => d.slot[s].status = "none"
          /\ e.shard[ShardOf(s)] = "none" => d.shard[ShardOf(s)] = "none"
      <4>1. e.slot[s] = [status |-> "free", secret |-> d.slot[s].pending, pending |-> 0]
        BY <2>2, <1>1
      <4>2. e.slot[s].status = "free" /\ e.slot[s].secret = d.slot[s].pending
            /\ e.slot[s].pending = 0
        BY <4>1
      <4>3. /\ e.shard[ShardOf(s)] \notin {"staged"}
            /\ e.shard[ShardOf(s)] = "none" => d.shard[ShardOf(s)] = "none"
        BY <1>0, <1>1, ShardOfType DEF ShardStates
      <4> QED
        BY <2>1, <4>2, <4>3, <1>1 DEF SlotOK
    <3> QED
      BY <2>1, <2>2, <3>1 DEF SlotOK, Row
  <2>3. CASE ~renewed(s)
    <3>1. e.slot[s] = d.slot[s] /\ e.minted = d.minted
      BY <2>3, <1>1
    <3>2. /\ e.shard[ShardOf(s)] # "staged"
          /\ e.shard[ShardOf(s)] = "none" <=> d.shard[ShardOf(s)] = "none"
      BY <1>0, <1>1, ShardOfType DEF ShardStates
    <3> QED
      BY <2>1, <3>1, <3>2 DEF SlotOK, Row
  <2> QED
    BY <2>2, <2>3
<1> QED
  BY <1>2, <1>3, <1>4 DEF Good, e

(* A free slot is handed out: its secret is given away and it has no       *)
(* pending one, for only dirty slots have.                                 *)
LEMMA TakeGood ==
  ASSUME NEW d, NEW g, Good(d, g), NEW s \in Slots, CanTake(d, s)
  PROVE  Good(TakeFreeSlot(d, s), [g EXCEPT ![s] = @ \cup {d.slot[s].secret}])
<1> DEFINE e == TakeFreeSlot(d, s)
           f == [g EXCEPT ![s] = @ \cup {d.slot[s].secret}]
<1>0. /\ d \in Database /\ d.shard \in [Shards -> ShardStates] /\ d.slot \in [Slots -> Row]
      /\ d.minted \in [Slots -> Nat] /\ g \in [Slots -> SUBSET Nat]
  BY DEF Good, Database
<1>1. d.slot[s].status = "free" /\ d.shard[ShardOf(s)] = "active"
  BY DEF CanTake, IsFirst, ActiveSlots
<1>2. /\ e.shard = d.shard /\ e.minted = d.minted
      /\ e.slot = [d.slot EXCEPT ![s] = [d.slot[s] EXCEPT !.status = "assigned"]]
      /\ e \in Database
  <2>1. d.slot[s] \in Row
    BY <1>0
  <2>2. [d.slot[s] EXCEPT !.status = "assigned"] \in Row
    BY <2>1 DEF Row, Statuses
  <2>3. [d.slot EXCEPT ![s] = [d.slot[s] EXCEPT !.status = "assigned"]] \in [Slots -> Row]
    BY <1>0, <2>2
  <2> QED
    BY <1>0, <2>3 DEF Database, TakeFreeSlot
<1>3. f \in [Slots -> SUBSET Nat]
  <2>1. d.slot[s].secret \in Nat
    BY <1>0 DEF Row
  <2> QED
    BY <1>0, <2>1
<1> HIDE DEF e
<1>4. Layout(e)
  BY <1>2 DEF Good, Layout, LayoutIs
<1>5. ASSUME NEW t \in Slots
      PROVE  SlotOK(e.slot[t], e.shard[ShardOf(t)], e.minted[t], f[t])
  <2>1. SlotOK(d.slot[t], d.shard[ShardOf(t)], d.minted[t], g[t])
    BY DEF Good
  <2>2. CASE t = s
    <3>1. e.slot[s] = [d.slot[s] EXCEPT !.status = "assigned"] /\ d.slot[s] \in Row
      BY <1>0, <1>2
    <3>2. /\ e.slot[s].status = "assigned" /\ e.slot[s].secret = d.slot[s].secret
          /\ e.slot[s].pending = d.slot[s].pending
      BY <3>1 DEF Row
    <3>3. f[s] = g[s] \cup {d.slot[s].secret}
      BY <1>0
    <3> QED
      BY <1>1, <1>2, <2>1, <2>2, <3>2, <3>3 DEF SlotOK
  <2>3. CASE t # s
    BY <1>0, <1>2, <2>1, <2>3
  <2> QED
    BY <2>2, <2>3
<1> QED
  BY <1>2, <1>3, <1>4, <1>5 DEF Good, e

(* Slots given back become dirty; in a staged or absent shard no slot is   *)
(* assigned.                                                               *)
LEMMA ReleaseGood ==
  ASSUME NEW d, NEW g, NEW e, Good(d, g), NEW S \in SUBSET Assigned(d),
         e \in Database, e.shard = d.shard, e.minted = d.minted,
         \A s \in Slots : e.slot[s] = IF s \in S THEN [d.slot[s] EXCEPT !.status = "dirty"]
                                      ELSE d.slot[s]
  PROVE  Good(e, g)
<1>1. Layout(e)
  BY DEF Good, Layout, LayoutIs
<1>2. ASSUME NEW s \in Slots
      PROVE  SlotOK(e.slot[s], e.shard[ShardOf(s)], e.minted[s], g[s])
  <2>1. SlotOK(d.slot[s], d.shard[ShardOf(s)], d.minted[s], g[s]) /\ d.slot[s] \in Row
    BY DEF Good, Database
  <2>2. CASE s \in S
    <3>1. e.slot[s] = [d.slot[s] EXCEPT !.status = "dirty"] /\ d.slot[s].status = "assigned"
      BY <2>2 DEF Assigned
    <3>2. /\ e.slot[s].status = "dirty" /\ e.slot[s].secret = d.slot[s].secret
          /\ e.slot[s].pending = d.slot[s].pending
      BY <2>1, <3>1 DEF Row
    <3> QED
      BY <2>1, <3>1, <3>2 DEF SlotOK
  <2>3. CASE s \notin S
    BY <2>1, <2>3
  <2> QED
    BY <2>2, <2>3
<1> QED
  BY <1>1, <1>2 DEF Good

(* Before the first maintenance there is no shard.                         *)
LEMMA EmptyGood == Good(EmptyDatabase, [s \in Slots |-> {}])
<1> DEFINE e == EmptyDatabase
<1>1. NoRow \in Row
  BY DEF NoRow, Row, Statuses
<1>2. e \in Database
  BY <1>1 DEF EmptyDatabase, Database, ShardStates
<1>3. /\ \A h \in Shards : e.shard[h] = "none"
      /\ \A s \in Slots : e.slot[s] = NoRow /\ e.minted[s] = 0
  BY DEF EmptyDatabase
<1> HIDE DEF e
<1>4. LayoutIs(e, 0, 0)
  BY <1>3, ParametersType DEF LayoutIs, Shards
<1>5. ASSUME NEW s \in Slots
      PROVE  SlotOK(e.slot[s], e.shard[ShardOf(s)], e.minted[s], {})
  <2>1. e.slot[s].status = "none" /\ e.slot[s].secret = 0 /\ e.slot[s].pending = 0
    BY <1>3 DEF NoRow
  <2>2. e.shard[ShardOf(s)] = "none" /\ e.minted[s] = 0
    BY <1>3, ShardOfType
  <2> QED
    BY <2>1, <2>2 DEF SlotOK
<1> QED
  BY <1>2, <1>4, <1>5 DEF Good, Layout, e

-----------------------------------------------------------------------------
(* The types of what the actions compute.                                  *)

LEMMA NothingType == Nothing \in SecretMap /\ NoJob \in Job
  BY DEF Nothing, SecretMap, NoJob, Job

LEMMA PatchType ==
  ASSUME NEW f \in SecretMap, NEW H, NEW g \in SecretMap
  PROVE  Patch(f, H, g) \in SecretMap
  BY DEF Patch, SecretMap

LEMMA RenderType == ASSUME NEW d \in Database PROVE Render(d) \in SecretMap
<1>1. \A s \in Slots : d.slot[s] \in Row
  BY DEF Database
<1>2. \A s \in Slots : d.slot[s].pending \in Nat /\ d.slot[s].secret \in Nat
  BY <1>1 DEF Row
<1> QED
  BY <1>2 DEF Render, SecretMap

LEMMA StartRelayType ==
  ASSUME NEW f \in SecretMap, NEW limit PROVE StartRelay(f, limit) \in SecretMap
  BY NothingType DEF StartRelay

LEMMA EntriesType == \A f : Cardinality(Entries(f)) \in Nat
  BY SlotsFinite DEF Entries

(* What maintain() asks for is a whole number of shards.                   *)
LEMMA AutoGrowthType == \A d : AutoGrowth(d) \in Int
<1>1. \A d, status : Cardinality(ActiveSlots(d, status)) \in Nat
  BY SlotsFinite DEF ActiveSlots
<1>2. \A d : Cardinality(ShardsIn(d, "active")) \in Nat
  <2>1. IsFiniteSet(Shards)
    BY FS_Interval, ParametersType DEF Shards
  <2>2. \A d : IsFiniteSet(ShardsIn(d, "active"))
    BY <2>1, FS_Subset DEF ShardsIn
  <2> QED
    BY <2>2, FS_CardinalityType
<1>3. \A d : LowWater(d) \in Int
  <2>1. \A c \in Nat : c * ShardSize \in Int
    BY ParametersType
  <2>2. \A x \in Int : x \div 10 \in Int
    OBVIOUS
  <2> QED
    BY <1>2, <2>1, <2>2, ParametersType DEF LowWater, TheLarger
<1>4. ASSUME NEW d PROVE AutoGrowth(d) \in Int
  <2> DEFINE ready == Cardinality(ActiveSlots(d, "free")) + Cardinality(ActiveSlots(d, "dirty"))
             missing == TheLarger(0, LowWater(d) - ready)
  <2>1. ready \in Int
    BY <1>1
  <2>2. missing \in Int
    BY <1>3, <2>1 DEF TheLarger
  <2>3. \A x \in Int : (x + ShardSize - 1) \div ShardSize \in Int
    BY ParametersType
  <2> HIDE DEF missing
  <2>4. (missing + ShardSize - 1) \div ShardSize \in Int
    BY <2>2, <2>3
  <2> QED
    BY <2>4 DEF AutoGrowth, missing
<1> QED
  BY <1>4

-----------------------------------------------------------------------------
(* The transactions of the actions keep the database good.                 *)

LEMMA PrepareGood ==
  ASSUME NEW d, NEW g, Good(d, g)
  PROVE  /\ Good(Prepare(d), g)
         /\ ShardsIn(Prepare(d), "staged") = {}
<1>1. Good(AbortStaged(d), g) /\ ShardsIn(AbortStaged(d), "staged") = {}
  BY AbortGood
<1>2. Good(Prepare(d), g) /\ Prepare(d).shard = AbortStaged(d).shard
  BY <1>1, StageGood DEF Prepare
<1> QED
  BY <1>1, <1>2 DEF ShardsIn

(* What releasing a slot does to the database, field by field.             *)
LEMMA ReleaseIs ==
  ASSUME NEW d \in Database, NEW s \in Slots
  PROVE  /\ ReleaseSlot(d, s) \in Database
         /\ ReleaseSlot(d, s).shard = d.shard /\ ReleaseSlot(d, s).minted = d.minted
         /\ \A t \in Slots : ReleaseSlot(d, s).slot[t] =
              IF t = s THEN [d.slot[s] EXCEPT !.status = "dirty"] ELSE d.slot[t]
<1>1. /\ d.shard \in [Shards -> ShardStates] /\ d.slot \in [Slots -> Row]
      /\ d.minted \in [Slots -> Nat]
  BY DEF Database
<1>2. [d.slot[s] EXCEPT !.status = "dirty"] \in Row
  <2>1. d.slot[s] \in Row
    BY <1>1
  <2> QED
    BY <2>1 DEF Row, Statuses
<1>3. [d.slot EXCEPT ![s] = [d.slot[s] EXCEPT !.status = "dirty"]] \in [Slots -> Row]
  BY <1>1, <1>2
<1> QED
  BY <1>1, <1>3 DEF Database, ReleaseSlot

LEMMA AttachGood ==
  ASSUME Good(db, handed), NEW s \in Slots, Attach(s) PROVE Good(db', handed')
  BY TakeGood DEF Attach, MayHand, Hand

LEMMA RotateGood ==
  ASSUME Good(db, handed), NEW old \in Slots, NEW s \in Slots, Rotate(old, s)
  PROVE  Good(db', handed')
<1> DEFINE d == TakeFreeSlot(db, s)
<1>1. Good(d, handed')
  BY TakeGood DEF Rotate, MayHand, Hand
<1>2. old \in Assigned(d)
  <2>1. old # s
    BY DEF Rotate, MayHand, CanTake, IsFirst, ActiveSlots, Assigned
  <2>2. d.slot[old] = db.slot[old]
    BY <2>1 DEF TakeFreeSlot, Good, Database
  <2> QED
    BY <2>2 DEF Rotate, Assigned
<1>3. db' = ReleaseSlot(d, old) /\ d \in Database /\ {old} \in SUBSET Assigned(d)
  BY <1>1, <1>2 DEF Rotate, Good
<1> DEFINE e == ReleaseSlot(d, old)
<1> HIDE DEF d
<1>4. /\ e \in Database /\ e.shard = d.shard /\ e.minted = d.minted
      /\ \A t \in Slots : e.slot[t] =
           IF t = old THEN [d.slot[old] EXCEPT !.status = "dirty"] ELSE d.slot[t]
  BY <1>3, ReleaseIs
<1> HIDE DEF e
<1>5. \A t \in Slots : e.slot[t] =
        IF t \in {old} THEN [d.slot[t] EXCEPT !.status = "dirty"] ELSE d.slot[t]
  BY <1>4
<1>6. Good(e, handed')
  BY <1>1, <1>3, <1>4, <1>5, ReleaseGood
<1> QED
  BY <1>3, <1>6 DEF e

LEMMA DetachGood ==
  ASSUME Good(db, handed), NEW S \in SUBSET Assigned(db), Detach(S)
  PROVE  Good(db', handed')
<1>1. db \in Database /\ handed' = handed
  BY DEF Good, Detach
<1>2. \A s \in S : s \in Slots
  BY DEF Assigned
<1>3. \A s \in Slots : s \in S =>
         ReleaseSlot(db, s).slot[s] = [db.slot[s] EXCEPT !.status = "dirty"]
  BY <1>1, ReleaseIs
<1> DEFINE rows == [s \in Slots |-> IF s \in S THEN ReleaseSlot(db, s).slot[s] ELSE db.slot[s]]
<1>4. rows \in [Slots -> Row]
  <2>1. \A s \in Slots : ReleaseSlot(db, s).slot[s] \in Row /\ db.slot[s] \in Row
    BY <1>1, ReleaseIs DEF Database
  <2> QED
    BY <2>1
<1>5. db' = [db EXCEPT !.slot = rows]
  BY DEF Detach
<1>6. \A s \in Slots : rows[s] = IF s \in S THEN [db.slot[s] EXCEPT !.status = "dirty"]
                                 ELSE db.slot[s]
  BY <1>3
<1> HIDE DEF rows
<1>7. /\ db' \in Database /\ db'.shard = db.shard /\ db'.minted = db.minted
      /\ db'.slot = rows
  BY <1>1, <1>4, <1>5 DEF Database
<1> QED
  BY <1>1, <1>6, <1>7, ReleaseGood

LEMMA MaintainGood ==
  ASSUME Good(db, handed), NEW n \in Int, Maintain(n)
  PROVE  Good(db', handed') /\ NewShards(Prepare(db), n) \in SUBSET Shards
  BY PrepareGood, CreateGood DEF Maintain

(* Every step keeps the database good; most do not touch it.               *)
LEMMA GoodStep == Good(db, handed) /\ [Next]_vars => Good(db', handed')
<1> SUFFICES ASSUME Good(db, handed), [Next]_vars PROVE Good(db', handed')
  OBVIOUS
<1>1. CASE Subscriber
  BY <1>1, AttachGood, RotateGood, DetachGood DEF Subscriber
<1>2. CASE AutoMaintain \/ ForcedMaintain
  <2>1. \E n \in Int : Maintain(n)
    BY <1>2, AutoGrowthType, BoundConstants DEF AutoMaintain, ForcedMaintain
  <2> QED
    BY <2>1, MaintainGood
<1>3. CASE Refused \/ UNCHANGED vars
  BY <1>3 DEF Refused, vars
<1>4. CASE Forward
  <2>1. CASE RenderAndCheck
    BY <2>1, AbortGood DEF RenderAndCheck
  <2>2. CASE CommitJob
    BY <2>2, CommitGood DEF CommitJob
  <2>3. CASE WriteProfiles \/ WriteConfig \/ WriteEnvs \/ SyncFirewall \/ EnableShards
             \/ RestartShards \/ RestartRelay \/ WaitHealthy
    BY <2>3 DEF WriteProfiles, WriteConfig, WriteEnvs, SyncFirewall, EnableShards,
                RestartShards, RestartRelay, WaitHealthy
  <2> QED
    BY <1>4, <2>1, <2>2, <2>3 DEF Forward
<1>5. CASE Rollback
  <2>1. CASE AbortJob
    BY <2>1, AbortGood DEF AbortJob
  <2>2. CASE RestoreProfiles \/ RestoreConfig \/ RestoreEnvs \/ StopNewShards
             \/ RestartOldShards \/ RestartOldRelay
    BY <2>2 DEF RestoreProfiles, RestoreConfig, RestoreEnvs, StopNewShards,
                RestartOldShards, RestartOldRelay
  <2> QED
    BY <1>5, <2>1, <2>2 DEF Rollback
<1>6. CASE Environment
  BY <1>6 DEF Environment, MaintainerDies, RelayDies, ShardDies, RelayRespawns,
              ShardRespawns, Reboot
<1> QED
  BY <1>1, <1>2, <1>3, <1>4, <1>5, <1>6 DEF Next, ApplyStep

-----------------------------------------------------------------------------
(* Type correctness, one action after the other.  db and handed are typed  *)
(* by Good.                                                                *)

LEMMA ForwardType == TypeOK /\ LoopOK /\ Good(db', handed') /\ Forward => TypeOK' /\ LoopOK'
<1> SUFFICES ASSUME TypeOK, LoopOK, Good(db', handed'), Forward PROVE TypeOK' /\ LoopOK'
  OBVIOUS
<1> USE NothingType DEF TypeOK, LoopOK
<1>0. /\ db' \in Database /\ handed' \in [Slots -> SUBSET Nat]
      /\ \A h \in Units : left \ {h} \in SUBSET Units
      /\ Shards \subseteq Units /\ job.shards \in SUBSET Shards /\ job.new \in SUBSET Shards
      /\ job.want \in SecretMap /\ job.limit \in Nat
      /\ job.prevProfiles \in SecretMap /\ job.prevEnv \in SecretMap
  BY DEF Good, Job, Units
<1>1. CASE RenderAndCheck
  <2>1. Wanted \in Job
    <3>1. Render(db) \in SecretMap
      BY RenderType
    <3>2. TheLarger(BaseProfiles, Cardinality(Entries(Render(db)))) \in Nat
      BY EntriesType, BoundConstants DEF TheLarger
    <3> QED
      BY <3>1, <3>2 DEF Wanted, Job
  <2> QED
    BY <1>0, <1>1, <2>1 DEF RenderAndCheck, GoTo, MayFail, Quit, counters, files, units,
                            Steps, ForwardSteps
<1>2. CASE WriteProfiles
  BY <1>0, <1>2 DEF WriteProfiles, GoTo, Fail, FailTo, MayFail, counters, units,
                    Steps, ForwardSteps, RollbackSteps
<1>3. CASE WriteConfig
  BY <1>0, <1>3 DEF WriteConfig, GoTo, Fail, FailTo, MayFail, counters, units,
                    Steps, ForwardSteps, RollbackSteps
<1>4. CASE WriteEnvs
  <2>1. env' \in SecretMap
    <3>1. \A h : Patch(env, {h}, job.want) \in SecretMap
      BY <1>0, PatchType
    <3> QED
      BY <1>4, <3>1 DEF WriteEnvs
  <2>2. CASE Fail
    BY <1>0, <1>4, <2>1, <2>2 DEF WriteEnvs, GoTo, Fail, FailTo, MayFail, counters, units,
                                  Steps, RollbackSteps
  <2>3. CASE LoopTo("sync", {})
    BY <1>0, <1>4, <2>1, <2>3 DEF WriteEnvs, LoopTo, GoTo, counters, units,
                                  Steps, ForwardSteps
  <2>4. CASE \E h \in left : Visited(h)
    BY <1>0, <1>4, <2>1, <2>4 DEF WriteEnvs, Visited, counters, units
  <2> QED
    BY <1>4, <2>2, <2>3, <2>4 DEF WriteEnvs
<1>5. CASE SyncFirewall
  BY <1>0, <1>5 DEF SyncFirewall, LoopTo, GoTo, Fail, FailTo, MayFail, counters, files,
                    units, Steps, ForwardSteps, RollbackSteps
<1>6. CASE EnableShards
  <2>1. enabled' \in SUBSET Shards
    BY <1>6 DEF EnableShards
  <2> QED
    BY <1>0, <1>6, <2>1 DEF EnableShards, Visited, LoopTo, GoTo, Fail, FailTo, MayFail,
                      counters, files, Steps, ForwardSteps, RollbackSteps
<1>7. CASE RestartShards
  <2>1. \A h : Restarted(h) \in SecretMap /\ Down(h) \in SecretMap
    BY PatchType DEF Restarted, Down
  <2> QED
    BY <1>0, <1>7, <2>1 DEF RestartShards, Visited, LoopTo, GoTo, Fail, FailTo, MayFail,
                            counters, files, Steps, ForwardSteps, RollbackSteps
<1>8. CASE RestartRelay
  <2>1. StartRelay(profiles, relayLimit) \in SecretMap
    BY StartRelayType
  <2> QED
    BY <1>0, <1>8, <2>1 DEF RestartRelay, GoTo, Fail, FailTo, MayFail, counters, files,
                            Units, Steps, ForwardSteps, RollbackSteps
<1>9. CASE WaitHealthy
  BY <1>0, <1>9 DEF WaitHealthy, LoopTo, GoTo, Fail, FailTo, MayFail, counters, files,
                    units, Steps, ForwardSteps, RollbackSteps
<1>10. CASE CommitJob
  BY <1>0, <1>10 DEF CommitJob, GoTo, MayFail, Quit, counters, files, units, Steps
<1> QED
  BY <1>1, <1>2, <1>3, <1>4, <1>5, <1>6, <1>7, <1>8, <1>9, <1>10 DEF Forward

LEMMA RollbackType == TypeOK /\ LoopOK /\ Good(db', handed') /\ Rollback => TypeOK' /\ LoopOK'
<1> SUFFICES ASSUME TypeOK, LoopOK, Good(db', handed'), Rollback PROVE TypeOK' /\ LoopOK'
  OBVIOUS
<1> USE NothingType DEF TypeOK, LoopOK
<1>0. /\ db' \in Database /\ handed' \in [Slots -> SUBSET Nat]
      /\ Shards \subseteq Units /\ job.shards \in SUBSET Shards /\ job.new \in SUBSET Shards
      /\ job.prevProfiles \in SecretMap /\ job.prevLimit \in Nat /\ job.prevEnv \in SecretMap
  BY DEF Good, Job, Units
<1>1. CASE RestoreProfiles
  BY <1>0, <1>1 DEF RestoreProfiles, GoTo, FailTo, MayFail, counters, units,
                    Steps, RollbackSteps
<1>2. CASE RestoreConfig
  BY <1>0, <1>2 DEF RestoreConfig, GoTo, FailTo, MayFail, counters, units,
                    Steps, RollbackSteps
<1>3. CASE RestoreEnvs
  <2>1. env' \in SecretMap
    <3>1. \A h : Patch(env, {h}, job.prevEnv) \in SecretMap
      BY <1>0, PatchType
    <3> QED
      BY <1>3, <3>1 DEF RestoreEnvs
  <2>2. CASE FailTo("r_stop", job.new)
    BY <1>0, <1>3, <2>1, <2>2 DEF RestoreEnvs, GoTo, FailTo, MayFail, counters, units,
                                  Steps, RollbackSteps
  <2>3. CASE LoopTo("r_stop", job.new)
    BY <1>0, <1>3, <2>1, <2>3 DEF RestoreEnvs, LoopTo, GoTo, counters, units,
                                  Steps, RollbackSteps
  <2>4. CASE \E h \in left : Visited(h)
    BY <1>0, <1>3, <2>1, <2>4 DEF RestoreEnvs, Visited, counters, units
  <2> QED
    BY <1>3, <2>2, <2>3, <2>4 DEF RestoreEnvs
<1>4. CASE StopNewShards
  <2>1. proc' \in SecretMap /\ enabled' \in SUBSET Shards
    <3>1. \A h : Down(h) \in SecretMap
      BY PatchType DEF Down
    <3> QED
      BY <1>4, <3>1 DEF StopNewShards
  <2>2. CASE LoopTo("r_abort", {})
    BY <1>0, <1>4, <2>1, <2>2 DEF StopNewShards, LoopTo, GoTo, counters, files,
                                  Steps, RollbackSteps
  <2>3. CASE \E h \in left : Visited(h)
    BY <1>0, <1>4, <2>1, <2>3 DEF StopNewShards, Visited, counters, files
  <2>4. CASE MayFail /\ UNCHANGED <<pc, job>> /\ left' \in SUBSET left
    BY <1>0, <1>4, <2>1, <2>4 DEF StopNewShards, MayFail, files
  <2> QED
    BY <1>4, <2>2, <2>3, <2>4 DEF StopNewShards
<1>5. CASE AbortJob
  BY <1>0, <1>5 DEF AbortJob, Old, GoTo, MayFail, Quit, counters, files, units,
                    Steps, RollbackSteps
<1>6. CASE RestartOldShards
  <2>1. \A h : Restarted(h) \in SecretMap /\ Down(h) \in SecretMap
    BY PatchType DEF Restarted, Down
  <2> QED
    BY <1>0, <1>6, <2>1 DEF RestartOldShards, Visited, LoopTo, GoTo, MayFail, Quit,
                            counters, files, Steps, RollbackSteps
<1>7. CASE RestartOldRelay
  <2>1. StartRelay(profiles, relayLimit) \in SecretMap
    BY StartRelayType
  <2> QED
    BY <1>0, <1>7, <2>1 DEF RestartOldRelay, GoTo, MayFail, Quit, counters, files, Steps
<1> QED
  BY <1>1, <1>2, <1>3, <1>4, <1>5, <1>6, <1>7 DEF Rollback

LEMMA EnvironmentType ==
  TypeOK /\ LoopOK /\ Good(db', handed') /\ Environment => TypeOK' /\ LoopOK'
<1> SUFFICES ASSUME TypeOK, LoopOK, Good(db', handed'), Environment PROVE TypeOK' /\ LoopOK'
  OBVIOUS
<1> USE NothingType DEF TypeOK, LoopOK
<1>0. db' \in Database /\ handed' \in [Slots -> SUBSET Nat]
  BY DEF Good
<1>1. \A h : Restarted(h) \in SecretMap /\ Down(h) \in SecretMap
  BY PatchType DEF Restarted, Down
<1>2. StartRelay(profiles, relayLimit) \in SecretMap
  BY StartRelayType
<1>3. Patch(Nothing, enabled, env) \in SecretMap
  BY PatchType
<1>4. CASE MaintainerDies
  BY <1>0, <1>4 DEF MaintainerDies, Crash, Quit, GoTo, files, units, Steps
<1>5. CASE RelayDies
  BY <1>0, <1>5 DEF RelayDies, Crash, files, maintainer
<1>6. CASE ShardDies
  BY <1>0, <1>1, <1>6 DEF ShardDies, Crash, files, maintainer
<1>7. CASE RelayRespawns
  BY <1>0, <1>2, <1>7 DEF RelayRespawns, files, maintainer, counters
<1>8. CASE ShardRespawns
  BY <1>0, <1>1, <1>8 DEF ShardRespawns, files, maintainer, counters
<1>9. CASE Reboot
  BY <1>0, <1>2, <1>3, <1>9 DEF Reboot, Crash, Quit, GoTo, files, Steps
<1> QED
  BY <1>4, <1>5, <1>6, <1>7, <1>8, <1>9 DEF Environment

LEMMA MaintainType ==
  ASSUME TypeOK, LoopOK, Good(db, handed), Good(db', handed'), NEW n \in Int, Maintain(n)
  PROVE  TypeOK' /\ LoopOK'
<1> DEFINE d == Prepare(db)
           new == NewShards(d, n)
           both == DirtyShards(d) \cup new
<1>1. new \in SUBSET Shards /\ both \in SUBSET Shards
  BY MaintainGood DEF DirtyShards
<1> HIDE DEF new, both
<1>2. [NoJob EXCEPT !.shards = both, !.new = new] \in Job
  BY <1>1, NothingType DEF Job
<1>3. job' \in Job /\ pc' \in Steps /\ left' \in SUBSET Units /\ LoopOK'
  <2>1. CASE both = {}
    <3>1. UNCHANGED maintainer
      BY <2>1 DEF Maintain, both, new
    <3> QED
      BY <3>1 DEF maintainer, TypeOK, LoopOK
  <2>2. CASE both # {}
    <3>1. pc' = "render" /\ job' = [NoJob EXCEPT !.shards = both, !.new = new] /\ left' = {}
      BY <2>2 DEF Maintain, both, new
    <3> QED
      BY <1>2, <3>1 DEF Steps, LoopOK
  <2> QED
    BY <2>1, <2>2
<1>4. UNCHANGED <<files, units, counters>>
  BY DEF Maintain
<1> QED
  BY <1>3, <1>4 DEF TypeOK, Good, files, units, counters

LEMMA TypeStep == IInv /\ [Next]_vars => TypeOK' /\ LoopOK'
<1> SUFFICES ASSUME TypeOK, LoopOK, Good(db, handed), [Next]_vars PROVE TypeOK' /\ LoopOK'
  BY DEF IInv
<1>0. Good(db', handed')
  BY GoodStep
<1>1. CASE Subscriber
  BY <1>0, <1>1 DEF Subscriber, Attach, Rotate, Detach, files, units, maintainer, counters,
                    TypeOK, LoopOK, Good
<1>2. CASE AutoMaintain \/ ForcedMaintain
  <2>1. \E n \in Int : Maintain(n)
    BY <1>2, AutoGrowthType, BoundConstants DEF AutoMaintain, ForcedMaintain
  <2> QED
    BY <1>0, <2>1, MaintainType
<1>3. CASE Refused \/ UNCHANGED vars
  BY <1>3 DEF Refused, vars, TypeOK, LoopOK
<1>4. CASE ApplyStep
  BY <1>0, <1>4, ForwardType, RollbackType DEF ApplyStep
<1>5. CASE Environment
  BY <1>0, <1>5, EnvironmentType
<1> QED
  BY <1>1, <1>2, <1>3, <1>4, <1>5 DEF Next

-----------------------------------------------------------------------------
(* The theorems.                                                           *)

LEMMA Initially == Init => IInv
<1> SUFFICES ASSUME Init PROVE IInv
  OBVIOUS
<1>1. Good(db, handed)
  BY EmptyGood DEF Init
<1>2. TypeOK /\ LoopOK
  BY <1>1, NothingType DEF Init, Good, TypeOK, LoopOK, Steps
<1> QED
  BY <1>1, <1>2 DEF IInv

(* What the rows, the shard table, the secrets made and the secrets given  *)
(* away have to do with each other, always: the invariant of maintain(),   *)
(* of the users' transactions and of every failure between them.           *)
THEOREM InvariantHolds == Spec => []IInv
<1>1. IInv /\ [Next]_vars => IInv'
  BY GoodStep, TypeStep DEF IInv
<1> QED
  BY Initially, <1>1, PTL DEF Spec

(* Every variable stays in its type, in a pool of any size.                *)
THEOREM TypeCorrect == Spec => []TypeOK
<1>1. IInv => TypeOK
  BY DEF IInv
<1> QED
  BY <1>1, InvariantHolds, PTL

(* No failure, crash or interleaving of maintain() and the users lets a    *)
(* slot be handed out under a secret that somebody was given before.       *)
THEOREM FreeSlotsStayClean == Spec => []FreeSlotsAreClean
<1>1. IInv => FreeSlotsAreClean
  BY DEF IInv, Good, SlotOK, FreeSlotsAreClean
<1> QED
  BY <1>1, InvariantHolds, PTL

(* create_shards and abort_staged keep the shards without a gap and those  *)
(* being built above all others.                                           *)
THEOREM StagedStaysOnTop == Spec => []StagedOnTop
<1>1. ASSUME IInv PROVE StagedOnTop
  <2>1. PICK a \in Nat, n \in Nat : LayoutIs(db, a, n)
    BY <1>1 DEF IInv, Good, Layout
  <2>2. /\ \A h \in Shards : h \in Existing(db) <=> h < n
        /\ \A h \in ShardsIn(db, "active") : h < a
        /\ \A h \in ShardsIn(db, "staged") : ~(h < a)
    BY <2>1 DEF LayoutIs, Existing, ShardsIn, Shards
  <2> QED
    BY <2>1, <2>2, ParametersType DEF StagedOnTop, Shards, Existing, ShardsIn
<1> QED
  BY <1>1, InvariantHolds, PTL
=============================================================================
