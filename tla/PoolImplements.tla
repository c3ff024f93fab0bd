--------------------------- MODULE PoolImplements ---------------------------
(***************************************************************************)
(* Pool implements SlotLifecycle for every size of the pool and every      *)
(* number of failures and crashes: whatever maintain() stages, aborts or   *)
(* leaves behind, those who take and give back slots see slots that are    *)
(* given, returned and cleaned, and nothing else.                          *)
(***************************************************************************)
EXTENDS PoolProofs

(* What a user of the pool sees of one slot.                               *)
LEMMA VisibleIs ==
  ASSUME NEW d, NEW s \in Slots
  PROVE  /\ d.shard[ShardOf(s)] = "active" =>
              Visible(d)[s] = [status |-> d.slot[s].status, secret |-> d.slot[s].secret]
         /\ d.shard[ShardOf(s)] # "active" =>
              Visible(d)[s] = [status |-> "absent", secret |-> 0]
  BY DEF Visible

(* A change that leaves the active shards, and the status and secret of    *)
(* their slots, as they are is not seen.                                   *)
LEMMA NotSeen ==
  ASSUME NEW d, NEW e,
         \A s \in Slots :
           /\ e.shard[ShardOf(s)] = "active" <=> d.shard[ShardOf(s)] = "active"
           /\ d.shard[ShardOf(s)] = "active" =>
                e.slot[s].status = d.slot[s].status /\ e.slot[s].secret = d.slot[s].secret
  PROVE  Visible(e) = Visible(d)
  BY DEF Visible

LEMMA AbortNotSeen == ASSUME NEW d, NEW g, Good(d, g) PROVE Visible(AbortStaged(d)) = Visible(d)
<1> DEFINE e == AbortStaged(d)
<1>1. ASSUME NEW s \in Slots
      PROVE  /\ e.shard[ShardOf(s)] = "active" <=> d.shard[ShardOf(s)] = "active"
             /\ d.shard[ShardOf(s)] = "active" =>
                  e.slot[s].status = d.slot[s].status /\ e.slot[s].secret = d.slot[s].secret
  <2>1. e.shard[ShardOf(s)] = IF d.shard[ShardOf(s)] = "staged" THEN "none"
                              ELSE d.shard[ShardOf(s)]
    BY ShardOfType DEF AbortStaged
  <2>2. d.shard[ShardOf(s)] # "staged" => e.slot[s] = [d.slot[s] EXCEPT !.pending = 0]
    BY DEF AbortStaged
  <2>3. d.slot[s] \in Row
    BY DEF Good, Database
  <2> HIDE DEF e
  <2>4. d.shard[ShardOf(s)] # "staged" =>
          e.slot[s].status = d.slot[s].status /\ e.slot[s].secret = d.slot[s].secret
    BY <2>2, <2>3 DEF Row
  <2> QED
    BY <2>1, <2>4
<1> QED
  BY <1>1, NotSeen

LEMMA StageNotSeen == ASSUME NEW d, NEW g, Good(d, g) PROVE Visible(StageDirty(d)) = Visible(d)
<1> DEFINE e == StageDirty(d)
<1>1. ASSUME NEW s \in Slots
      PROVE  e.slot[s].status = d.slot[s].status /\ e.slot[s].secret = d.slot[s].secret
  <2>1. \/ e.slot[s] = [d.slot[s] EXCEPT !.pending = d.minted[s] + 1]
        \/ e.slot[s] = d.slot[s]
    BY DEF StageDirty
  <2>2. d.slot[s] \in Row
    BY DEF Good, Database
  <2> QED
    BY <2>1, <2>2 DEF Row
<1>2. e.shard = d.shard
  BY StageGood
<1> HIDE DEF e
<1>3. Visible(e) = Visible(d)
  BY <1>1, <1>2, NotSeen
<1> QED
  BY <1>3 DEF e

LEMMA CreateNotSeen ==
  ASSUME NEW d, NEW g, Good(d, g), NEW k \in Int, FitsPool(d, k)
  PROVE  Visible(CreateShards(d, k)) = Visible(d)
<1> DEFINE e == CreateShards(d, k)
<1>1. PICK a \in Nat, n \in Nat : LayoutIs(d, a, n)
  BY DEF Good, Layout
<1>2. \A h \in Shards : h \in NewShards(d, k) => d.shard[h] = "none"
  BY <1>1, NewShardsAre DEF LayoutIs, Shards
<1>3. ASSUME NEW s \in Slots
      PROVE  /\ e.shard[ShardOf(s)] = IF ShardOf(s) \in NewShards(d, k) THEN "staged"
                                      ELSE d.shard[ShardOf(s)]
             /\ ShardOf(s) \notin NewShards(d, k) => e.slot[s] = d.slot[s]
  BY ShardOfType DEF CreateShards
<1> HIDE DEF e
<1>4. ASSUME NEW s \in Slots
      PROVE  /\ e.shard[ShardOf(s)] = "active" <=> d.shard[ShardOf(s)] = "active"
             /\ d.shard[ShardOf(s)] = "active" => e.slot[s] = d.slot[s]
  BY <1>2, <1>3, ShardOfType
<1>5. Visible(e) = Visible(d)
  BY <1>4, NotSeen
<1> QED
  BY <1>5 DEF e

-----------------------------------------------------------------------------
(* The commit is seen as a Refresh: of the staged shards, which were       *)
(* absent, and of the dirty slots that had a pending secret.               *)

LEMMA CommitRefreshes ==
  ASSUME NEW d, NEW g, Good(d, g), NEW s \in Slots
  PROVE  LET e == CommitStaged(d) IN
         \/ Visible(e)[s] = Visible(d)[s]
         \/ /\ Visible(d)[s].status \in {"absent", "dirty"}
            /\ Visible(e)[s].status = "free"
            /\ Visible(e)[s].secret # Visible(d)[s].secret /\ Visible(e)[s].secret \notin g[s]
<1> DEFINE e == CommitStaged(d)
           renewed == d.slot[s].pending # 0 /\ d.slot[s].status = "dirty"
<1>1. SlotOK(d.slot[s], d.shard[ShardOf(s)], d.minted[s], g[s]) /\ d.slot[s] \in Row
  BY DEF Good, Database
<1>2. e.shard[ShardOf(s)] = IF d.shard[ShardOf(s)] = "staged" THEN "active"
                            ELSE d.shard[ShardOf(s)]
  BY ShardOfType DEF CommitStaged
<1>3. /\ renewed => e.slot[s] = [status |-> "free", secret |-> d.slot[s].pending, pending |-> 0]
      /\ ~renewed => e.slot[s] = d.slot[s]
  BY DEF CommitStaged
<1> HIDE DEF e
<1> SUFFICES \/ Visible(e)[s] = Visible(d)[s]
             \/ /\ Visible(d)[s].status \in {"absent", "dirty"}
                /\ Visible(e)[s].status = "free"
                /\ Visible(e)[s].secret # Visible(d)[s].secret
                /\ Visible(e)[s].secret \notin g[s]
  BY DEF e
<1>4. CASE d.shard[ShardOf(s)] = "staged"
  <2>1. ~renewed /\ d.slot[s].status = "free"
    BY <1>1, <1>4 DEF SlotOK
  <2>2. /\ Visible(e)[s] = [status |-> "free", secret |-> d.slot[s].secret]
        /\ Visible(d)[s] = [status |-> "absent", secret |-> 0]
    BY <1>2, <1>3, <1>4, <2>1, VisibleIs
  <2> QED
    BY <1>1, <2>1, <2>2 DEF SlotOK, Row
<1>5. CASE d.shard[ShardOf(s)] = "active" /\ renewed
  <2>1. e.slot[s].status = "free" /\ e.slot[s].secret = d.slot[s].pending
    BY <1>3, <1>5
  <2>2. /\ Visible(e)[s] = [status |-> "free", secret |-> d.slot[s].pending]
        /\ Visible(d)[s] = [status |-> "dirty", secret |-> d.slot[s].secret]
    BY <1>2, <1>5, <2>1, VisibleIs
  <2> QED
    BY <1>1, <1>5, <2>2 DEF SlotOK
<1>6. CASE d.shard[ShardOf(s)] = "active" /\ ~renewed
  <2>1. e.slot[s] = d.slot[s] /\ e.shard[ShardOf(s)] = "active"
    BY <1>2, <1>3, <1>6
  <2>2. /\ Visible(e)[s] = [status |-> e.slot[s].status, secret |-> e.slot[s].secret]
        /\ Visible(d)[s] = [status |-> d.slot[s].status, secret |-> d.slot[s].secret]
    BY <1>6, <2>1, VisibleIs
  <2> QED
    BY <2>1, <2>2
<1>7. CASE d.shard[ShardOf(s)] \notin {"staged", "active"}
  BY <1>2, <1>7, VisibleIs
<1> QED
  BY <1>4, <1>5, <1>6, <1>7

-----------------------------------------------------------------------------
(* Slots that change hands.                                                *)

(* The visible slots after those of S are given back and those of T taken. *)
Exchanged(d, S, T) ==
    [s \in Slots |-> IF s \in S THEN [Visible(d)[s] EXCEPT !.status = "dirty"]
                     ELSE IF s \in T THEN [Visible(d)[s] EXCEPT !.status = "assigned"]
                     ELSE Visible(d)[s]]

LEMMA ExchangedIsChanged == \A S, T : Exchanged(db, S, T) = Life!Changed(S, T)
  BY DEF Exchanged, Life!Changed

(* Taken and returned slots are slots of active shards, and nothing but    *)
(* their status changes.                                                   *)
LEMMA ChangedVisible ==
  ASSUME NEW d, NEW e, NEW S \in SUBSET Slots, NEW T \in SUBSET Slots,
         d \in Database, e.shard = d.shard,
         \A s \in S \cup T : d.shard[ShardOf(s)] = "active",
         \A s \in Slots :
           /\ e.slot[s].secret = d.slot[s].secret
           /\ e.slot[s].status = IF s \in S THEN "dirty"
                                 ELSE IF s \in T THEN "assigned" ELSE d.slot[s].status
  PROVE  Visible(e) = Exchanged(d, S, T)
<1> DEFINE f == Exchanged(d, S, T)
<1>0. \A s \in Slots : f[s] =
        IF s \in S THEN [Visible(d)[s] EXCEPT !.status = "dirty"]
        ELSE IF s \in T THEN [Visible(d)[s] EXCEPT !.status = "assigned"]
        ELSE Visible(d)[s]
  BY DEF Exchanged
<1> HIDE DEF f
<1>1. ASSUME NEW s \in Slots PROVE Visible(e)[s] = f[s]
  <2>1. CASE s \in S \cup T
    <3>1. /\ Visible(d)[s] = [status |-> d.slot[s].status, secret |-> d.slot[s].secret]
          /\ Visible(e)[s] = [status |-> e.slot[s].status, secret |-> e.slot[s].secret]
      BY <2>1, VisibleIs
    <3> QED
      <4>1. CASE s \in S
        <5>1. f[s] = [Visible(d)[s] EXCEPT !.status = "dirty"] /\ e.slot[s].status = "dirty"
          BY <1>0, <4>1
        <5>2. e.slot[s].secret = d.slot[s].secret
          OBVIOUS
        <5> QED
          BY <3>1, <5>1, <5>2
      <4>2. CASE s \notin S
        <5>1. /\ f[s] = [Visible(d)[s] EXCEPT !.status = "assigned"]
              /\ e.slot[s].status = "assigned"
          BY <1>0, <2>1, <4>2
        <5>2. e.slot[s].secret = d.slot[s].secret
          OBVIOUS
        <5> QED
          BY <3>1, <5>1, <5>2
      <4> QED
        BY <4>1, <4>2
  <2>2. CASE s \notin S \cup T
    <3>1. f[s] = Visible(d)[s]
      BY <1>0, <2>2
    <3>2. e.slot[s].secret = d.slot[s].secret /\ e.slot[s].status = d.slot[s].status
      BY <2>2
    <3>3. Visible(e)[s] = Visible(d)[s]
      BY <3>2 DEF Visible
    <3> QED
      BY <3>1, <3>3
  <2> QED
    BY <2>1, <2>2
<1>2. Visible(e) = [s \in Slots |-> Visible(e)[s]]
  BY DEF Visible
<1>3. f = [s \in Slots |-> f[s]]
  BY DEF f, Exchanged
<1>4. Visible(e) = f
  BY <1>1, <1>2, <1>3
<1> QED
  BY <1>4 DEF f

(* A slot in use belongs to an active shard.                               *)
LEMMA AssignedActive ==
  ASSUME NEW d, NEW g, Good(d, g), NEW s \in Assigned(d)
  PROVE  s \in Slots /\ d.shard[ShardOf(s)] = "active"
<1>1. s \in Slots /\ d.slot[s].status = "assigned"
  BY DEF Assigned
<1>2. d.shard[ShardOf(s)] \in ShardStates /\ SlotOK(d.slot[s], d.shard[ShardOf(s)], d.minted[s], g[s])
  BY <1>1, ShardOfType DEF Good, Database
<1> QED
  BY <1>1, <1>2 DEF SlotOK, ShardStates

LEMMA TakeIs ==
  ASSUME NEW d \in Database, NEW s \in Slots
  PROVE  /\ TakeFreeSlot(d, s).shard = d.shard
         /\ \A t \in Slots :
              /\ TakeFreeSlot(d, s).slot[t].secret = d.slot[t].secret
              /\ TakeFreeSlot(d, s).slot[t].status =
                   IF t = s THEN "assigned" ELSE d.slot[t].status
<1> DEFINE e == TakeFreeSlot(d, s)
<1>1. d.slot \in [Slots -> Row] /\ d \in Database
  BY DEF Database
<1>2. e.shard = d.shard /\ e.slot = [d.slot EXCEPT ![s] = [d.slot[s] EXCEPT !.status = "assigned"]]
  BY DEF Database, TakeFreeSlot
<1> HIDE DEF e
<1>3. \A t \in Slots : e.slot[t] = IF t = s THEN [d.slot[s] EXCEPT !.status = "assigned"]
                                   ELSE d.slot[t]
  BY <1>1, <1>2
<1>4. e.slot[s].secret = d.slot[s].secret /\ e.slot[s].status = "assigned"
  <2>1. e.slot[s] = [d.slot[s] EXCEPT !.status = "assigned"] /\ d.slot[s] \in Row
    BY <1>1, <1>3
  <2> QED
    BY <2>1 DEF Row
<1> QED
  BY <1>2, <1>3, <1>4 DEF e

LEMMA AttachGives ==
  ASSUME Good(db, handed), NEW s \in Slots, Attach(s) PROVE Life!Give(s, {})
<1> DEFINE d == TakeFreeSlot(db, s)
<1>1. /\ db' = d /\ handed' = [handed EXCEPT ![s] = @ \cup {db.slot[s].secret}]
      /\ db.slot[s].status = "free" /\ db.shard[ShardOf(s)] = "active"
      /\ db \in Database /\ db.slot[s].secret \notin handed[s]
  BY DEF Attach, MayHand, Hand, CanTake, IsFirst, ActiveSlots, Good, SlotOK
<1>2. Visible(db)[s] = [status |-> "free", secret |-> db.slot[s].secret]
  BY <1>1, VisibleIs
<1>3. d.shard = db.shard /\ \A t \in Slots :
        /\ d.slot[t].secret = db.slot[t].secret
        /\ d.slot[t].status = IF t \in {s} THEN "assigned" ELSE db.slot[t].status
  BY <1>1, TakeIs
<1> HIDE DEF d
<1>4. Visible(d) = Life!Changed({}, {s})
  <2>1. /\ \A t \in {} \cup {s} : db.shard[ShardOf(t)] = "active"
        /\ \A t \in Slots :
             /\ d.slot[t].secret = db.slot[t].secret
             /\ d.slot[t].status = IF t \in {} THEN "dirty"
                                   ELSE IF t \in {s} THEN "assigned" ELSE db.slot[t].status
    BY <1>1, <1>3
  <2>2. {} \in SUBSET Slots /\ {s} \in SUBSET Slots /\ db \in Database /\ d.shard = db.shard
    BY <1>1, <1>3
  <2>3. Visible(d) = Exchanged(db, {}, {s})
    BY ONLY <2>1, <2>2, ChangedVisible
  <2> QED
    BY <2>3, ExchangedIsChanged
<1> QED
  BY <1>1, <1>2, <1>4 DEF Life!Give

LEMMA RotateGives ==
  ASSUME Good(db, handed), NEW old \in Slots, NEW s \in Slots, Rotate(old, s)
  PROVE  old # s /\ Life!Give(s, {old})
<1> DEFINE d == TakeFreeSlot(db, s)
           e == ReleaseSlot(d, old)
<1>1. /\ db' = e /\ handed' = [handed EXCEPT ![s] = @ \cup {db.slot[s].secret}]
      /\ db.slot[s].status = "free" /\ db.shard[ShardOf(s)] = "active"
      /\ db \in Database /\ db.slot[s].secret \notin handed[s]
      /\ CanTake(db, s)
  BY DEF Rotate, MayHand, Hand, CanTake, IsFirst, ActiveSlots, Good, SlotOK
<1>2. db.slot[old].status = "assigned" /\ db.shard[ShardOf(old)] = "active" /\ old # s
  BY <1>1, AssignedActive DEF Rotate, Assigned
<1>3. /\ Visible(db)[s] = [status |-> "free", secret |-> db.slot[s].secret]
      /\ Visible(db)[old] = [status |-> "assigned", secret |-> db.slot[old].secret]
  BY <1>1, <1>2, VisibleIs
<1>4. d \in Database /\ d.shard = db.shard /\ \A t \in Slots :
        /\ d.slot[t].secret = db.slot[t].secret
        /\ d.slot[t].status = IF t = s THEN "assigned" ELSE db.slot[t].status
  BY <1>1, TakeGood, TakeIs DEF Good
<1> HIDE DEF d
<1>5. e.shard = d.shard /\ \A t \in Slots :
        e.slot[t] = IF t = old THEN [d.slot[old] EXCEPT !.status = "dirty"] ELSE d.slot[t]
  BY <1>4, ReleaseIs
<1> HIDE DEF e
<1>6. e.slot[old].secret = d.slot[old].secret /\ e.slot[old].status = "dirty"
  <2>1. e.slot[old] = [d.slot[old] EXCEPT !.status = "dirty"] /\ d.slot[old] \in Row
    BY <1>4, <1>5 DEF Database
  <2> QED
    BY <2>1 DEF Row
<1>7. \A t \in Slots :
        /\ e.slot[t].secret = db.slot[t].secret
        /\ e.slot[t].status = IF t \in {old} THEN "dirty"
                              ELSE IF t \in {s} THEN "assigned" ELSE db.slot[t].status
  <2>1. \A t \in Slots : t # old => e.slot[t] = d.slot[t]
    BY <1>5
  <2> QED
    BY <1>4, <1>6, <2>1
<1>8. Visible(e) = Exchanged(db, {old}, {s})
  <2>1. /\ {old} \in SUBSET Slots /\ {s} \in SUBSET Slots /\ db \in Database
        /\ e.shard = db.shard
        /\ \A t \in {old} \cup {s} : db.shard[ShardOf(t)] = "active"
    BY <1>1, <1>2, <1>4, <1>5
  <2> QED
    BY ONLY <1>7, <2>1, ChangedVisible
<1> QED
  BY <1>1, <1>2, <1>3, <1>8, ExchangedIsChanged DEF Life!Give

LEMMA DetachReturns ==
  ASSUME Good(db, handed), NEW S \in SUBSET Assigned(db), Detach(S)
  PROVE  S \in SUBSET Slots /\ Life!Return(S)
<1> DEFINE rows == [s \in Slots |-> IF s \in S THEN ReleaseSlot(db, s).slot[s] ELSE db.slot[s]]
<1>1. /\ db \in Database /\ handed' = handed /\ S # {} /\ S \in SUBSET Slots
      /\ db' = [db EXCEPT !.slot = rows]
  BY DEF Good, Detach, Assigned
<1>2. db'.shard = db.shard /\ db'.slot = rows
  BY <1>1 DEF Database
<1>3. \A s \in Slots :
        /\ db'.slot[s].secret = db.slot[s].secret
        /\ db'.slot[s].status = IF s \in S THEN "dirty"
                                ELSE IF s \in {} THEN "assigned" ELSE db.slot[s].status
  <2> SUFFICES ASSUME NEW s \in Slots
               PROVE  /\ db'.slot[s].secret = db.slot[s].secret
                      /\ db'.slot[s].status = IF s \in S THEN "dirty" ELSE db.slot[s].status
    OBVIOUS
  <2>1. CASE s \in S
    <3>1. db'.slot[s] = [db.slot[s] EXCEPT !.status = "dirty"] /\ db.slot[s] \in Row
      BY <1>1, <1>2, <2>1, ReleaseIs DEF Database
    <3> QED
      BY <2>1, <3>1 DEF Row
  <2>2. CASE s \notin S
    BY <1>2, <2>2
  <2> QED
    BY <2>1, <2>2
<1> HIDE DEF rows
<1>4. \A s \in S : db.slot[s].status = "assigned" /\ db.shard[ShardOf(s)] = "active"
  BY AssignedActive DEF Assigned
<1>5. Visible(db)' = Exchanged(db, S, {})
  <2>1. \A s \in S \cup {} : db.shard[ShardOf(s)] = "active"
    BY <1>4
  <2>2. {} \in SUBSET Slots
    OBVIOUS
  <2> DEFINE e == db'
  <2>3. /\ e.shard = db.shard
        /\ \A s \in Slots :
             /\ e.slot[s].secret = db.slot[s].secret
             /\ e.slot[s].status = IF s \in S THEN "dirty"
                                   ELSE IF s \in {} THEN "assigned" ELSE db.slot[s].status
    BY <1>2, <1>3
  <2> HIDE DEF e
  <2>4. Visible(e) = Exchanged(db, S, {})
    BY ONLY <1>1, <2>1, <2>2, <2>3, ChangedVisible
  <2> QED
    BY <2>4 DEF e
<1>6. ASSUME NEW s \in S PROVE Visible(db)[s].status = "assigned"
  <2>1. Visible(db)[s] = [status |-> db.slot[s].status, secret |-> db.slot[s].secret]
    BY <1>1, <1>4, VisibleIs
  <2>2. db.slot[s].status = "assigned"
    BY <1>4
  <2> QED
    BY <2>1, <2>2
<1> QED
  BY <1>1, <1>5, <1>6, ExchangedIsChanged DEF Life!Return

-----------------------------------------------------------------------------
(* The refinement.                                                         *)

LEMMA InitImplements == Init => Life!Init
<1>1. \A s \in Slots : EmptyDatabase.shard[ShardOf(s)] = "none"
  BY ShardOfType DEF EmptyDatabase
<1> QED
  BY <1>1 DEF Init, Visible, Life!Init, Life!Absent

LEMMA MaintainNotSeen ==
  ASSUME Good(db, handed), NEW n \in Int, Maintain(n)
  PROVE  Visible(db)' = Visible(db) /\ handed' = handed
<1>1. /\ db' = CreateShards(Prepare(db), n) /\ FitsPool(Prepare(db), n) /\ handed' = handed
  BY DEF Maintain
<1>2. Good(AbortStaged(db), handed) /\ Good(Prepare(db), handed)
  BY AbortGood, PrepareGood
<1>3. Visible(Prepare(db)) = Visible(db)
  BY <1>2, AbortNotSeen, StageNotSeen DEF Prepare
<1>4. Visible(CreateShards(Prepare(db), n)) = Visible(Prepare(db))
  BY <1>1, <1>2, CreateNotSeen
<1> QED
  BY <1>1, <1>3, <1>4

LEMMA StepImplements ==
  IInv /\ [Next]_vars => [Life!Next]_<<Visible(db), handed>>
<1> SUFFICES ASSUME Good(db, handed), [Next]_vars
             PROVE  \/ Life!Next
                    \/ Visible(db)' = Visible(db) /\ handed' = handed
  BY DEF IInv
<1>1. CASE Subscriber
  <2>1. CASE \E s \in Slots : Attach(s)
    BY <2>1, AttachGives DEF Life!Next
  <2>2. CASE \E old, s \in Slots : Rotate(old, s)
    BY <2>2, RotateGives DEF Life!Next
  <2>3. CASE \E S \in SUBSET Assigned(db) : Detach(S)
    BY <2>3, DetachReturns DEF Life!Next
  <2> QED
    BY <1>1, <2>1, <2>2, <2>3 DEF Subscriber
<1>2. CASE AutoMaintain \/ ForcedMaintain
  <2>1. \E n \in Int : Maintain(n)
    BY <1>2, AutoGrowthType, BoundConstants DEF AutoMaintain, ForcedMaintain
  <2> QED
    BY <2>1, MaintainNotSeen
<1>3. CASE RenderAndCheck \/ AbortJob
  <2>1. (db' = db \/ db' = AbortStaged(db)) /\ handed' = handed
    BY <1>3 DEF RenderAndCheck, AbortJob
  <2> QED
    BY <2>1, AbortNotSeen
<1>4. CASE CommitJob
  <2>1. CASE db' = CommitStaged(db)
    <3>1. handed' = handed
      BY <1>4 DEF CommitJob
    <3>2. \A s \in Slots :
            \/ Visible(db)'[s] = Visible(db)[s]
            \/ /\ Visible(db)[s].status \in {"absent", "dirty"}
               /\ Visible(db)'[s].status = "free"
               /\ Visible(db)'[s].secret # Visible(db)[s].secret
               /\ Visible(db)'[s].secret \notin handed[s]
      BY <2>1, CommitRefreshes
    <3> QED
      BY <3>1, <3>2 DEF Life!Refresh, Life!Next
  <2>2. CASE db' = db
    BY <1>4, <2>2 DEF CommitJob
  <2> QED
    BY <1>4, <2>1, <2>2 DEF CommitJob
<1>5. CASE UNCHANGED <<db, handed>>
  BY <1>5
<1>6. CASE WriteProfiles \/ WriteConfig \/ WriteEnvs \/ SyncFirewall \/ EnableShards
           \/ RestartShards \/ RestartRelay \/ WaitHealthy
  BY <1>5, <1>6 DEF WriteProfiles, WriteConfig, WriteEnvs, SyncFirewall, EnableShards,
              RestartShards, RestartRelay, WaitHealthy
<1>7. CASE RestoreProfiles \/ RestoreConfig \/ RestoreEnvs \/ StopNewShards
           \/ RestartOldShards \/ RestartOldRelay
  BY <1>5, <1>7 DEF RestoreProfiles, RestoreConfig, RestoreEnvs, StopNewShards,
              RestartOldShards, RestartOldRelay
<1>8. CASE Environment \/ Refused \/ UNCHANGED vars
  BY <1>5, <1>8 DEF Environment, MaintainerDies, RelayDies, ShardDies, RelayRespawns,
              ShardRespawns, Reboot, Refused, vars
<1> QED
  BY <1>1, <1>2, <1>3, <1>4, <1>6, <1>7, <1>8 DEF Next, ApplyStep, Forward, Rollback

(* maintain(), apply(), their rollback and every failure and crash, beside *)
(* the users' transactions, implement SlotLifecycle: what is staged,       *)
(* aborted or left behind is never seen, and a slot comes back only under  *)
(* a new secret.                                                           *)
THEOREM PoolImplementsSlotLifecycle == Spec => ImplementsSlotLifecycle
<1>1. IInv /\ [Next]_vars => [Life!Next]_<<Visible(db), handed>>
  BY StepImplements
<1> QED
  BY InitImplements, <1>1, InvariantHolds, PTL DEF Spec, ImplementsSlotLifecycle, Life!Spec
=============================================================================
