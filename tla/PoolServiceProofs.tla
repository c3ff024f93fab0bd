-------------------------- MODULE PoolServiceProofs --------------------------
(***************************************************************************)
(* Theorems about what the files and the processes of module Pool hold,    *)
(* for every size of the pool.  The first invariant, Serving, says for     *)
(* each step of apply() which of them carry the new secrets already, and   *)
(* that none of them, old or new, ever disagrees with the secret of a slot *)
(* somebody has or can get; it bears any number of failures and deaths.    *)
(* The second, Repairing, says of a maintenance in which one step has      *)
(* failed what is left to put back.                                        *)
(***************************************************************************)
EXTENDS PoolImplements

-----------------------------------------------------------------------------
(* The first invariant.                                                    *)

Usable(d) == {s \in Slots : /\ d.slot[s].status \in {"free", "assigned"}
                            /\ d.shard[ShardOf(s)] = "active"}

InJob(s) == ShardOf(s) \in job.shards

(* Between staging and commit, and between staging and abort.              *)
Applying == {"render"} \cup ForwardSteps
BeforeAbort == {"r_profiles", "r_config", "r_envs", "r_stop", "r_abort"}

(* The loops of apply() have nothing left to visit but shards of the job.  *)
LoopsInJob ==
    /\ job.new \subseteq job.shards
    /\ pc \in {"envs", "restart", "r_envs"} => left \subseteq job.shards
    /\ pc \in {"enable", "r_stop"} => left \subseteq job.new
    /\ pc = "r_restart" => left \subseteq Old
    /\ pc = "health" => left \subseteq job.shards \cup {RelayUnit}

(* The shards of the job are those with a staged change, and only they     *)
(* have an environment file that is not up to date.                        *)
JobCovers ==
    /\ pc \in Applying =>
         /\ job.shards # {} /\ job.shards \subseteq Existing(db)
         /\ \A s \in Slots : db.slot[s].pending # 0 => InJob(s)
         /\ \A s \in Slots :
              db.shard[ShardOf(s)] = "active" /\ ~InJob(s) => env[s] = Render(db)[s]
    /\ pc \in Applying \cup BeforeAbort => ShardsIn(db, "staged") = job.new

(* The old files, to which a rollback returns, serve the usable slots too. *)
OldFilesServe ==
    pc \in ForwardSteps \cup RollbackSteps =>
        \A s \in Usable(db) : /\ job.prevProfiles[s] = db.slot[s].secret
                              /\ job.prevEnv[s] = db.slot[s].secret

(* What apply() has written and restarted so far holds what the commit     *)
(* will make true.                                                         *)
WrittenSoFar ==
    /\ pc \in ForwardSteps => job.want = Render(db)
    /\ pc \in ForwardSteps \ {"profiles"} => profiles = job.want
    /\ pc \in ForwardSteps \ {"profiles", "config"} =>
         \A s \in Slots : InJob(s) /\ (pc = "envs" => ShardOf(s) \notin left)
                            => env[s] = job.want[s]
    /\ pc \in {"restart", "relay", "health", "commit"} =>
         \A s \in Slots : InJob(s) /\ (pc = "restart" => ShardOf(s) \notin left)
                            => proc[s] \in {0, job.want[s]}
    /\ pc \in {"health", "commit"} => relay \in {Nothing, job.want}

(* New units are enabled before anything is restarted.                     *)
EnabledSoFar ==
    /\ pc = "enable" => job.new \ left \subseteq enabled
    /\ pc \in {"restart", "relay", "health", "commit"} => job.new \subseteq enabled

Serving == /\ UsableSlotsServed /\ ActiveShardsEnabled
           /\ LoopsInJob /\ JobCovers /\ OldFilesServe /\ WrittenSoFar /\ EnabledSoFar

-----------------------------------------------------------------------------
(* The second invariant.                                                   *)

Agree(f, g) == \A s \in Slots : db.shard[ShardOf(s)] = "active" => f[s] = g[s]
Bare(f) == \A s \in Slots : db.shard[ShardOf(s)] # "active" => f[s] = 0
Fits(f, limit) == Cardinality(Entries(f)) <= limit

Consistent == relay = profiles /\ proc = env /\ Agree(profiles, env) /\ Fits(profiles, relayLimit)

(* Before anything is written: nothing is left over while nothing failed.  *)
AtRest ==
    /\ pc \in {"idle", "render", "profiles"} => Consistent
    /\ pc \in {"idle", "render"} /\ faults = 0 => Bare(env)
    /\ pc = "idle" /\ faults = 0 => ShardsIn(db, "staged") = {}

(* The old files are consistent, and the shards beside the job are as ever.*)
OldState ==
    pc \in ForwardSteps \cup RollbackSteps =>
        /\ Agree(job.prevProfiles, job.prevEnv) /\ Fits(job.prevProfiles, job.prevLimit)
        /\ \A s \in Slots : ~InJob(s) => env[s] = job.prevEnv[s] /\ proc[s] = env[s]
        /\ faults = 0 => Bare(job.prevEnv)

(* What has been written fits the limit, and what was restarted runs it.   *)
GoingForward ==
    /\ pc \in ForwardSteps => Fits(job.want, job.limit)
    /\ pc \in ForwardSteps \ {"profiles", "config"} => relayLimit = job.limit
    /\ pc \in {"restart", "relay", "health", "commit"} =>
         \A s \in Slots : InJob(s) /\ (pc = "restart" => ShardOf(s) \notin left)
                            => proc[s] = env[s]
    /\ pc \in {"health", "commit"} => relay = job.want

(* What each step of the rollback has put back or taken away stays so.     *)
GoingBack ==
    /\ pc \in RollbackSteps =>
         /\ faults = 1
         /\ \A s \in Slots : ShardOf(s) \in job.new => job.prevEnv[s] = 0
    /\ pc \in RollbackSteps \ {"r_profiles"} => profiles = job.prevProfiles
    /\ pc \in RollbackSteps \ {"r_profiles", "r_config"} =>
         /\ relayLimit = job.prevLimit
         /\ \A s \in Slots : InJob(s) /\ (pc = "r_envs" => ShardOf(s) \notin left)
                               => env[s] = job.prevEnv[s]
    /\ pc \in {"r_stop", "r_abort", "r_restart", "r_relay"} =>
         \A s \in Slots : ShardOf(s) \in job.new /\ (pc = "r_stop" => ShardOf(s) \notin left)
                            => proc[s] = 0 /\ ShardOf(s) \notin enabled
    /\ pc \in {"r_restart", "r_relay"} =>
         \A s \in Slots : ShardOf(s) \in Old /\ (pc = "r_restart" => ShardOf(s) \notin left)
                            => proc[s] = env[s]

FewFaults == crashes = 0 /\ faults <= 1
AllRepairing == AtRest /\ OldState /\ GoingForward /\ GoingBack

Repairing == FewFaults => AllRepairing

-----------------------------------------------------------------------------
(* Facts about the database.                                               *)

LEMMA UsableIs ==
  \A d : Usable(d) = ActiveSlots(d, "free") \cup ActiveSlots(d, "assigned")
  BY DEF Usable, ActiveSlots

LEMMA RenderIs ==
  \A d : \A s \in Slots : Render(d)[s] = IF d.slot[s].pending # 0 THEN d.slot[s].pending
                                        ELSE d.slot[s].secret
  BY DEF Render

LEMMA PatchIs ==
  \A f, H, g : \A s \in Slots : Patch(f, H, g)[s] = IF ShardOf(s) \in H THEN g[s] ELSE f[s]
  BY DEF Patch

LEMMA NothingIs == \A s \in Slots : Nothing[s] = 0
  BY DEF Nothing

LEMMA StartRelayIs == \A f, limit : StartRelay(f, limit) \in {f, Nothing}
  BY DEF StartRelay

(* A usable slot has no pending secret: it is rendered as it is.           *)
LEMMA UsableRendered ==
  ASSUME NEW d, NEW g, Good(d, g), NEW s \in Usable(d)
  PROVE  s \in Slots /\ Render(d)[s] = d.slot[s].secret
<1>1. s \in Slots /\ d.slot[s].status \in {"free", "assigned"}
  BY DEF Usable
<1>2. SlotOK(d.slot[s], d.shard[ShardOf(s)], d.minted[s], g[s])
  BY <1>1 DEF Good
<1> QED
  BY <1>1, <1>2, RenderIs DEF SlotOK

(* A shard that exists has all its rows, each with a secret.               *)
LEMMA ExistingRendered ==
  ASSUME NEW d, NEW g, Good(d, g), NEW s \in Slots, d.shard[ShardOf(s)] # "none"
  PROVE  Render(d)[s] # 0 /\ d.slot[s].status # "none"
<1>1. SlotOK(d.slot[s], d.shard[ShardOf(s)], d.minted[s], g[s]) /\ d.slot[s] \in Row
  BY DEF Good, Database
<1>2. d.slot[s].status # "none" /\ d.slot[s].secret > 0
  BY <1>1 DEF SlotOK
<1> QED
  BY <1>1, <1>2, RenderIs DEF Row

(* The slots of active shards before and after a change that is not seen.  *)
LEMMA SeenAlike ==
  ASSUME NEW d \in Database, NEW e \in Database, Visible(e) = Visible(d), NEW s \in Slots
  PROVE  /\ e.shard[ShardOf(s)] = "active" <=> d.shard[ShardOf(s)] = "active"
         /\ d.shard[ShardOf(s)] = "active" =>
              e.slot[s].status = d.slot[s].status /\ e.slot[s].secret = d.slot[s].secret
<1>1. d.slot[s].status \in Statuses /\ e.slot[s].status \in Statuses
  BY DEF Database, Row
<1>2. Visible(e)[s].status = Visible(d)[s].status /\ Visible(e)[s].secret = Visible(d)[s].secret
  OBVIOUS
<1>3. /\ Visible(d)[s].status = IF d.shard[ShardOf(s)] = "active" THEN d.slot[s].status
                                ELSE "absent"
      /\ Visible(e)[s].status = IF e.shard[ShardOf(s)] = "active" THEN e.slot[s].status
                                ELSE "absent"
      /\ d.shard[ShardOf(s)] = "active" => Visible(d)[s].secret = d.slot[s].secret
      /\ e.shard[ShardOf(s)] = "active" => Visible(e)[s].secret = e.slot[s].secret
  BY DEF Visible
<1> QED
  BY <1>1, <1>2, <1>3 DEF Statuses

(* A row whose status alone may change, not to one of a slot in use unless *)
(* it was one.                                                             *)
LEMMA StatusOnly ==
  ASSUME NEW r \in Row, NEW q, NEW st \in {"assigned", "dirty"},
         q = r \/ q = [r EXCEPT !.status = st]
  PROVE  /\ q.secret = r.secret /\ q.pending = r.pending
         /\ q.status \in {r.status, st}
  BY DEF Row

(* What the users' transactions leave as it is.                            *)
LEMMA SubscriberKeeps ==
  ASSUME Good(db, handed), Subscriber
  PROVE  /\ db'.shard = db.shard
         /\ \A s \in Slots : /\ db'.slot[s].secret = db.slot[s].secret
                             /\ db'.slot[s].pending = db.slot[s].pending
                             /\ db'.slot[s].status \in {"free", "assigned"} =>
                                  db.slot[s].status \in {"free", "assigned"}
         /\ UNCHANGED <<files, units, maintainer, counters>>
<1>0. db \in Database /\ \A s \in Slots : db.slot[s] \in Row
  BY DEF Good, Database
<1>1. ASSUME NEW s \in Slots, MayHand(s)
      PROVE  /\ TakeFreeSlot(db, s) \in Database
             /\ TakeFreeSlot(db, s).shard = db.shard
             /\ \A t \in Slots : TakeFreeSlot(db, s).slot[t] =
                  IF t = s THEN [db.slot[t] EXCEPT !.status = "assigned"] ELSE db.slot[t]
             /\ db.slot[s].status = "free"
  <2>1. Good(TakeFreeSlot(db, s), [handed EXCEPT ![s] = @ \cup {db.slot[s].secret}])
    BY <1>1, TakeGood DEF MayHand
  <2>2. db.slot[s].status = "free"
    BY <1>1 DEF MayHand, CanTake, IsFirst, ActiveSlots
  <2> QED
    BY <1>0, <2>1, <2>2 DEF TakeFreeSlot, Good, Database
<1> DEFINE Keeps(e) == \A s \in Slots :
             /\ e.slot[s].secret = db.slot[s].secret
             /\ e.slot[s].pending = db.slot[s].pending
             /\ e.slot[s].status \in {"free", "assigned"} =>
                  db.slot[s].status \in {"free", "assigned"}
<1>2. ASSUME NEW s \in Slots, MayHand(s) PROVE Keeps(TakeFreeSlot(db, s))
  <2> SUFFICES ASSUME NEW t \in Slots
               PROVE  LET q == TakeFreeSlot(db, s).slot[t] IN
                      /\ q.secret = db.slot[t].secret /\ q.pending = db.slot[t].pending
                      /\ q.status \in {"free", "assigned"} =>
                           db.slot[t].status \in {"free", "assigned"}
    OBVIOUS
  <2> DEFINE q == TakeFreeSlot(db, s).slot[t]
  <2>1. CASE t = s
    <3>1. q = [db.slot[t] EXCEPT !.status = "assigned"] /\ db.slot[t].status = "free"
      BY <1>1, <1>2, <2>1
    <3> HIDE DEF q
    <3>2. q.secret = db.slot[t].secret /\ q.pending = db.slot[t].pending
      BY <1>0, <3>1, StatusOnly
    <3> QED
      BY <3>1, <3>2 DEF q
  <2>2. CASE t # s
    BY <1>1, <1>2, <2>2
  <2> QED
    BY <2>1, <2>2
<1>3. CASE \E s \in Slots : Attach(s)
  <2>1. PICK s \in Slots : Attach(s)
    BY <1>3
  <2>2. MayHand(s) /\ db' = TakeFreeSlot(db, s) /\ UNCHANGED <<files, units, maintainer, counters>>
    BY <2>1 DEF Attach
  <2>3. Keeps(db') /\ db'.shard = db.shard
    BY <1>1, <1>2, <2>2
  <2> QED
    BY <2>2, <2>3
<1>4. CASE \E old, s \in Slots : Rotate(old, s)
  <2>1. PICK old \in Slots, s \in Slots : Rotate(old, s)
    BY <1>4
  <2> DEFINE d == TakeFreeSlot(db, s)
  <2>2. MayHand(s) /\ db' = ReleaseSlot(d, old) /\ UNCHANGED <<files, units, maintainer, counters>>
    BY <2>1 DEF Rotate
  <2>3. d \in Database /\ d.shard = db.shard /\ Keeps(d)
    BY <1>1, <1>2, <2>2
  <2> HIDE DEF d
  <2>4. /\ db'.shard = d.shard
        /\ \A t \in Slots : db'.slot[t] =
             IF t = old THEN [d.slot[old] EXCEPT !.status = "dirty"] ELSE d.slot[t]
    BY <2>2, <2>3, ReleaseIs
  <2>5. ASSUME NEW t \in Slots
        PROVE  /\ db'.slot[t].secret = d.slot[t].secret
               /\ db'.slot[t].pending = d.slot[t].pending
               /\ db'.slot[t].status \in {d.slot[t].status, "dirty"}
    <3>1. d.slot[t] \in Row
      BY <2>3 DEF Database
    <3>2. db'.slot[t] = d.slot[t] \/ db'.slot[t] = [d.slot[t] EXCEPT !.status = "dirty"]
      BY <2>4
    <3> QED
      BY <3>1, <3>2, StatusOnly
  <2> QED
    BY <2>2, <2>3, <2>4, <2>5
<1>5. CASE \E S \in SUBSET Assigned(db) : Detach(S)
  <2>1. PICK S \in SUBSET Assigned(db) : Detach(S)
    BY <1>5
  <2> DEFINE rows == [s \in Slots |-> IF s \in S THEN ReleaseSlot(db, s).slot[s] ELSE db.slot[s]]
  <2>2. db' = [db EXCEPT !.slot = rows] /\ UNCHANGED <<files, units, maintainer, counters>>
    BY <2>1 DEF Detach
  <2>3. \A s \in Slots : rows[s] = db.slot[s] \/ rows[s] = [db.slot[s] EXCEPT !.status = "dirty"]
    BY <1>0, ReleaseIs
  <2> HIDE DEF rows
  <2>4. db'.shard = db.shard /\ db'.slot = rows
    BY <1>0, <2>2 DEF Database
  <2>5. \A s \in Slots : /\ rows[s].secret = db.slot[s].secret
                         /\ rows[s].pending = db.slot[s].pending
                         /\ rows[s].status \in {db.slot[s].status, "dirty"}
    BY <1>0, <2>3, StatusOnly
  <2> QED
    BY <2>2, <2>4, <2>5
<1> QED
  BY <1>3, <1>4, <1>5 DEF Subscriber

(* What the staging transaction leaves and makes.                          *)
LEMMA MaintainMakes ==
  ASSUME Good(db, handed), Good(db', handed'), NEW n \in Int, Maintain(n)
  PROVE  LET restart == DirtyShards(Prepare(db))
             new == NewShards(Prepare(db), n) IN
         /\ Visible(db') = Visible(db)
         /\ ShardsIn(db', "staged") = new
         /\ restart \cup new \subseteq Existing(db')
         /\ \A s \in Slots :
              /\ db'.slot[s].pending # 0 => ShardOf(s) \in restart
              /\ db'.shard[ShardOf(s)] = "active" /\ ShardOf(s) \notin restart => s \in Usable(db')
<1> DEFINE d == Prepare(db)
           restart == DirtyShards(d)
           new == NewShards(d, n)
<1>1. db' = CreateShards(d, n) /\ FitsPool(d, n) /\ new \in SUBSET Shards
  BY MaintainGood DEF Maintain
<1>2. Good(d, handed) /\ ShardsIn(d, "staged") = {}
  BY PrepareGood
<1>3. /\ \A h \in Shards : db'.shard[h] = IF h \in new THEN "staged" ELSE d.shard[h]
      /\ \A s \in Slots : db'.slot[s] =
           IF ShardOf(s) \in new
           THEN [status |-> "free", secret |-> d.minted[s] + 1, pending |-> 0]
           ELSE d.slot[s]
  BY <1>1 DEF CreateShards
<1>4. Visible(db') = Visible(db)
  BY MaintainNotSeen DEF Visible
<1>5. \A s \in Slots : d.slot[s].status = "dirty" => ShardOf(s) \in restart
  BY DEF DirtyShards, Slots, ShardOf
<1>6. \A s \in Slots : SlotOK(d.slot[s], d.shard[ShardOf(s)], d.minted[s], handed[s])
  BY <1>2 DEF Good
<1> HIDE DEF d, new
<1>7. ShardsIn(db', "staged") = new
  BY <1>1, <1>2, <1>3 DEF ShardsIn
<1>8. restart \subseteq Existing(db')
  <2> SUFFICES ASSUME NEW h \in restart PROVE h \in Existing(db')
    OBVIOUS
  <2>1. PICK i \in Indexes : h \in Shards /\ d.slot[<<h, i>>].status = "dirty"
    BY DEF DirtyShards
  <2>2. <<h, i>> \in Slots /\ ShardOf(<<h, i>>) = h
    BY <2>1 DEF Slots, ShardOf
  <2>3. d.shard[h] # "none"
    BY <1>6, <2>1, <2>2 DEF SlotOK
  <2> QED
    BY <1>3, <2>1, <2>3 DEF Existing
<1>9. new \subseteq Existing(db')
  BY <1>1, <1>3 DEF Existing
<1> HIDE DEF restart
<1>10. ASSUME NEW s \in Slots, db'.slot[s].pending # 0 PROVE ShardOf(s) \in restart
  <2>1. CASE ShardOf(s) \in new
    <3>1. db'.slot[s] = [status |-> "free", secret |-> d.minted[s] + 1, pending |-> 0]
      BY <1>3, <2>1
    <3> QED
      BY <3>1, <1>10
  <2>2. CASE ShardOf(s) \notin new
    BY <1>3, <1>5, <1>6, <1>10, <2>2 DEF SlotOK
  <2> QED
    BY <2>1, <2>2
<1>11. ASSUME NEW s \in Slots, db'.shard[ShardOf(s)] = "active", ShardOf(s) \notin restart
       PROVE  s \in Usable(db')
  <2>1. ShardOf(s) \notin new /\ db'.slot[s] = d.slot[s]
    BY <1>3, <1>11, ShardOfType
  <2>2. db'.slot[s].status \in Statuses /\ db'.slot[s].status # "none"
    BY <1>11, ExistingRendered DEF Good, Database, Row
  <2>3. db'.slot[s].status # "dirty"
    BY <1>5, <1>11, <2>1
  <2> QED
    BY <1>11, <2>2, <2>3 DEF Usable, Statuses
<1> QED
  BY <1>4, <1>7, <1>8, <1>9, <1>10, <1>11 DEF restart, new, d

(* What a commit does to the slots.                                        *)
LEMMA CommitMakes ==
  ASSUME NEW d, NEW g, Good(d, g)
  PROVE  LET e == CommitStaged(d) IN
         /\ \A h \in Shards : e.shard[h] = IF d.shard[h] = "staged" THEN "active" ELSE d.shard[h]
         /\ \A s \in Slots : e.slot[s].secret = Render(d)[s]
         /\ \A s \in Usable(e) : d.slot[s].pending = 0 => d.slot[s].status \in {"free", "assigned"}
<1> DEFINE e == CommitStaged(d)
           renewed(s) == d.slot[s].pending # 0 /\ d.slot[s].status = "dirty"
<1>1. /\ \A h \in Shards : e.shard[h] = IF d.shard[h] = "staged" THEN "active" ELSE d.shard[h]
      /\ \A s \in Slots : e.slot[s] = IF renewed(s)
             THEN [status |-> "free", secret |-> d.slot[s].pending, pending |-> 0]
             ELSE d.slot[s]
  BY DEF CommitStaged
<1> HIDE DEF e
<1>2. ASSUME NEW s \in Slots PROVE e.slot[s].secret = Render(d)[s]
  <2>1. SlotOK(d.slot[s], d.shard[ShardOf(s)], d.minted[s], g[s])
    BY DEF Good
  <2>2. renewed(s) <=> d.slot[s].pending # 0
    BY <2>1 DEF SlotOK
  <2>3. CASE renewed(s)
    <3>1. e.slot[s] = [status |-> "free", secret |-> d.slot[s].pending, pending |-> 0]
      BY <1>1, <2>3
    <3>2. e.slot[s].secret = d.slot[s].pending
      BY <3>1
    <3> QED
      BY <2>3, <3>2, RenderIs
  <2>4. CASE ~renewed(s)
    BY <1>1, <2>2, <2>4, RenderIs
  <2> QED
    BY <2>3, <2>4
<1>3. \A s \in Usable(e) : d.slot[s].pending = 0 => d.slot[s].status \in {"free", "assigned"}
  BY <1>1 DEF Usable
<1> QED
  BY <1>1, <1>2, <1>3 DEF e

-----------------------------------------------------------------------------
(* Serving is kept.  The parts of it that most steps leave alone first.    *)

(* Writing the secrets of the usable slots, and starting processes with    *)
(* the files, serves the usable slots.                                     *)
LEMMA ServedAgain ==
  ASSUME UsableSlotsServed, UNCHANGED db,
         relay' \in {relay, profiles, Nothing},
         \A s \in Usable(db) : /\ profiles'[s] \in {profiles[s], db.slot[s].secret}
                               /\ env'[s] \in {env[s], db.slot[s].secret}
                               /\ proc'[s] \in {0, proc[s], env[s]}
  PROVE  UsableSlotsServed'
<1>1. Usable(db)' = ActiveSlots(db, "free")' \cup ActiveSlots(db, "assigned")'
  BY DEF Usable, ActiveSlots
<1>2. Usable(db)' = Usable(db)
  BY DEF Usable
<1> QED
  BY <1>1, <1>2, UsableIs DEF UsableSlotsServed

(* A step inside apply() that leaves the database and its local variables. *)
LEMMA InsideApply ==
  ASSUME JobCovers, OldFilesServe, ActiveShardsEnabled, UNCHANGED <<db, job>>,
         \A s \in Slots : ~InJob(s) => env'[s] = env[s],
         ShardsIn(db, "active") \subseteq enabled => ShardsIn(db, "active") \subseteq enabled',
         pc' \in Applying => pc \in Applying,
         pc' \in BeforeAbort => pc \in Applying \cup BeforeAbort,
         pc' \in ForwardSteps \cup RollbackSteps => pc \in ForwardSteps \cup RollbackSteps
  PROVE  JobCovers' /\ OldFilesServe' /\ ActiveShardsEnabled'
<1>1. Usable(db)' = Usable(db) /\ \A s : InJob(s)' <=> InJob(s)
  BY DEF Usable, InJob
<1>2. Render(db)' = Render(db) /\ Existing(db)' = Existing(db)
      /\ \A st : ShardsIn(db, st)' = ShardsIn(db, st)
  BY DEF Render, Existing, ShardsIn
<1>3. JobCovers'
  BY <1>1, <1>2 DEF JobCovers
<1>4. OldFilesServe'
  BY <1>1 DEF OldFilesServe
<1>5. ActiveShardsEnabled'
  BY <1>2 DEF ActiveShardsEnabled
<1> QED
  BY <1>3, <1>4, <1>5

(* A change of the database that those who take and give back slots do not *)
(* see, such as the staging or the discarding of what was staged.          *)
LEMMA ServedUnseen ==
  ASSUME Good(db, handed), Good(db', handed'), Visible(db') = Visible(db),
         UNCHANGED <<files, units>>, UsableSlotsServed, ActiveShardsEnabled
  PROVE  /\ UsableSlotsServed' /\ ActiveShardsEnabled'
         /\ Usable(db') = Usable(db)
         /\ \A s \in Usable(db) : db'.slot[s].secret = db.slot[s].secret
         /\ ShardsIn(db', "active") = ShardsIn(db, "active")
<1>1. \A s \in Slots :
        /\ db'.shard[ShardOf(s)] = "active" <=> db.shard[ShardOf(s)] = "active"
        /\ db.shard[ShardOf(s)] = "active" =>
             db'.slot[s].status = db.slot[s].status /\ db'.slot[s].secret = db.slot[s].secret
  BY SeenAlike DEF Good
<1>2. Usable(db') = Usable(db) /\ \A s \in Usable(db) : db'.slot[s].secret = db.slot[s].secret
  BY <1>1 DEF Usable
<1>3. UsableSlotsServed'
  BY <1>2, UsableIs DEF UsableSlotsServed, files, units
<1>4. ShardsIn(db', "active") = ShardsIn(db, "active")
  <2>1. \A h \in Shards : <<h, 0>> \in Slots /\ ShardOf(<<h, 0>>) = h
    BY ParametersType DEF Slots, Indexes, ShardOf
  <2> QED
    BY <1>1, <2>1 DEF ShardsIn
<1> QED
  BY <1>2, <1>3, <1>4 DEF ActiveShardsEnabled, units

(* Outside maintain() Serving says no more than the two properties.        *)
LEMMA QuitServes == ASSUME Quit, UsableSlotsServed', ActiveShardsEnabled' PROVE Serving'
<1>1. pc' = "idle" /\ job'.new = {} /\ job'.shards = {}
  BY DEF Quit, GoTo, NoJob
<1> QED
  BY <1>1 DEF Serving, LoopsInJob, JobCovers, OldFilesServe, WrittenSoFar, EnabledSoFar,
              ForwardSteps, RollbackSteps, Applying, BeforeAbort

LEMMA RenderServes ==
  ASSUME IInv, IInv', Serving, RenderAndCheck PROVE Serving'
<1>1. /\ pc = "render" /\ UNCHANGED <<handed, files, units>>
      /\ job \in Job /\ Good(db, handed) /\ Good(db', handed')
      /\ UsableSlotsServed /\ ActiveShardsEnabled /\ LoopsInJob /\ JobCovers
  BY DEF RenderAndCheck, IInv, TypeOK, Serving
<1>2. CASE Quit
  <2>1. Visible(db') = Visible(db)
    BY <1>1, AbortNotSeen DEF RenderAndCheck
  <2> QED
    BY <1>1, <1>2, <2>1, ServedUnseen, QuitServes
<1>3. CASE db' = db /\ job' = Wanted /\ GoTo("profiles", {})
  <2>1. /\ job'.shards = job.shards /\ job'.new = job.new /\ job'.want = Render(db)
        /\ job'.prevProfiles = profiles /\ job'.prevEnv = env
    BY <1>1, <1>3 DEF Wanted, Job
  <2>2. UsableSlotsServed' /\ ActiveShardsEnabled'
    BY <1>1, <1>3, ServedUnseen
  <2>3. LoopsInJob'
    BY <1>1, <1>3, <2>1 DEF LoopsInJob, GoTo
  <2>4. JobCovers'
    BY <1>1, <1>3, <2>1 DEF JobCovers, GoTo, Applying, BeforeAbort, ForwardSteps, InJob,
                            Existing, ShardsIn, Render, files
  <2>5. \A s \in Usable(db) : profiles[s] = db.slot[s].secret /\ env[s] = db.slot[s].secret
    BY <1>1, UsableIs DEF UsableSlotsServed
  <2>6. OldFilesServe'
    BY <1>3, <2>1, <2>5 DEF OldFilesServe, Usable
  <2>7. WrittenSoFar' /\ EnabledSoFar'
    BY <1>3, <2>1 DEF WrittenSoFar, EnabledSoFar, GoTo, Render, ForwardSteps
  <2> QED
    BY <2>2, <2>3, <2>4, <2>6, <2>7 DEF Serving
<1> QED
  BY <1>2, <1>3 DEF RenderAndCheck

(* The commit gives the slots the secrets that the files have by then.     *)
LEMMA CommitServes ==
  ASSUME IInv, IInv', Serving, CommitJob PROVE Serving'
<1>1. /\ pc = "commit" /\ Quit /\ UNCHANGED <<handed, files, units>>
      /\ db \in Database /\ Good(db, handed) /\ Good(db', handed')
      /\ UsableSlotsServed /\ ActiveShardsEnabled /\ LoopsInJob /\ JobCovers
      /\ WrittenSoFar /\ EnabledSoFar
  BY DEF CommitJob, IInv, TypeOK, Serving
<1>2. CASE db' = db
  BY <1>1, <1>2, ServedUnseen, QuitServes
<1>3. CASE db' = CommitStaged(db)
  <2>1. /\ \A h \in Shards : db'.shard[h] = IF db.shard[h] = "staged" THEN "active"
                                            ELSE db.shard[h]
        /\ \A s \in Slots : db'.slot[s].secret = Render(db)[s]
        /\ \A s \in Usable(db') :
             db.slot[s].pending = 0 => db.slot[s].status \in {"free", "assigned"}
    BY <1>1, <1>3, CommitMakes
  <2>2. /\ profiles = Render(db) /\ relay \in {Nothing, Render(db)}
        /\ \A s \in Slots : InJob(s) => env[s] = Render(db)[s] /\ proc[s] \in {0, Render(db)[s]}
    BY <1>1 DEF WrittenSoFar, ForwardSteps
  <2>3. /\ ShardsIn(db, "staged") = job.new /\ job.new \subseteq job.shards
        /\ job.new \subseteq enabled
        /\ \A s \in Slots : db.slot[s].pending # 0 => InJob(s)
    BY <1>1 DEF JobCovers, LoopsInJob, EnabledSoFar, Applying, ForwardSteps
  <2>4. ASSUME NEW s \in Usable(db'), ~InJob(s)
        PROVE  env[s] = Render(db)[s] /\ proc[s] \in {0, Render(db)[s]}
    <3>1. s \in Slots /\ db'.shard[ShardOf(s)] = "active"
      BY DEF Usable
    <3>2. db.shard[ShardOf(s)] = "active"
      BY <2>1, <2>3, <2>4, <3>1, ShardOfType DEF ShardsIn, InJob
    <3>3. s \in Usable(db)
      BY <2>1, <2>3, <2>4, <3>1, <3>2 DEF Usable
    <3>4. Render(db)[s] = db.slot[s].secret
      BY <1>1, <3>3, UsableRendered
    <3> QED
      BY <1>1, <3>3, <3>4, UsableIs DEF UsableSlotsServed
  <2>5. UsableSlotsServed'
    <3> SUFFICES ASSUME NEW s \in Usable(db')
                 PROVE  /\ profiles[s] = db'.slot[s].secret /\ env[s] = db'.slot[s].secret
                        /\ relay # Nothing => relay[s] = db'.slot[s].secret
                        /\ proc[s] \in {0, db'.slot[s].secret}
      BY <1>1, UsableIs DEF UsableSlotsServed, files, units
    <3>1. s \in Slots /\ db'.slot[s].secret = Render(db)[s]
      BY <2>1 DEF Usable
    <3> QED
      BY <2>2, <2>4, <3>1
  <2>6. ActiveShardsEnabled'
    BY <1>1, <2>1, <2>3 DEF ActiveShardsEnabled, ShardsIn, units
  <2> QED
    BY <1>1, <2>5, <2>6, QuitServes
<1> QED
  BY <1>2, <1>3 DEF CommitJob

LEMMA ForwardServes == IInv /\ IInv' /\ Serving /\ Forward => Serving'
<1> SUFFICES ASSUME IInv, IInv', Serving, Forward PROVE Serving'
  OBVIOUS
<1> USE DEF ForwardSteps, RollbackSteps, Applying, BeforeAbort
<1>0. /\ UsableSlotsServed /\ ActiveShardsEnabled /\ LoopsInJob /\ JobCovers
      /\ OldFilesServe /\ WrittenSoFar /\ EnabledSoFar
      /\ \A s \in Usable(db) : s \in Slots /\ Render(db)[s] = db.slot[s].secret
  BY UsableRendered DEF IInv, Serving
<1>1. CASE RenderAndCheck
  BY <1>1, RenderServes
<1>2. CASE WriteProfiles
  <2>1. /\ pc = "profiles" /\ pc' \in {"config", "r_profiles"} /\ profiles' \in {profiles, job.want}
        /\ pc' = "config" => profiles' = job.want
        /\ UNCHANGED <<db, env, relay, proc, enabled, job>>
    BY <1>2 DEF WriteProfiles, Fail, FailTo, GoTo, units
  <2>2. UsableSlotsServed'
    BY <1>0, <2>1, ServedAgain DEF WrittenSoFar
  <2>3. JobCovers' /\ OldFilesServe' /\ ActiveShardsEnabled'
    BY <1>0, <2>1, InsideApply
  <2>4. LoopsInJob' /\ WrittenSoFar' /\ EnabledSoFar'
    BY <1>0, <2>1 DEF LoopsInJob, WrittenSoFar, EnabledSoFar, Render
  <2> QED
    BY <2>2, <2>3, <2>4 DEF Serving
<1>3. CASE WriteConfig
  <2>1. /\ pc = "config" /\ pc' \in {"envs", "r_profiles"} /\ (pc' = "envs" => left' = job.shards)
        /\ UNCHANGED <<db, profiles, env, relay, proc, enabled, job>>
    BY <1>3 DEF WriteConfig, Fail, FailTo, GoTo, units
  <2>2. UsableSlotsServed'
    BY <1>0, <2>1, ServedAgain
  <2>3. JobCovers' /\ OldFilesServe' /\ ActiveShardsEnabled'
    BY <1>0, <2>1, InsideApply
  <2>4. LoopsInJob' /\ WrittenSoFar' /\ EnabledSoFar'
    BY <1>0, <2>1 DEF LoopsInJob, WrittenSoFar, EnabledSoFar, Render, InJob
  <2> QED
    BY <2>2, <2>3, <2>4 DEF Serving
<1>4. CASE WriteEnvs
  <2>1. /\ pc = "envs" /\ pc' \in {"envs", "sync", "r_profiles"}
        /\ UNCHANGED <<db, profiles, relay, proc, enabled, job>>
        /\ env' = env \/ \E h \in left : env' = Patch(env, {h}, job.want)
        /\ pc' = "envs" => \E h \in left : left' = left \ {h} /\ env' = Patch(env, {h}, job.want)
        /\ pc' = "sync" => left = {} /\ env' = env
    BY <1>4 DEF WriteEnvs, Fail, FailTo, GoTo, LoopTo, Visited, units
  <2>2. left \subseteq job.shards /\ job.want = Render(db) /\ profiles = job.want
    BY <1>0, <2>1 DEF LoopsInJob, WrittenSoFar
  <2>3. \A s \in Slots : /\ env'[s] \in {env[s], job.want[s]}
                         /\ ~InJob(s) => env'[s] = env[s]
    <3>1. CASE env' = env
      BY <3>1
    <3>2. ASSUME NEW h \in left, env' = Patch(env, {h}, job.want)
          PROVE  \A s \in Slots : /\ env'[s] \in {env[s], job.want[s]}
                                  /\ ~InJob(s) => env'[s] = env[s]
      BY <2>2, <3>2, PatchIs DEF InJob
    <3> QED
      BY <2>1, <3>1, <3>2
  <2>4. UsableSlotsServed'
    BY <1>0, <2>1, <2>2, <2>3, ServedAgain
  <2>5. JobCovers' /\ OldFilesServe' /\ ActiveShardsEnabled'
    BY <1>0, <2>1, <2>3, InsideApply
  <2>6. \A s \in Slots : InJob(s) /\ (pc' = "envs" => ShardOf(s) \notin left')
                           => pc' = "r_profiles" \/ env'[s] = job.want[s]
    <3>1. \A s \in Slots : InJob(s) /\ ShardOf(s) \notin left => env[s] = job.want[s]
      BY <1>0, <2>1 DEF WrittenSoFar
    <3>2. ASSUME NEW h \in left, left' = left \ {h}, env' = Patch(env, {h}, job.want)
          PROVE  \A s \in Slots : InJob(s) /\ ShardOf(s) \notin left' => env'[s] = job.want[s]
      BY <3>1, <3>2, PatchIs
    <3> QED
      BY <2>1, <3>1, <3>2
  <2>7. LoopsInJob' /\ WrittenSoFar' /\ EnabledSoFar'
    BY <1>0, <2>1, <2>2, <2>6 DEF LoopsInJob, WrittenSoFar, EnabledSoFar, Render, InJob
  <2> QED
    BY <2>4, <2>5, <2>7 DEF Serving
<1>5. CASE SyncFirewall
  <2>1. /\ pc = "sync" /\ pc' \in {"enable", "r_profiles"} /\ (pc' = "enable" => left' = job.new)
        /\ UNCHANGED <<db, profiles, env, relay, proc, enabled, job>>
    BY <1>5 DEF SyncFirewall, Fail, FailTo, GoTo, LoopTo, units, files
  <2>2. UsableSlotsServed'
    BY <1>0, <2>1, ServedAgain
  <2>3. JobCovers' /\ OldFilesServe' /\ ActiveShardsEnabled'
    BY <1>0, <2>1, InsideApply
  <2>4. LoopsInJob' /\ WrittenSoFar' /\ EnabledSoFar'
    BY <1>0, <2>1 DEF LoopsInJob, WrittenSoFar, EnabledSoFar, Render, InJob
  <2> QED
    BY <2>2, <2>3, <2>4 DEF Serving
<1>6. CASE EnableShards
  <2>1. /\ pc = "enable" /\ pc' \in {"enable", "restart", "r_profiles"}
        /\ UNCHANGED <<db, profiles, env, relay, proc, job>>
        /\ enabled \subseteq enabled'
        /\ pc' = "enable" => \E h \in left : left' = left \ {h} /\ enabled' = enabled \cup {h}
        /\ pc' = "restart" => left = {} /\ left' = job.shards /\ enabled' = enabled
    BY <1>6 DEF EnableShards, Fail, FailTo, GoTo, LoopTo, Visited, files
  <2>2. UsableSlotsServed'
    BY <1>0, <2>1, ServedAgain
  <2>3. JobCovers' /\ OldFilesServe' /\ ActiveShardsEnabled'
    BY <1>0, <2>1, InsideApply
  <2>4. LoopsInJob' /\ WrittenSoFar' /\ EnabledSoFar'
    BY <1>0, <2>1 DEF LoopsInJob, WrittenSoFar, EnabledSoFar, Render, InJob
  <2> QED
    BY <2>2, <2>3, <2>4 DEF Serving
<1>7. CASE RestartShards
  <2>1. /\ pc = "restart" /\ pc' \in {"restart", "relay", "r_profiles"}
        /\ UNCHANGED <<db, profiles, env, relay, enabled, job>>
        /\ \/ proc' = proc
           \/ \E h \in left : proc' = Patch(proc, {h}, Nothing) \/ proc' = Patch(proc, {h}, env)
        /\ pc' = "restart" => \E h \in left : left' = left \ {h} /\ proc' = Patch(proc, {h}, env)
        /\ pc' = "relay" => left = {} /\ proc' = proc
    BY <1>7 DEF RestartShards, Restarted, Down, Fail, FailTo, GoTo, LoopTo, Visited, files
  <2>2. \A s \in Slots : proc'[s] \in {0, proc[s], env[s]}
    <3>1. CASE proc' = proc
      BY <3>1
    <3>2. ASSUME NEW h \in left,
                 proc' = Patch(proc, {h}, Nothing) \/ proc' = Patch(proc, {h}, env)
          PROVE  \A s \in Slots : proc'[s] \in {0, proc[s], env[s]}
      BY <3>2, PatchIs, NothingIs
    <3> QED
      BY <2>1, <3>1, <3>2
  <2>3. UsableSlotsServed'
    BY <1>0, <2>1, <2>2, ServedAgain
  <2>4. JobCovers' /\ OldFilesServe' /\ ActiveShardsEnabled'
    BY <1>0, <2>1, InsideApply
  <2>5. \A s \in Slots : InJob(s) => env[s] = job.want[s]
    BY <1>0, <2>1 DEF WrittenSoFar
  <2>6. \A s \in Slots : InJob(s) /\ (pc' = "restart" => ShardOf(s) \notin left')
                           => pc' = "r_profiles" \/ proc'[s] \in {0, job.want[s]}
    <3>1. \A s \in Slots : InJob(s) /\ ShardOf(s) \notin left => proc[s] \in {0, job.want[s]}
      BY <1>0, <2>1 DEF WrittenSoFar
    <3>2. ASSUME NEW h \in left, left' = left \ {h}, proc' = Patch(proc, {h}, env)
          PROVE  \A s \in Slots : InJob(s) /\ ShardOf(s) \notin left' => proc'[s] \in {0, job.want[s]}
      BY <2>5, <3>1, <3>2, PatchIs
    <3> QED
      BY <2>1, <3>1, <3>2
  <2>7. LoopsInJob' /\ WrittenSoFar' /\ EnabledSoFar'
    BY <1>0, <2>1, <2>5, <2>6 DEF LoopsInJob, WrittenSoFar, EnabledSoFar, Render, InJob
  <2> QED
    BY <2>3, <2>4, <2>7 DEF Serving
<1>8. CASE RestartRelay
  <2>1. /\ pc = "relay" /\ pc' \in {"health", "r_profiles"}
        /\ pc' = "health" => left' = job.shards \cup {RelayUnit}
        /\ UNCHANGED <<db, profiles, env, proc, enabled, job>>
        /\ relay' \in {relay, Nothing, profiles}
        /\ pc' = "health" => relay' \in {Nothing, profiles}
    BY <1>8, StartRelayIs DEF RestartRelay, Fail, FailTo, GoTo, files
  <2>2. UsableSlotsServed'
    BY <1>0, <2>1, ServedAgain
  <2>3. JobCovers' /\ OldFilesServe' /\ ActiveShardsEnabled'
    BY <1>0, <2>1, InsideApply
  <2>4. LoopsInJob' /\ WrittenSoFar' /\ EnabledSoFar'
    BY <1>0, <2>1 DEF LoopsInJob, WrittenSoFar, EnabledSoFar, Render, InJob
  <2> QED
    BY <2>2, <2>3, <2>4 DEF Serving
<1>9. CASE WaitHealthy
  <2>1. /\ pc = "health" /\ pc' \in {"health", "commit", "r_profiles"}
        /\ pc' = "health" => left' \subseteq left
        /\ UNCHANGED <<db, profiles, env, relay, proc, enabled, job>>
    BY <1>9 DEF WaitHealthy, Fail, FailTo, GoTo, LoopTo, files, units
  <2>2. UsableSlotsServed'
    BY <1>0, <2>1, ServedAgain
  <2>3. JobCovers' /\ OldFilesServe' /\ ActiveShardsEnabled'
    BY <1>0, <2>1, InsideApply
  <2>4. LoopsInJob' /\ WrittenSoFar' /\ EnabledSoFar'
    BY <1>0, <2>1 DEF LoopsInJob, WrittenSoFar, EnabledSoFar, Render, InJob
  <2> QED
    BY <2>2, <2>3, <2>4 DEF Serving
<1>10. CASE CommitJob
  BY <1>10, CommitServes
<1> QED
  BY <1>1, <1>2, <1>3, <1>4, <1>5, <1>6, <1>7, <1>8, <1>9, <1>10 DEF Forward

LEMMA RollbackServes == IInv /\ IInv' /\ Serving /\ Rollback => Serving'
<1> SUFFICES ASSUME IInv, IInv', Serving, Rollback PROVE Serving'
  OBVIOUS
<1> USE DEF ForwardSteps, RollbackSteps, Applying, BeforeAbort
<1>0. /\ UsableSlotsServed /\ ActiveShardsEnabled /\ LoopsInJob /\ JobCovers
      /\ OldFilesServe /\ WrittenSoFar /\ EnabledSoFar
      /\ Good(db, handed) /\ Good(db', handed')
      /\ \A s \in Usable(db) : s \in Slots
  BY DEF IInv, Serving, Usable
<1>1. CASE RestoreProfiles
  <2>1. /\ pc = "r_profiles" /\ pc' \in {"r_config", "r_stop"}
        /\ pc' = "r_stop" => left' = job.new
        /\ profiles' \in {profiles, job.prevProfiles}
        /\ UNCHANGED <<db, env, relay, proc, enabled, job>>
    BY <1>1 DEF RestoreProfiles, FailTo, GoTo, units
  <2>2. UsableSlotsServed'
    BY <1>0, <2>1, ServedAgain DEF OldFilesServe
  <2>3. JobCovers' /\ OldFilesServe' /\ ActiveShardsEnabled'
    BY <1>0, <2>1, InsideApply
  <2>4. LoopsInJob' /\ WrittenSoFar' /\ EnabledSoFar'
    BY <1>0, <2>1 DEF LoopsInJob, WrittenSoFar, EnabledSoFar
  <2> QED
    BY <2>2, <2>3, <2>4 DEF Serving
<1>2. CASE RestoreConfig
  <2>1. /\ pc = "r_config" /\ pc' \in {"r_envs", "r_stop"}
        /\ pc' = "r_stop" => left' = job.new
        /\ pc' = "r_envs" => left' = job.shards
        /\ UNCHANGED <<db, profiles, env, relay, proc, enabled, job>>
    BY <1>2 DEF RestoreConfig, FailTo, GoTo, units
  <2>2. UsableSlotsServed'
    BY <1>0, <2>1, ServedAgain
  <2>3. JobCovers' /\ OldFilesServe' /\ ActiveShardsEnabled'
    BY <1>0, <2>1, InsideApply
  <2>4. LoopsInJob' /\ WrittenSoFar' /\ EnabledSoFar'
    BY <1>0, <2>1 DEF LoopsInJob, WrittenSoFar, EnabledSoFar
  <2> QED
    BY <2>2, <2>3, <2>4 DEF Serving
<1>3. CASE RestoreEnvs
  <2>1. /\ pc = "r_envs" /\ pc' \in {"r_envs", "r_stop"}
        /\ pc' = "r_envs" => left' \subseteq left
        /\ pc' = "r_stop" => left' = job.new
        /\ env' = env \/ \E h \in left : env' = Patch(env, {h}, job.prevEnv)
        /\ UNCHANGED <<db, profiles, relay, proc, enabled, job>>
    BY <1>3 DEF RestoreEnvs, FailTo, GoTo, LoopTo, Visited, units
  <2>2. left \subseteq job.shards
    BY <1>0, <2>1 DEF LoopsInJob
  <2>3. \A s \in Slots : /\ env'[s] \in {env[s], job.prevEnv[s]}
                         /\ ~InJob(s) => env'[s] = env[s]
    <3>1. CASE env' = env
      BY <3>1
    <3>2. ASSUME NEW h \in left, env' = Patch(env, {h}, job.prevEnv)
          PROVE  \A s \in Slots : /\ env'[s] \in {env[s], job.prevEnv[s]}
                                  /\ ~InJob(s) => env'[s] = env[s]
      BY <2>2, <3>2, PatchIs DEF InJob
    <3> QED
      BY <2>1, <3>1, <3>2
  <2>4. UsableSlotsServed'
    BY <1>0, <2>1, <2>3, ServedAgain DEF OldFilesServe
  <2>5. JobCovers' /\ OldFilesServe' /\ ActiveShardsEnabled'
    BY <1>0, <2>1, <2>3, InsideApply
  <2>6. LoopsInJob' /\ WrittenSoFar' /\ EnabledSoFar'
    BY <1>0, <2>1 DEF LoopsInJob, WrittenSoFar, EnabledSoFar
  <2> QED
    BY <2>4, <2>5, <2>6 DEF Serving
<1>4. CASE StopNewShards
  <2>1. /\ pc = "r_stop" /\ pc' \in {"r_stop", "r_abort"}
        /\ pc' = "r_stop" => left' \subseteq left
        /\ proc' = proc \/ \E h \in left : proc' = Patch(proc, {h}, Nothing)
        /\ enabled' = enabled \/ \E h \in left : enabled' = enabled \ {h}
        /\ UNCHANGED <<db, profiles, env, relay, job>>
    BY <1>4 DEF StopNewShards, Down, MayFail, GoTo, LoopTo, Visited, files
  <2>2. left \subseteq ShardsIn(db, "staged")
    BY <1>0, <2>1 DEF LoopsInJob, JobCovers
  <2>3. \A s \in Slots : proc'[s] \in {0, proc[s]}
    <3>1. CASE proc' = proc
      BY <3>1
    <3>2. ASSUME NEW h \in left, proc' = Patch(proc, {h}, Nothing)
          PROVE  \A s \in Slots : proc'[s] \in {0, proc[s]}
      BY <3>2, PatchIs, NothingIs
    <3> QED
      BY <2>1, <3>1, <3>2
  <2>4. UsableSlotsServed'
    BY <1>0, <2>1, <2>3, ServedAgain
  <2>5. JobCovers' /\ OldFilesServe' /\ ActiveShardsEnabled'
    <3>1. \A h \in left : h \notin ShardsIn(db, "active")
      BY <2>2 DEF ShardsIn
    <3>2. ShardsIn(db, "active") \subseteq enabled => ShardsIn(db, "active") \subseteq enabled'
      BY <2>1, <3>1
    <3> QED
      BY <1>0, <2>1, <3>2, InsideApply
  <2>6. LoopsInJob' /\ WrittenSoFar' /\ EnabledSoFar'
    BY <1>0, <2>1 DEF LoopsInJob, WrittenSoFar, EnabledSoFar
  <2> QED
    BY <2>4, <2>5, <2>6 DEF Serving
<1>5. CASE AbortJob
  <2>1. /\ pc = "r_abort" /\ UNCHANGED <<handed, files, units>>
        /\ db' = db \/ db' = AbortStaged(db)
    BY <1>5 DEF AbortJob
  <2>2. /\ UsableSlotsServed' /\ ActiveShardsEnabled' /\ Usable(db') = Usable(db)
        /\ \A s \in Usable(db) : db'.slot[s].secret = db.slot[s].secret
    BY <1>0, <2>1, AbortNotSeen, ServedUnseen
  <2>3. CASE Quit
    BY <2>2, <2>3, QuitServes
  <2>4. CASE GoTo("r_restart", Old) /\ job' = job
    <3>1. pc' = "r_restart" /\ left' = Old /\ Old' = Old
      BY <2>4 DEF GoTo, Old
    <3>2. OldFilesServe'
      BY <1>0, <2>1, <2>2, <2>4, <3>1 DEF OldFilesServe
    <3>3. LoopsInJob' /\ JobCovers' /\ WrittenSoFar' /\ EnabledSoFar'
      BY <1>0, <2>4, <3>1 DEF LoopsInJob, JobCovers, WrittenSoFar, EnabledSoFar
    <3> QED
      BY <2>2, <3>2, <3>3 DEF Serving
  <2> QED
    BY <1>5, <2>3, <2>4 DEF AbortJob
<1>6. CASE RestartOldShards
  <2>1. /\ pc = "r_restart" /\ UNCHANGED <<db, profiles, env, relay, enabled>>
        /\ \/ proc' = proc
           \/ \E h \in left : proc' = Patch(proc, {h}, Nothing) \/ proc' = Patch(proc, {h}, env)
        /\ \/ Quit
           \/ /\ pc' \in {"r_restart", "r_relay"} /\ job' = job
              /\ pc' = "r_restart" => left' \subseteq left
    BY <1>6 DEF RestartOldShards, Restarted, Down, GoTo, LoopTo, Visited, files
  <2>2. \A s \in Slots : proc'[s] \in {0, proc[s], env[s]}
    <3>1. CASE proc' = proc
      BY <3>1
    <3>2. ASSUME NEW h \in left,
                 proc' = Patch(proc, {h}, Nothing) \/ proc' = Patch(proc, {h}, env)
          PROVE  \A s \in Slots : proc'[s] \in {0, proc[s], env[s]}
      BY <3>2, PatchIs, NothingIs
    <3> QED
      BY <2>1, <3>1, <3>2
  <2>3. UsableSlotsServed' /\ ActiveShardsEnabled'
    BY <1>0, <2>1, <2>2, ServedAgain DEF ActiveShardsEnabled, ShardsIn
  <2>4. CASE Quit
    BY <2>3, <2>4, QuitServes
  <2>5. CASE pc' \in {"r_restart", "r_relay"} /\ job' = job /\ (pc' = "r_restart" => left' \subseteq left)
    <3>1. JobCovers' /\ OldFilesServe'
      BY <1>0, <2>1, <2>5, InsideApply
    <3>2. LoopsInJob' /\ WrittenSoFar' /\ EnabledSoFar'
      BY <1>0, <2>1, <2>5 DEF LoopsInJob, WrittenSoFar, EnabledSoFar, Old
    <3> QED
      BY <2>3, <3>1, <3>2 DEF Serving
  <2> QED
    BY <2>1, <2>4, <2>5
<1>7. CASE RestartOldRelay
  <2>1. /\ Quit /\ UNCHANGED <<db, profiles, env, proc, enabled>>
        /\ relay' \in {relay, Nothing, profiles}
    BY <1>7, StartRelayIs DEF RestartOldRelay, files
  <2>2. UsableSlotsServed' /\ ActiveShardsEnabled'
    BY <1>0, <2>1, ServedAgain DEF ActiveShardsEnabled, ShardsIn
  <2> QED
    BY <2>1, <2>2, QuitServes
<1> QED
  BY <1>1, <1>2, <1>3, <1>4, <1>5, <1>6, <1>7 DEF Rollback

(* Between any two steps a process may die, and come back with the files.  *)
LEMMA EnvironmentServes == IInv /\ IInv' /\ Serving /\ Environment => Serving'
<1> SUFFICES ASSUME IInv, IInv', Serving, Environment PROVE Serving'
  OBVIOUS
<1>0. /\ UsableSlotsServed /\ ActiveShardsEnabled /\ LoopsInJob /\ JobCovers
      /\ OldFilesServe /\ WrittenSoFar /\ EnabledSoFar
      /\ \A s \in Usable(db) : s \in Slots
  BY DEF Serving, Usable
<1>1. UNCHANGED <<db, profiles, env, enabled>>
  BY DEF Environment, MaintainerDies, RelayDies, ShardDies, RelayRespawns, ShardRespawns,
         Reboot, files, units
<1>2. relay' \in {relay, Nothing, profiles}
  BY StartRelayIs DEF Environment, MaintainerDies, RelayDies, ShardDies, RelayRespawns,
                      ShardRespawns, Reboot, units
<1>3. \A s \in Slots : proc'[s] \in {0, proc[s], env[s]}
  <2>1. CASE proc' = proc
    BY <2>1
  <2>2. ASSUME NEW h, proc' = Patch(proc, {h}, Nothing) \/ proc' = Patch(proc, {h}, env)
        PROVE  \A s \in Slots : proc'[s] \in {0, proc[s], env[s]}
    BY <2>2, PatchIs, NothingIs
  <2>3. CASE proc' = Patch(Nothing, enabled, env)
    BY <2>3, PatchIs, NothingIs
  <2> QED
    BY <2>1, <2>2, <2>3 DEF Environment, MaintainerDies, RelayDies, ShardDies, RelayRespawns,
                            ShardRespawns, Reboot, units, Down, Restarted
<1>4. UsableSlotsServed' /\ ActiveShardsEnabled'
  BY <1>0, <1>1, <1>2, <1>3, ServedAgain DEF ActiveShardsEnabled, ShardsIn
<1>5. CASE Quit
  BY <1>4, <1>5, QuitServes
<1>6. CASE UNCHANGED maintainer
  <2>1. UNCHANGED <<pc, job, left>>
    BY <1>6 DEF maintainer
  <2>2. JobCovers' /\ OldFilesServe'
    BY <1>0, <1>1, <2>1, InsideApply
  <2>3. LoopsInJob' /\ EnabledSoFar'
    BY <1>0, <1>1, <2>1 DEF LoopsInJob, EnabledSoFar, Old
  <2>4. WrittenSoFar'
    BY <1>0, <1>1, <1>2, <1>3, <2>1
       DEF WrittenSoFar, ForwardSteps, Render, InJob
  <2> QED
    BY <1>4, <2>2, <2>3, <2>4 DEF Serving
<1> QED
  BY <1>5, <1>6 DEF Environment, MaintainerDies, RelayDies, ShardDies, RelayRespawns,
                    ShardRespawns, Reboot

LEMMA SubscriberServes == IInv /\ IInv' /\ Serving /\ Subscriber => Serving'
<1> SUFFICES ASSUME IInv, IInv', Serving, Subscriber PROVE Serving'
  OBVIOUS
<1>1. /\ db'.shard = db.shard
      /\ \A s \in Slots : /\ db'.slot[s].secret = db.slot[s].secret
                          /\ db'.slot[s].pending = db.slot[s].pending
                          /\ db'.slot[s].status \in {"free", "assigned"} =>
                               db.slot[s].status \in {"free", "assigned"}
      /\ UNCHANGED <<profiles, env, relay, proc, enabled, pc, job, left>>
  BY SubscriberKeeps DEF IInv, files, units, maintainer
<1>2. Usable(db') \subseteq Usable(db) /\ Usable(db') \subseteq Slots
  BY <1>1 DEF Usable
<1>3. /\ Render(db') = Render(db) /\ Existing(db') = Existing(db)
      /\ \A st : ShardsIn(db', st) = ShardsIn(db, st)
  BY <1>1 DEF Render, Existing, ShardsIn
<1>4. UsableSlotsServed'
  BY <1>1, <1>2, UsableIs DEF Serving, UsableSlotsServed
<1>5. ActiveShardsEnabled' /\ LoopsInJob' /\ EnabledSoFar'
  BY <1>1, <1>3 DEF Serving, ActiveShardsEnabled, LoopsInJob, EnabledSoFar, Old
<1>6. JobCovers' /\ WrittenSoFar'
  BY <1>1, <1>3 DEF Serving, JobCovers, WrittenSoFar, InJob
<1>7. OldFilesServe'
  BY <1>1, <1>2 DEF Serving, OldFilesServe
<1> QED
  BY <1>4, <1>5, <1>6, <1>7 DEF Serving

LEMMA MaintainServes ==
  ASSUME IInv, IInv', Serving, NEW n \in Int, Maintain(n)
  PROVE  Serving'
<1> DEFINE restart == DirtyShards(Prepare(db))
           new == NewShards(Prepare(db), n)
<1>1. /\ Visible(db') = Visible(db)
      /\ ShardsIn(db', "staged") = new
      /\ restart \cup new \subseteq Existing(db')
      /\ \A s \in Slots :
           /\ db'.slot[s].pending # 0 => ShardOf(s) \in restart
           /\ db'.shard[ShardOf(s)] = "active" /\ ShardOf(s) \notin restart => s \in Usable(db')
  BY MaintainMakes DEF IInv
<1>2. /\ UNCHANGED <<files, units>> /\ pc = "idle"
      /\ \/ restart \cup new = {} /\ UNCHANGED maintainer
         \/ /\ restart \cup new # {} /\ pc' = "render" /\ left' = {}
            /\ job' = [NoJob EXCEPT !.shards = restart \cup new, !.new = new]
  BY DEF Maintain
<1> HIDE DEF restart, new
<1>3. UsableSlotsServed' /\ ActiveShardsEnabled'
  BY <1>1, <1>2, ServedUnseen DEF IInv, Serving
<1>4. CASE UNCHANGED maintainer
  BY <1>2, <1>3, <1>4 DEF Serving, LoopsInJob, JobCovers, OldFilesServe, WrittenSoFar,
        EnabledSoFar, maintainer, ForwardSteps, RollbackSteps, Applying, BeforeAbort
<1>5. CASE /\ restart \cup new # {} /\ pc' = "render" /\ left' = {}
           /\ job' = [NoJob EXCEPT !.shards = restart \cup new, !.new = new]
  <2>1. job'.shards = restart \cup new /\ job'.new = new
    BY <1>5 DEF NoJob
  <2>2. \A s \in Slots :
          db'.shard[ShardOf(s)] = "active" /\ ShardOf(s) \notin job'.shards =>
            env'[s] = Render(db')[s]
    <3>1. \A s \in Usable(db') : env'[s] = db'.slot[s].secret
      BY <1>3, UsableIs DEF UsableSlotsServed
    <3>2. \A s \in Usable(db') : Render(db')[s] = db'.slot[s].secret
      BY UsableRendered DEF IInv
    <3> QED
      BY <1>1, <2>1, <3>1, <3>2
  <2>3. JobCovers'
    BY <1>1, <1>5, <2>1, <2>2 DEF JobCovers, InJob, BeforeAbort
  <2>4. LoopsInJob' /\ OldFilesServe' /\ WrittenSoFar' /\ EnabledSoFar'
    BY <1>5, <2>1 DEF LoopsInJob, OldFilesServe, WrittenSoFar, EnabledSoFar,
                      ForwardSteps, RollbackSteps
  <2> QED
    BY <1>3, <2>3, <2>4 DEF Serving
<1> QED
  BY <1>2, <1>4, <1>5

LEMMA ServingStep == IInv /\ IInv' /\ Serving /\ [Next]_vars => Serving'
<1> SUFFICES ASSUME IInv, IInv', Serving, [Next]_vars PROVE Serving'
  OBVIOUS
<1>1. CASE Subscriber
  BY <1>1, SubscriberServes
<1>2. CASE AutoMaintain \/ ForcedMaintain
  <2>1. \E n \in Int : Maintain(n)
    BY <1>2, AutoGrowthType, BoundConstants DEF AutoMaintain, ForcedMaintain
  <2> QED
    BY <2>1, MaintainServes
<1>3. CASE Refused \/ UNCHANGED vars
  <2>1. UNCHANGED vars
    BY <1>3 DEF Refused
  <2> QED
    BY <2>1 DEF vars, Serving, UsableSlotsServed, ActiveShardsEnabled, LoopsInJob, JobCovers,
                OldFilesServe, WrittenSoFar, EnabledSoFar, Old, InJob
<1>4. CASE ApplyStep
  BY <1>4, ForwardServes, RollbackServes DEF ApplyStep
<1>5. CASE Environment
  BY <1>5, EnvironmentServes
<1> QED
  BY <1>1, <1>2, <1>3, <1>4, <1>5 DEF Next

LEMMA ServingInitially == Init => Serving
<1> SUFFICES ASSUME Init PROVE Serving
  OBVIOUS
<1>1. /\ \A h \in Shards : db.shard[h] = "none"
      /\ pc = "idle" /\ job.new = {} /\ job.shards = {}
  BY DEF Init, EmptyDatabase, NoJob
<1>2. Usable(db) = {} /\ ShardsIn(db, "active") = {}
  BY <1>1, ShardOfType DEF Usable, ShardsIn
<1>3. UsableSlotsServed /\ ActiveShardsEnabled
  BY <1>2, UsableIs DEF UsableSlotsServed, ActiveShardsEnabled
<1> QED
  BY <1>1, <1>3 DEF Serving, LoopsInJob, JobCovers, OldFilesServe, WrittenSoFar, EnabledSoFar,
                    ForwardSteps, RollbackSteps, Applying, BeforeAbort

LEMMA ServingHolds == Spec => []Serving
<1>1. IInv /\ IInv' /\ Serving /\ [Next]_vars => Serving'
  BY ServingStep
<1> QED
  BY ServingInitially, InvariantHolds, <1>1, PTL DEF Spec

(* A slot that somebody has or can get is in both files under its secret,  *)
(* and the relay and the MTProxy of its shard, when they are up, accept    *)
(* it: whatever steps of maintain() and of its rollback fail, whoever dies *)
(* between two of them, and whoever takes and gives back slots meanwhile.  *)
THEOREM UsableSlotsAreServed == Spec => []UsableSlotsServed
<1>1. Serving => UsableSlotsServed
  BY DEF Serving
<1> QED
  BY <1>1, ServingHolds, PTL

(* systemd starts the units of all active shards after a reboot: they are  *)
(* enabled before the commit, and the rollback only disables new shards.   *)
THEOREM ActiveShardsStayEnabled == Spec => []ActiveShardsEnabled
<1>1. Serving => ActiveShardsEnabled
  BY DEF Serving
<1> QED
  BY <1>1, ServingHolds, PTL

-----------------------------------------------------------------------------
(* The success of a maintenance, whatever happened before it.              *)

FitsSoFar ==
    /\ pc \in ForwardSteps => Fits(job.want, job.limit)
    /\ pc \in ForwardSteps \ {"profiles", "config"} => relayLimit = job.limit

LEMMA RenderFits ==
  ASSUME IInv, RenderAndCheck PROVE FitsSoFar'
<1>1. job \in Job /\ Good(db, handed)
  BY DEF IInv, TypeOK
<1>2. CASE job' = Wanted /\ pc' = "profiles"
  <2>1. /\ job'.want = Render(db)
        /\ job'.limit = TheLarger(BaseProfiles, Cardinality(Entries(Render(db))))
    BY <1>1, <1>2 DEF Wanted, Job
  <2>2. Fits(job.want, job.limit)'
    BY <2>1, EntriesType, BoundConstants DEF Fits, TheLarger
  <2> QED
    BY <1>2, <2>2 DEF FitsSoFar, ForwardSteps
<1>3. CASE pc' = "idle"
  BY <1>3 DEF FitsSoFar, ForwardSteps
<1> QED
  BY <1>2, <1>3 DEF RenderAndCheck, GoTo, Quit

LEMMA ForwardFits ==
  ASSUME IInv, FitsSoFar, Forward PROVE FitsSoFar'
<1> USE DEF ForwardSteps, RollbackSteps
<1>1. CASE RenderAndCheck
  BY <1>1, RenderFits
<1>2. CASE WriteProfiles
  BY <1>2 DEF WriteProfiles, Fail, FailTo, GoTo, FitsSoFar, Fits
<1>3. CASE WriteConfig
  BY <1>3 DEF WriteConfig, Fail, FailTo, GoTo, FitsSoFar, Fits
<1>4. CASE WriteEnvs
  BY <1>4 DEF WriteEnvs, Fail, FailTo, GoTo, LoopTo, Visited, FitsSoFar, Fits
<1>5. CASE SyncFirewall \/ EnableShards
  BY <1>5 DEF SyncFirewall, EnableShards, Fail, FailTo, GoTo, LoopTo, Visited, files,
              FitsSoFar, Fits
<1>6. CASE RestartShards \/ RestartRelay
  BY <1>6 DEF RestartShards, RestartRelay, Fail, FailTo, GoTo, LoopTo, Visited, files,
              FitsSoFar, Fits
<1>7. CASE WaitHealthy
  BY <1>7 DEF WaitHealthy, Fail, FailTo, GoTo, LoopTo, files, FitsSoFar, Fits
<1>8. CASE CommitJob
  BY <1>8 DEF CommitJob, Quit, GoTo, FitsSoFar
<1> QED
  BY <1>1, <1>2, <1>3, <1>4, <1>5, <1>6, <1>7, <1>8 DEF Forward

(* No other step enters apply()'s way forward.                             *)
LEMMA OthersFit ==
  ASSUME IInv, FitsSoFar, [Next]_vars, ~Forward PROVE FitsSoFar'
<1> USE DEF ForwardSteps, RollbackSteps
<1>1. CASE Subscriber
  BY <1>1, SubscriberKeeps DEF IInv, files, maintainer, FitsSoFar, Fits
<1>2. CASE AutoMaintain \/ ForcedMaintain
  BY <1>2 DEF AutoMaintain, ForcedMaintain, Maintain, maintainer, FitsSoFar
<1>3. CASE Refused \/ UNCHANGED vars
  BY <1>3 DEF Refused, vars, FitsSoFar, Fits
<1>4. CASE Rollback
  BY <1>4 DEF Rollback, RestoreProfiles, RestoreConfig, RestoreEnvs, StopNewShards, AbortJob,
              RestartOldShards, RestartOldRelay, FailTo, GoTo, LoopTo, Visited, Quit, FitsSoFar
<1>5. CASE Environment
  BY <1>5 DEF Environment, MaintainerDies, RelayDies, ShardDies, RelayRespawns, ShardRespawns,
              Reboot, Quit, GoTo, files, maintainer, FitsSoFar, Fits
<1> QED
  BY <1>1, <1>2, <1>3, <1>4, <1>5 DEF Next, ApplyStep

LEMMA FitsHolds == Spec => []FitsSoFar
<1>1. Init => FitsSoFar
  BY DEF Init, FitsSoFar, ForwardSteps
<1>2. IInv /\ FitsSoFar /\ [Next]_vars => FitsSoFar'
  BY ForwardFits, OthersFit
<1> QED
  BY <1>1, <1>2, InvariantHolds, PTL DEF Spec

(* The commit leaves nothing pending: the new database asks for what the   *)
(* staged one asked for.                                                   *)
LEMMA CommitRenders ==
  ASSUME NEW d, NEW g, Good(d, g) PROVE Render(CommitStaged(d)) = Render(d)
<1> DEFINE e == CommitStaged(d)
           renewed(s) == d.slot[s].pending # 0 /\ d.slot[s].status = "dirty"
<1>1. \A s \in Slots : e.slot[s] = IF renewed(s)
        THEN [status |-> "free", secret |-> d.slot[s].pending, pending |-> 0]
        ELSE d.slot[s]
  BY DEF CommitStaged
<1> HIDE DEF e
<1>2. ASSUME NEW s \in Slots PROVE Render(e)[s] = Render(d)[s]
  <2>1. SlotOK(d.slot[s], d.shard[ShardOf(s)], d.minted[s], g[s])
    BY DEF Good
  <2>2. CASE renewed(s)
    <3>1. e.slot[s] = [status |-> "free", secret |-> d.slot[s].pending, pending |-> 0]
      BY <1>1, <2>2
    <3>2. e.slot[s].secret = d.slot[s].pending /\ e.slot[s].pending = 0
      BY <3>1
    <3> QED
      BY <2>2, <3>2, RenderIs
  <2>3. CASE ~renewed(s)
    BY <1>1, <2>3, RenderIs
  <2> QED
    BY <2>2, <2>3
<1>3. /\ Render(e) = [s \in Slots |-> Render(e)[s]]
      /\ Render(d) = [s \in Slots |-> Render(d)[s]]
  BY DEF Render
<1>4. Render(e) = Render(d)
  BY <1>2, <1>3
<1> QED
  BY <1>4 DEF e

LEMMA CommitLeavesWhole ==
  ASSUME IInv, Serving, FitsSoFar, CommitJob, db' # db
  PROVE  /\ profiles = Render(db')
         /\ \A s \in Slots : db'.shard[ShardOf(s)] = "active" => env[s] = profiles[s]
         /\ Cardinality(Entries(profiles)) <= relayLimit
         /\ relay \in {Nothing, profiles}
<1> USE DEF ForwardSteps, Applying
<1>1. /\ pc = "commit" /\ db' = CommitStaged(db) /\ Good(db, handed)
      /\ JobCovers /\ LoopsInJob /\ WrittenSoFar
  BY DEF CommitJob, IInv, Serving
<1>2. /\ profiles = Render(db) /\ job.want = Render(db) /\ relay \in {Nothing, profiles}
      /\ relayLimit = job.limit /\ Fits(profiles, relayLimit)
      /\ \A s \in Slots : InJob(s) => env[s] = Render(db)[s]
  BY <1>1 DEF WrittenSoFar, FitsSoFar
<1>3. \A h \in Shards : db'.shard[h] = IF db.shard[h] = "staged" THEN "active" ELSE db.shard[h]
  BY <1>1, CommitMakes
<1>4. ASSUME NEW s \in Slots, db'.shard[ShardOf(s)] = "active", ~InJob(s)
      PROVE  env[s] = Render(db)[s]
  <2>1. db.shard[ShardOf(s)] = "active"
    BY <1>1, <1>3, <1>4, ShardOfType DEF JobCovers, LoopsInJob, ShardsIn, InJob
  <2> QED
    BY <1>1, <1>4, <2>1 DEF JobCovers
<1>5. Render(db') = Render(db)
  BY <1>1, CommitRenders
<1> QED
  BY <1>2, <1>4, <1>5 DEF Fits

(* Whatever failed, was killed or rebooted before it, a maintenance that   *)
(* commits its work leaves profiles.json, relay.json and the environment   *)
(* files of the active shards in agreement with the database, and a relay  *)
(* that can start with them.                                               *)
THEOREM SuccessAlwaysRepairs == Spec => SuccessRepairs
<1>1. ASSUME IInv, Serving, FitsSoFar, [Next]_vars, pc = "commit", pc' = "idle", db' # db
      PROVE  CommitJob
  <2> USE DEF ForwardSteps, RollbackSteps
  <2>1. ~Subscriber
    BY <1>1, SubscriberKeeps DEF IInv, maintainer
  <2>2. ~(AutoMaintain \/ ForcedMaintain \/ Refused \/ UNCHANGED vars)
    BY <1>1 DEF AutoMaintain, ForcedMaintain, Maintain, Refused, vars
  <2>3. ~Environment
    BY <1>1 DEF Environment, MaintainerDies, RelayDies, ShardDies, RelayRespawns, ShardRespawns,
                Reboot
  <2>4. ~Rollback
    BY <1>1 DEF Rollback, RestoreProfiles, RestoreConfig, RestoreEnvs, StopNewShards, AbortJob,
                RestartOldShards, RestartOldRelay
  <2>5. Forward => CommitJob
    BY <1>1 DEF Forward, RenderAndCheck, WriteProfiles, WriteConfig, WriteEnvs, SyncFirewall,
                EnableShards, RestartShards, RestartRelay, WaitHealthy
  <2> QED
    BY <1>1, <2>1, <2>2, <2>3, <2>4, <2>5 DEF Next, ApplyStep
<1>2. IInv /\ Serving /\ FitsSoFar /\ [Next]_vars =>
        [(pc = "commit" /\ pc' = "idle" /\ db' # db) =>
            /\ profiles = Render(db')
            /\ \A s \in Slots : db'.shard[ShardOf(s)] = "active" => env[s] = profiles[s]
            /\ Cardinality(Entries(profiles)) <= relayLimit
            /\ relay \in {Nothing, profiles}]_vars
  BY <1>1, CommitLeavesWhole
<1> QED
  BY <1>2, InvariantHolds, ServingHolds, FitsHolds, PTL DEF Spec, SuccessRepairs

-----------------------------------------------------------------------------
(* Repairing is kept.  In the lemmas at most one step has failed by the    *)
(* end of the step at hand, and nobody has died.                           *)

LEMMA StartRelayFits == ASSUME NEW f, NEW limit, Fits(f, limit) PROVE StartRelay(f, limit) = f
  BY DEF Fits, StartRelay

LEMMA SlotOfShard == \A h \in Shards : <<h, 0>> \in Slots /\ ShardOf(<<h, 0>>) = h
  BY ParametersType DEF Slots, Indexes, ShardOf

(* Files alike in every slot are the same file.                            *)
LEMMA MapsEqual ==
  ASSUME NEW f \in SecretMap, NEW g \in SecretMap, \A s \in Slots : f[s] = g[s]
  PROVE  f = g
  BY DEF SecretMap

(* The first failure: from here on every step succeeds.                    *)
LEMMA FirstFault == ASSUME IInv, MayFail, FewFaults' PROVE faults = 0 /\ faults' = 1 /\ FewFaults
  BY DEF IInv, TypeOK, MayFail, FewFaults

LEMMA FailRepairs ==
  ASSUME IInv, Serving, OldState, FewFaults', Fail, pc \in ForwardSteps, UNCHANGED db,
         \A s \in Slots : ~InJob(s) => env'[s] = env[s] /\ proc'[s] = proc[s]
  PROVE  AllRepairing'
<1> USE DEF ForwardSteps, RollbackSteps, Applying
<1>1. faults = 0 /\ faults' = 1 /\ pc' = "r_profiles" /\ job' = job
  BY FirstFault DEF Fail, FailTo, GoTo
<1>2. ASSUME NEW s \in Slots, ShardOf(s) \in job.new PROVE job.prevEnv[s] = 0
  <2>1. db.shard[ShardOf(s)] # "active"
    BY <1>2 DEF Serving, JobCovers, ShardsIn
  <2> QED
    BY <1>1, <2>1 DEF OldState, Bare
<1>3. OldState'
  BY <1>1 DEF OldState, Agree, Fits, InJob
<1>4. AtRest' /\ GoingForward' /\ GoingBack'
  BY <1>1, <1>2 DEF AtRest, GoingForward, GoingBack
<1> QED
  BY <1>3, <1>4 DEF AllRepairing

(* Steps of apply() that succeed and leave the database.                   *)
LEMMA OldStateKept ==
  ASSUME OldState, UNCHANGED <<db, job, faults>>, pc \in ForwardSteps \cup RollbackSteps,
         \A s \in Slots : ~InJob(s) => env'[s] = env[s] /\ proc'[s] = proc[s]
  PROVE  OldState'
  BY DEF OldState, Agree, Fits, Bare, InJob

LEMMA QuitRepairs ==
  ASSUME Quit, Consistent', faults' = 0 => Bare(env)' /\ ShardsIn(db, "staged")' = {}
  PROVE  AllRepairing'
<1>1. pc' = "idle"
  BY DEF Quit, GoTo
<1> QED
  BY <1>1 DEF AllRepairing, AtRest, OldState, GoingForward, GoingBack, ForwardSteps, RollbackSteps

LEMMA RenderRepairs ==
  ASSUME IInv, IInv', Serving, AllRepairing, FewFaults', RenderAndCheck PROVE AllRepairing'
<1>1. /\ pc = "render" /\ UNCHANGED <<handed, files, units>>
      /\ job \in Job /\ Good(db, handed) /\ Good(db', handed')
      /\ Consistent /\ (faults = 0 => Bare(env))
      /\ UsableSlotsServed /\ ActiveShardsEnabled
  BY DEF RenderAndCheck, IInv, TypeOK, AllRepairing, AtRest, Serving
<1>2. CASE MayFail /\ Quit
  <2>1. Visible(db') = Visible(db)
    BY <1>1, AbortNotSeen DEF RenderAndCheck
  <2>2. \A s \in Slots : db'.shard[ShardOf(s)] = "active" <=> db.shard[ShardOf(s)] = "active"
    BY <1>1, <2>1, SeenAlike DEF Good
  <2>3. Consistent'
    BY <1>1, <2>2 DEF Consistent, Agree, Fits, files, units
  <2> QED
    BY <1>2, <2>3, QuitRepairs, FirstFault
<1>3. CASE db' = db /\ job' = Wanted /\ GoTo("profiles", {}) /\ UNCHANGED counters
  <2>1. /\ job'.shards = job.shards /\ job'.new = job.new /\ job'.want = Render(db)
        /\ job'.limit = TheLarger(BaseProfiles, Cardinality(Entries(Render(db))))
        /\ job'.prevProfiles = profiles /\ job'.prevLimit = relayLimit /\ job'.prevEnv = env
        /\ pc' = "profiles" /\ faults' = faults
        /\ UNCHANGED <<profiles, relayLimit, env, relay, proc>>
    BY <1>1, <1>3 DEF Wanted, Job, GoTo, counters, files, units
  <2>2. Fits(job.want, job.limit)'
    BY <2>1, EntriesType, BoundConstants DEF Fits, TheLarger
  <2>3. AtRest'
    BY <1>1, <1>3, <2>1 DEF AtRest, Consistent, Agree, Fits
  <2>4. OldState'
    BY <1>1, <1>3, <2>1 DEF OldState, Consistent, Agree, Fits, Bare
  <2>5. GoingForward' /\ GoingBack'
    BY <2>1, <2>2 DEF GoingForward, GoingBack, ForwardSteps, RollbackSteps
  <2> QED
    BY <2>3, <2>4, <2>5 DEF AllRepairing
<1> QED
  BY <1>2, <1>3 DEF RenderAndCheck

LEMMA CommitRepairs ==
  ASSUME IInv, IInv', Serving, AllRepairing, FewFaults', CommitJob PROVE AllRepairing'
<1> USE DEF ForwardSteps, Applying
<1>1. /\ pc = "commit" /\ Quit /\ UNCHANGED <<handed, files, units>>
      /\ Good(db, handed) /\ db \in Database
      /\ profiles \in SecretMap /\ env \in SecretMap /\ proc \in SecretMap
      /\ JobCovers /\ LoopsInJob /\ WrittenSoFar /\ OldState /\ GoingForward
  BY DEF CommitJob, IInv, TypeOK, Serving, AllRepairing
<1>2. /\ job.want = Render(db) /\ profiles = job.want /\ relay = job.want
      /\ Fits(profiles, relayLimit)
      /\ \A s \in Slots : InJob(s) => env[s] = job.want[s] /\ proc[s] = env[s]
      /\ \A s \in Slots : ~InJob(s) => env[s] = job.prevEnv[s] /\ proc[s] = env[s]
  BY <1>1 DEF WrittenSoFar, GoingForward, OldState
<1>3. relay = profiles /\ proc = env
  BY <1>1, <1>2, MapsEqual
<1>4. \A s \in Slots : db.shard[ShardOf(s)] \in {"active", "staged"} => profiles[s] = env[s]
  <2> SUFFICES ASSUME NEW s \in Slots, db.shard[ShardOf(s)] \in {"active", "staged"}, ~InJob(s)
               PROVE  profiles[s] = env[s]
    BY <1>2
  <2>1. db.shard[ShardOf(s)] = "active"
    BY <1>1, ShardOfType DEF JobCovers, LoopsInJob, ShardsIn, InJob
  <2> QED
    BY <1>1, <1>2, <2>1 DEF JobCovers
<1>5. CASE db' = db /\ MayFail
  <2>1. Consistent'
    BY <1>1, <1>2, <1>3, <1>4, <1>5 DEF Consistent, Agree, Fits, files, units
  <2> QED
    BY <1>1, <1>5, <2>1, QuitRepairs, FirstFault
<1>6. CASE db' = CommitStaged(db) /\ UNCHANGED counters
  <2>1. \A h \in Shards : db'.shard[h] = IF db.shard[h] = "staged" THEN "active" ELSE db.shard[h]
    BY <1>1, <1>6, CommitMakes
  <2>2. Consistent'
    BY <1>1, <1>2, <1>3, <1>4, <2>1, ShardOfType DEF Consistent, Agree, Fits, files, units
  <2>3. ShardsIn(db, "staged")' = {}
    BY <2>1 DEF ShardsIn
  <2>4. ASSUME faults = 0, NEW s \in Slots, db'.shard[ShardOf(s)] # "active" PROVE env[s] = 0
    <3>1. db.shard[ShardOf(s)] \in ShardStates /\ db.shard[ShardOf(s)] \notin {"active", "staged"}
      BY <1>1, <2>1, <2>4, ShardOfType DEF Database
    <3>2. ~InJob(s)
      BY <1>1, <3>1 DEF JobCovers, Existing, InJob, ShardStates
    <3> QED
      BY <1>1, <1>2, <2>4, <3>1, <3>2 DEF OldState, Bare
  <2>5. faults' = 0 => Bare(env)'
    BY <1>1, <1>6, <2>4 DEF Bare, counters, files
  <2> QED
    BY <1>1, <2>2, <2>3, <2>5, QuitRepairs
<1> QED
  BY <1>5, <1>6 DEF CommitJob

(* Once everything has been restarted, wait_healthy finds it running: each *)
(* shard of the job has a row, and each row a secret.                      *)
LEMMA AllHealthy ==
  ASSUME IInv, Serving, GoingForward, pc = "health" PROVE \A u \in left : Healthy(u)
<1> USE DEF ForwardSteps, Applying
<1>1. /\ job.shards # {} /\ job.shards \subseteq Existing(db) /\ job.want = Render(db)
      /\ left \subseteq job.shards \cup {RelayUnit}
      /\ \A s \in Slots : InJob(s) => proc[s] = job.want[s]
      /\ relay = job.want
  BY DEF Serving, JobCovers, LoopsInJob, WrittenSoFar, GoingForward
<1>2. ASSUME NEW h \in job.shards
      PROVE  <<h, 0>> \in Slots /\ ShardOf(<<h, 0>>) = h /\ job.want[<<h, 0>>] # 0
  <2>1. h \in Shards /\ db.shard[h] # "none"
    BY <1>1, <1>2 DEF Existing
  <2>2. <<h, 0>> \in Slots /\ ShardOf(<<h, 0>>) = h
    BY <2>1, SlotOfShard
  <2> QED
    BY <1>1, <2>1, <2>2, ExistingRendered DEF IInv
<1>3. ASSUME NEW h \in job.shards PROVE \E s \in Slots : ShardOf(s) = h /\ proc[s] # 0
  BY <1>1, <1>2, <1>3 DEF InJob
<1>4. relay # Nothing
  <2>1. PICK h \in job.shards : TRUE
    BY <1>1
  <2>2. <<h, 0>> \in Slots /\ relay[<<h, 0>>] # 0
    BY <1>1, <1>2
  <2> QED
    BY <2>2, NothingIs
<1> QED
  BY <1>1, <1>3, <1>4 DEF Healthy

LEMMA ForwardRepairs ==
  ASSUME IInv, IInv', Serving, AllRepairing, FewFaults', Forward PROVE AllRepairing'
<1> USE DEF ForwardSteps, RollbackSteps, Applying, counters
<1>0. /\ LoopsInJob /\ JobCovers /\ WrittenSoFar /\ EnabledSoFar
      /\ AtRest /\ OldState /\ GoingForward /\ GoingBack
  BY DEF Serving, AllRepairing
<1>1. CASE RenderAndCheck
  BY <1>1, RenderRepairs
<1>2. CASE WriteProfiles
  <2>1. pc = "profiles" /\ UNCHANGED <<db, relayLimit, env, relay, proc, enabled>>
    BY <1>2 DEF WriteProfiles, units
  <2>2. CASE Fail
    BY <1>0, <2>1, <2>2, FailRepairs
  <2>3. CASE profiles' = job.want /\ GoTo("config", {}) /\ UNCHANGED <<job, counters>>
    <3>1. OldState'
      BY <1>0, <2>1, <2>3, OldStateKept
    <3>2. AtRest' /\ GoingForward' /\ GoingBack'
      BY <1>0, <2>1, <2>3 DEF GoTo, AtRest, GoingForward, GoingBack, Fits
    <3> QED
      BY <3>1, <3>2 DEF AllRepairing
  <2> QED
    BY <1>2, <2>2, <2>3 DEF WriteProfiles
<1>3. CASE WriteConfig
  <2>1. pc = "config" /\ UNCHANGED <<db, profiles, env, relay, proc, enabled>>
    BY <1>3 DEF WriteConfig, units
  <2>2. CASE Fail
    BY <1>0, <2>1, <2>2, FailRepairs
  <2>3. CASE relayLimit' = job.limit /\ GoTo("envs", job.shards) /\ UNCHANGED <<job, counters>>
    <3>1. OldState'
      BY <1>0, <2>1, <2>3, OldStateKept
    <3>2. AtRest' /\ GoingForward' /\ GoingBack'
      BY <1>0, <2>1, <2>3 DEF GoTo, AtRest, GoingForward, GoingBack, Fits
    <3> QED
      BY <3>1, <3>2 DEF AllRepairing
  <2> QED
    BY <1>3, <2>2, <2>3 DEF WriteConfig
<1>4. CASE WriteEnvs
  <2>1. /\ pc = "envs" /\ UNCHANGED <<db, profiles, relayLimit, relay, proc, enabled>>
        /\ env' = env \/ \E h \in left : env' = Patch(env, {h}, job.want)
    BY <1>4 DEF WriteEnvs, units
  <2>2. \A s \in Slots : ~InJob(s) => env'[s] = env[s] /\ proc'[s] = proc[s]
    <3>1. left \subseteq job.shards
      BY <1>0, <2>1 DEF LoopsInJob
    <3>2. ASSUME NEW h \in left, env' = Patch(env, {h}, job.want)
          PROVE  \A s \in Slots : ~InJob(s) => env'[s] = env[s]
      BY <3>1, <3>2, PatchIs DEF InJob
    <3> QED
      BY <2>1, <3>2
  <2>3. CASE Fail
    BY <1>0, <2>1, <2>2, <2>3, FailRepairs
  <2>4. CASE pc' \in {"envs", "sync"} /\ UNCHANGED <<job, counters>>
    <3>1. OldState'
      BY <1>0, <2>1, <2>2, <2>4, OldStateKept
    <3>2. AtRest' /\ GoingForward' /\ GoingBack'
      BY <1>0, <2>1, <2>4 DEF AtRest, GoingForward, GoingBack, Fits
    <3> QED
      BY <3>1, <3>2 DEF AllRepairing
  <2> QED
    BY <1>4, <2>1, <2>3, <2>4 DEF WriteEnvs, LoopTo, GoTo, Visited
<1>5. CASE SyncFirewall
  <2>1. pc = "sync" /\ UNCHANGED <<db, profiles, relayLimit, env, relay, proc, enabled>>
    BY <1>5 DEF SyncFirewall, units, files
  <2>2. CASE Fail
    BY <1>0, <2>1, <2>2, FailRepairs
  <2>3. CASE LoopTo("enable", job.new)
    <3>1. OldState'
      BY <1>0, <2>1, <2>3, OldStateKept DEF LoopTo
    <3>2. AtRest' /\ GoingForward' /\ GoingBack'
      BY <1>0, <2>1, <2>3 DEF LoopTo, GoTo, AtRest, GoingForward, GoingBack, Fits
    <3> QED
      BY <3>1, <3>2 DEF AllRepairing
  <2> QED
    BY <1>5, <2>2, <2>3 DEF SyncFirewall
<1>6. CASE EnableShards
  <2>1. pc = "enable" /\ UNCHANGED <<db, profiles, relayLimit, env, relay, proc>>
    BY <1>6 DEF EnableShards, files
  <2>2. CASE Fail
    BY <1>0, <2>1, <2>2, FailRepairs
  <2>3. CASE /\ pc' \in {"enable", "restart"} /\ UNCHANGED <<job, counters>>
             /\ pc' = "restart" => left' = job.shards
    <3>1. OldState'
      BY <1>0, <2>1, <2>3, OldStateKept
    <3>2. AtRest' /\ GoingForward' /\ GoingBack'
      BY <1>0, <2>1, <2>3 DEF AtRest, GoingForward, GoingBack, Fits, InJob
    <3> QED
      BY <3>1, <3>2 DEF AllRepairing
  <2> QED
    BY <1>6, <2>1, <2>2, <2>3 DEF EnableShards, LoopTo, GoTo, Visited
<1>7. CASE RestartShards
  <2>1. /\ pc = "restart" /\ UNCHANGED <<db, profiles, relayLimit, env, relay, enabled>>
        /\ \/ proc' = proc
           \/ \E h \in left : proc' = Patch(proc, {h}, Nothing) \/ proc' = Patch(proc, {h}, env)
    BY <1>7 DEF RestartShards, Restarted, Down, files
  <2>2. \A s \in Slots : ~InJob(s) => env'[s] = env[s] /\ proc'[s] = proc[s]
    <3>1. left \subseteq job.shards
      BY <1>0, <2>1 DEF LoopsInJob
    <3>2. ASSUME NEW h \in left,
                 proc' = Patch(proc, {h}, Nothing) \/ proc' = Patch(proc, {h}, env)
          PROVE  \A s \in Slots : ~InJob(s) => proc'[s] = proc[s]
      BY <3>1, <3>2, PatchIs DEF InJob
    <3> QED
      BY <2>1, <3>2
  <2>3. CASE Fail
    BY <1>0, <2>1, <2>2, <2>3, FailRepairs
  <2>4. CASE /\ UNCHANGED <<job, counters>>
             /\ \/ pc' = "restart" /\ \E h \in left : left' = left \ {h} /\ proc' = Patch(proc, {h}, env)
                \/ pc' = "relay" /\ left = {} /\ proc' = proc
    <3>1. \A s \in Slots : InJob(s) /\ ShardOf(s) \notin left => proc[s] = env[s]
      BY <1>0, <2>1 DEF GoingForward
    <3>2. \A s \in Slots : InJob(s) /\ (pc' = "restart" => ShardOf(s) \notin left')
                             => proc'[s] = env'[s]
      <4>1. ASSUME NEW h \in left, left' = left \ {h}, proc' = Patch(proc, {h}, env)
            PROVE  \A s \in Slots : InJob(s) /\ ShardOf(s) \notin left' => proc'[s] = env[s]
        BY <3>1, <4>1, PatchIs
      <4> QED
        BY <2>1, <2>4, <3>1, <4>1
    <3>3. OldState'
      BY <1>0, <2>1, <2>2, <2>4, OldStateKept
    <3>4. AtRest' /\ GoingForward' /\ GoingBack'
      BY <1>0, <2>1, <2>4, <3>2 DEF AtRest, GoingForward, GoingBack, Fits, InJob
    <3> QED
      BY <3>3, <3>4 DEF AllRepairing
  <2> QED
    BY <1>7, <2>1, <2>3, <2>4 DEF RestartShards, Restarted, LoopTo, GoTo, Visited
<1>8. CASE RestartRelay
  <2>1. pc = "relay" /\ UNCHANGED <<db, profiles, relayLimit, env, proc, enabled>>
    BY <1>8 DEF RestartRelay, files
  <2>2. CASE Fail
    BY <1>0, <2>1, <2>2, FailRepairs
  <2>3. CASE /\ relay' = StartRelay(profiles, relayLimit)
             /\ GoTo("health", job.shards \cup {RelayUnit}) /\ UNCHANGED <<job, counters>>
    <3>1. relay' = job.want
      <4>1. profiles = job.want /\ relayLimit = job.limit /\ Fits(job.want, job.limit)
        BY <1>0, <2>1 DEF WrittenSoFar, GoingForward
      <4> QED
        BY <2>3, <4>1, StartRelayFits
    <3>2. OldState'
      BY <1>0, <2>1, <2>3, OldStateKept
    <3>3. AtRest' /\ GoingForward' /\ GoingBack'
      BY <1>0, <2>1, <2>3, <3>1 DEF GoTo, AtRest, GoingForward, GoingBack, Fits, InJob
    <3> QED
      BY <3>2, <3>3 DEF AllRepairing
  <2> QED
    BY <1>8, <2>2, <2>3 DEF RestartRelay
<1>9. CASE WaitHealthy
  <2>1. pc = "health" /\ UNCHANGED <<db, profiles, relayLimit, env, relay, proc, enabled>>
    BY <1>9 DEF WaitHealthy, files, units
  <2>2. CASE Fail
    BY <1>0, <2>1, <2>2, FailRepairs
  <2>3. CASE pc' \in {"health", "commit"} /\ UNCHANGED <<job, counters>>
    <3>1. OldState'
      BY <1>0, <2>1, <2>3, OldStateKept
    <3>2. AtRest' /\ GoingForward' /\ GoingBack'
      BY <1>0, <2>1, <2>3 DEF AtRest, GoingForward, GoingBack, Fits, InJob
    <3> QED
      BY <3>1, <3>2 DEF AllRepairing
  <2>4. \A u \in left : Healthy(u)
    BY <1>0, <2>1, AllHealthy
  <2> QED
    BY <1>9, <2>1, <2>2, <2>3, <2>4 DEF WaitHealthy, LoopTo, GoTo
<1>10. CASE CommitJob
  BY <1>10, CommitRepairs
<1> QED
  BY <1>1, <1>2, <1>3, <1>4, <1>5, <1>6, <1>7, <1>8, <1>9, <1>10 DEF Forward

(* A rollback after a failure: no second one may come.                     *)
LEMMA RollbackRepairs ==
  ASSUME IInv, IInv', Serving, AllRepairing, FewFaults', Rollback PROVE AllRepairing'
<1> USE DEF ForwardSteps, RollbackSteps, counters
<1>0. /\ LoopsInJob /\ AtRest /\ OldState /\ GoingForward /\ GoingBack
      /\ pc \in RollbackSteps /\ faults = 1
      /\ profiles \in SecretMap /\ env \in SecretMap /\ proc \in SecretMap
      /\ job.prevProfiles \in SecretMap /\ job.new \subseteq job.shards
      /\ Good(db, handed) /\ Good(db', handed')
  BY DEF IInv, TypeOK, Serving, AllRepairing, GoingBack, Rollback, Job, LoopsInJob,
         RestoreProfiles, RestoreConfig, RestoreEnvs, StopNewShards, AbortJob,
         RestartOldShards, RestartOldRelay
<1>1. ~MayFail
  BY <1>0, FirstFault
<1>2. CASE RestoreProfiles
  <2>1. /\ pc = "r_profiles" /\ pc' = "r_config" /\ profiles' = job.prevProfiles
        /\ UNCHANGED <<db, relayLimit, env, relay, proc, enabled, job, faults>>
    BY <1>1, <1>2 DEF RestoreProfiles, FailTo, GoTo, units
  <2>2. OldState'
    BY <1>0, <2>1, OldStateKept
  <2>3. AtRest' /\ GoingForward' /\ GoingBack'
    BY <1>0, <2>1 DEF AtRest, GoingForward, GoingBack
  <2> QED
    BY <2>2, <2>3 DEF AllRepairing
<1>3. CASE RestoreConfig
  <2>1. /\ pc = "r_config" /\ pc' = "r_envs" /\ relayLimit' = job.prevLimit /\ left' = job.shards
        /\ UNCHANGED <<db, profiles, env, relay, proc, enabled, job, faults>>
    BY <1>1, <1>3 DEF RestoreConfig, FailTo, GoTo, units
  <2>2. OldState'
    BY <1>0, <2>1, OldStateKept
  <2>3. AtRest' /\ GoingForward' /\ GoingBack'
    BY <1>0, <2>1 DEF AtRest, GoingForward, GoingBack, InJob
  <2> QED
    BY <2>2, <2>3 DEF AllRepairing
<1>4. CASE RestoreEnvs
  <2>1. /\ pc = "r_envs" /\ UNCHANGED <<db, profiles, relayLimit, relay, proc, enabled, job, faults>>
        /\ \/ pc' = "r_envs" /\ \E h \in left : left' = left \ {h} /\ env' = Patch(env, {h}, job.prevEnv)
           \/ pc' = "r_stop" /\ left = {} /\ left' = job.new /\ env' = env
    BY <1>1, <1>4 DEF RestoreEnvs, FailTo, GoTo, LoopTo, Visited, units
  <2>2. /\ left \subseteq job.shards
        /\ \A s \in Slots : InJob(s) /\ ShardOf(s) \notin left => env[s] = job.prevEnv[s]
    BY <1>0, <2>1 DEF LoopsInJob, GoingBack
  <2>3. ASSUME NEW h \in left, left' = left \ {h}, env' = Patch(env, {h}, job.prevEnv)
        PROVE  \A s \in Slots :
                 /\ InJob(s) /\ ShardOf(s) \notin left' => env'[s] = job.prevEnv[s]
                 /\ ~InJob(s) => env'[s] = env[s]
    BY <2>2, <2>3, PatchIs DEF InJob
  <2>4. \A s \in Slots :
          /\ InJob(s) /\ (pc' = "r_envs" => ShardOf(s) \notin left') => env'[s] = job.prevEnv[s]
          /\ ~InJob(s) => env'[s] = env[s]
    BY <2>1, <2>2, <2>3
  <2>5. OldState'
    BY <1>0, <2>1, <2>4, OldStateKept
  <2>6. AtRest' /\ GoingForward' /\ GoingBack'
    BY <1>0, <2>1, <2>4 DEF AtRest, GoingForward, GoingBack, InJob
  <2> QED
    BY <2>5, <2>6 DEF AllRepairing
<1>5. CASE StopNewShards
  <2>1. /\ pc = "r_stop" /\ UNCHANGED <<db, profiles, relayLimit, env, relay, job, faults>>
        /\ \/ pc' = "r_stop" /\ \E h \in left : /\ left' = left \ {h}
                                                /\ proc' = Patch(proc, {h}, Nothing)
                                                /\ enabled' = enabled \ {h}
           \/ pc' = "r_abort" /\ left = {} /\ UNCHANGED <<proc, enabled>>
    BY <1>1, <1>5 DEF StopNewShards, Down, GoTo, LoopTo, Visited, files
  <2>2. /\ left \subseteq job.new
        /\ \A s \in Slots : ShardOf(s) \in job.new /\ ShardOf(s) \notin left
                              => proc[s] = 0 /\ ShardOf(s) \notin enabled
    BY <1>0, <2>1 DEF LoopsInJob, GoingBack
  <2>3. ASSUME NEW h \in left, left' = left \ {h}, proc' = Patch(proc, {h}, Nothing),
               enabled' = enabled \ {h}
        PROVE  \A s \in Slots :
                 /\ ShardOf(s) \in job.new /\ ShardOf(s) \notin left'
                      => proc'[s] = 0 /\ ShardOf(s) \notin enabled'
                 /\ ~InJob(s) => proc'[s] = proc[s]
    BY <1>0, <2>2, <2>3, PatchIs, NothingIs DEF InJob
  <2>4. \A s \in Slots :
          /\ ShardOf(s) \in job.new /\ (pc' = "r_stop" => ShardOf(s) \notin left')
               => proc'[s] = 0 /\ ShardOf(s) \notin enabled'
          /\ ~InJob(s) => proc'[s] = proc[s]
    <3>1. CASE pc' = "r_stop"
      BY <2>1, <2>3, <3>1
    <3>2. CASE left = {} /\ UNCHANGED <<proc, enabled>>
      BY <2>2, <3>2
    <3> QED
      BY <2>1, <3>1, <3>2
  <2>5. OldState'
    BY <1>0, <2>1, <2>4, OldStateKept
  <2>6. AtRest' /\ GoingForward' /\ GoingBack'
    BY <1>0, <2>1, <2>4 DEF AtRest, GoingForward, GoingBack, InJob
  <2> QED
    BY <2>5, <2>6 DEF AllRepairing
<1>6. CASE AbortJob
  <2>1. /\ pc = "r_abort" /\ pc' = "r_restart" /\ left' = Old /\ db' = AbortStaged(db)
        /\ UNCHANGED <<profiles, relayLimit, env, relay, proc, enabled, job, faults>>
    BY <1>1, <1>6 DEF AbortJob, GoTo, files, units
  <2>2. \A s \in Slots : db'.shard[ShardOf(s)] = "active" <=> db.shard[ShardOf(s)] = "active"
    BY <1>0, <2>1, AbortNotSeen, SeenAlike DEF Good
  <2>3. OldState'
    BY <1>0, <2>1, <2>2 DEF OldState, Agree, Fits, Bare, InJob
  <2>4. AtRest' /\ GoingForward' /\ GoingBack'
    BY <1>0, <2>1 DEF AtRest, GoingForward, GoingBack, InJob, Old
  <2> QED
    BY <2>3, <2>4 DEF AllRepairing
<1>7. CASE RestartOldShards
  <2>1. /\ pc = "r_restart" /\ UNCHANGED <<db, profiles, relayLimit, env, relay, enabled, job, faults>>
        /\ \/ pc' = "r_restart" /\ \E h \in left : left' = left \ {h} /\ proc' = Patch(proc, {h}, env)
           \/ pc' = "r_relay" /\ left = {} /\ proc' = proc
    BY <1>1, <1>7 DEF RestartOldShards, Restarted, GoTo, LoopTo, Visited, files
  <2>2. /\ left \subseteq Old
        /\ \A s \in Slots : ShardOf(s) \in job.new => proc[s] = 0 /\ ShardOf(s) \notin enabled
        /\ \A s \in Slots : ShardOf(s) \in Old /\ ShardOf(s) \notin left => proc[s] = env[s]
    BY <1>0, <2>1 DEF LoopsInJob, GoingBack
  <2>3. ASSUME NEW h \in left, left' = left \ {h}, proc' = Patch(proc, {h}, env)
        PROVE  \A s \in Slots :
                 /\ ShardOf(s) \in job.new => proc'[s] = 0
                 /\ ShardOf(s) \in Old /\ ShardOf(s) \notin left' => proc'[s] = env[s]
                 /\ ~InJob(s) => proc'[s] = proc[s]
    BY <2>2, <2>3, PatchIs DEF InJob, Old
  <2>4. \A s \in Slots :
          /\ ShardOf(s) \in job.new => proc'[s] = 0
          /\ ShardOf(s) \in Old /\ (pc' = "r_restart" => ShardOf(s) \notin left') => proc'[s] = env[s]
          /\ ~InJob(s) => proc'[s] = proc[s]
    <3>1. CASE pc' = "r_restart"
      BY <2>1, <2>3, <3>1
    <3>2. CASE left = {} /\ proc' = proc
      BY <2>2, <3>2
    <3> QED
      BY <2>1, <3>1, <3>2
  <2>5. OldState'
    BY <1>0, <2>1, <2>4, OldStateKept
  <2>6. AtRest' /\ GoingForward' /\ GoingBack'
    BY <1>0, <2>1, <2>2, <2>4 DEF AtRest, GoingForward, GoingBack, InJob, Old
  <2> QED
    BY <2>5, <2>6 DEF AllRepairing
<1>8. CASE RestartOldRelay
  <2>1. /\ pc = "r_relay" /\ Quit /\ relay' = StartRelay(profiles, relayLimit)
        /\ UNCHANGED <<db, profiles, relayLimit, env, proc, enabled, faults>>
    BY <1>1, <1>8 DEF RestartOldRelay, files
  <2>2. profiles = job.prevProfiles /\ Fits(profiles, relayLimit) /\ relay' = profiles
    BY <1>0, <2>1, StartRelayFits DEF GoingBack, OldState
  <2>3. \A s \in Slots : env[s] = job.prevEnv[s] /\ proc[s] = env[s]
    BY <1>0, <2>1 DEF GoingBack, OldState, InJob, Old
  <2>4. proc = env
    BY <1>0, <2>3, MapsEqual
  <2>5. Consistent'
    BY <1>0, <2>1, <2>2, <2>3, <2>4 DEF Consistent, OldState, Agree, Fits
  <2> QED
    BY <1>0, <2>1, <2>5, QuitRepairs
<1> QED
  BY <1>2, <1>3, <1>4, <1>5, <1>6, <1>7, <1>8 DEF Rollback

(* systemd may bring a process back while maintain() runs: it finds the    *)
(* files as they are, and a new shard that was stopped is not enabled.     *)
LEMMA EnvironmentRepairs ==
  ASSUME IInv, IInv', Serving, AllRepairing, FewFaults', Environment PROVE AllRepairing'
<1> USE DEF ForwardSteps, RollbackSteps
<1>0. /\ LoopsInJob /\ WrittenSoFar /\ AtRest /\ OldState /\ GoingForward /\ GoingBack
      /\ env \in SecretMap /\ proc' \in SecretMap
  BY DEF Serving, AllRepairing, IInv, TypeOK
<1>1. ~Crash
  BY DEF IInv, TypeOK, Crash, FewFaults
<1>2. CASE RelayRespawns
  <2>1. /\ relay = Nothing /\ relay' = StartRelay(profiles, relayLimit)
        /\ UNCHANGED <<db, profiles, relayLimit, env, proc, enabled, pc, job, left, faults>>
    BY <1>2 DEF RelayRespawns, files, maintainer, counters
  <2>2. Fits(profiles, relayLimit) => relay' = profiles
    BY <2>1, StartRelayFits
  <2>3. AtRest'
    BY <1>0, <2>1, <2>2 DEF AtRest, Consistent, Agree, Fits, Bare, ShardsIn
  <2>4. OldState' /\ GoingBack'
    BY <1>0, <2>1 DEF OldState, GoingBack, Agree, Fits, Bare, InJob, Old
  <2>5. pc \in {"health", "commit"} => relay' = job.want
    <3> SUFFICES ASSUME pc \in {"health", "commit"} PROVE relay' = job.want
      OBVIOUS
    <3>1. profiles = job.want /\ relayLimit = job.limit /\ Fits(job.want, job.limit)
      BY <1>0 DEF WrittenSoFar, GoingForward
    <3> QED
      BY <2>2, <3>1
  <2>6. GoingForward'
    BY <1>0, <2>1, <2>5 DEF GoingForward, Fits, InJob
  <2> QED
    BY <2>3, <2>4, <2>6 DEF AllRepairing
<1>3. CASE ShardRespawns
  <2>1. PICK h \in enabled : proc' = Patch(proc, {h}, env)
    BY <1>3 DEF ShardRespawns, Restarted
  <2>2. UNCHANGED <<db, profiles, relayLimit, env, relay, enabled, pc, job, left, faults>>
    BY <1>3 DEF ShardRespawns, files, maintainer, counters
  <2>3. \A s \in Slots : /\ proc[s] = env[s] => proc'[s] = env[s]
                         /\ ShardOf(s) \notin enabled => proc'[s] = proc[s]
    BY <2>1, PatchIs
  <2>4. AtRest'
    <3>1. proc = env => proc' = env
      BY <1>0, <2>3, MapsEqual
    <3> QED
      BY <1>0, <2>2, <3>1 DEF AtRest, Consistent, Agree, Fits, Bare, ShardsIn
  <2>5. OldState'
    BY <1>0, <2>2, <2>3 DEF OldState, Agree, Fits, Bare, InJob
  <2>6. GoingForward'
    BY <1>0, <2>2, <2>3 DEF GoingForward, Fits, InJob
  <2>7. GoingBack'
    BY <1>0, <2>2, <2>3 DEF GoingBack, InJob, Old
  <2> QED
    BY <2>4, <2>5, <2>6, <2>7 DEF AllRepairing
<1> QED
  BY <1>1, <1>2, <1>3 DEF Environment, MaintainerDies, RelayDies, ShardDies, Reboot

LEMMA SubscriberRepairs ==
  ASSUME IInv, AllRepairing, Subscriber PROVE AllRepairing'
<1>1. /\ db'.shard = db.shard
      /\ UNCHANGED <<profiles, relayLimit, env, relay, proc, enabled, pc, job, left, faults>>
  BY SubscriberKeeps DEF IInv, files, units, maintainer, counters
<1>2. AtRest' /\ OldState'
  BY <1>1 DEF AllRepairing, AtRest, OldState, Consistent, Agree, Fits, Bare, ShardsIn, InJob
<1>3. GoingForward' /\ GoingBack'
  BY <1>1 DEF AllRepairing, GoingForward, GoingBack, Fits, InJob, Old
<1> QED
  BY <1>2, <1>3 DEF AllRepairing

LEMMA MaintainRepairs ==
  ASSUME IInv, IInv', AllRepairing, NEW n \in Int, Maintain(n) PROVE AllRepairing'
<1> DEFINE restart == DirtyShards(Prepare(db))
           new == NewShards(Prepare(db), n)
<1>1. Visible(db') = Visible(db) /\ ShardsIn(db', "staged") = new
  BY MaintainMakes DEF IInv
<1>2. /\ pc = "idle"
      /\ UNCHANGED <<profiles, relayLimit, env, relay, proc, enabled, faults>>
      /\ \/ new = {} /\ pc' = "idle"
         \/ pc' = "render"
  BY DEF Maintain, files, units, counters, maintainer
<1> HIDE DEF new
<1>3. \A s \in Slots : db'.shard[ShardOf(s)] = "active" <=> db.shard[ShardOf(s)] = "active"
  BY <1>1, SeenAlike DEF IInv, Good
<1>4. AtRest'
  BY <1>1, <1>2, <1>3 DEF AllRepairing, AtRest, Consistent, Agree, Fits, Bare
<1>5. OldState' /\ GoingForward' /\ GoingBack'
  BY <1>2 DEF OldState, GoingForward, GoingBack, ForwardSteps, RollbackSteps
<1> QED
  BY <1>4, <1>5 DEF AllRepairing

(* Faults and crashes are counted, never taken back.                       *)
LEMMA CountersGrow == IInv /\ [Next]_vars => (FewFaults' => FewFaults)
<1> SUFFICES ASSUME faults \in Nat, crashes \in Nat, [Next]_vars,
                    ~(MayFail \/ Crash \/ UNCHANGED counters)
             PROVE  FALSE
  BY DEF IInv, TypeOK, MayFail, Crash, counters, FewFaults
<1>1. ~Subscriber
  BY DEF Subscriber, Attach, Rotate, Detach
<1>2. ~(AutoMaintain \/ ForcedMaintain)
  BY DEF AutoMaintain, ForcedMaintain, Maintain
<1>3. ~(Refused \/ UNCHANGED vars)
  BY DEF Refused, vars, counters
<1>4. ~Forward
  BY DEF Forward, RenderAndCheck, WriteProfiles, WriteConfig, WriteEnvs, SyncFirewall,
         EnableShards, RestartShards, RestartRelay, WaitHealthy, CommitJob,
         Fail, FailTo, Visited, LoopTo
<1>5. ~Rollback
  BY DEF Rollback, RestoreProfiles, RestoreConfig, RestoreEnvs, StopNewShards, AbortJob,
         RestartOldShards, RestartOldRelay, FailTo, Visited, LoopTo
<1>6. ~Environment
  BY DEF Environment, MaintainerDies, RelayDies, ShardDies, RelayRespawns, ShardRespawns, Reboot
<1> QED
  BY <1>1, <1>2, <1>3, <1>4, <1>5, <1>6 DEF Next, ApplyStep

LEMMA RepairingStep == IInv /\ IInv' /\ Serving /\ Repairing /\ [Next]_vars => Repairing'
<1> SUFFICES ASSUME IInv, IInv', Serving, Repairing, [Next]_vars, FewFaults'
             PROVE  AllRepairing'
  BY DEF Repairing
<1>0. AllRepairing
  BY CountersGrow DEF Repairing
<1>1. CASE Subscriber
  BY <1>0, <1>1, SubscriberRepairs
<1>2. CASE AutoMaintain \/ ForcedMaintain
  <2>1. \E n \in Int : Maintain(n)
    BY <1>2, AutoGrowthType, BoundConstants DEF AutoMaintain, ForcedMaintain
  <2> QED
    BY <1>0, <2>1, MaintainRepairs
<1>3. CASE Refused \/ UNCHANGED vars
  <2>1. UNCHANGED vars
    BY <1>3 DEF Refused
  <2> QED
    BY <1>0, <2>1 DEF vars, AllRepairing, AtRest, OldState, GoingForward, GoingBack, Consistent,
                      Agree, Fits, Bare, ShardsIn, InJob, Old
<1>4. CASE Forward
  BY <1>0, <1>4, ForwardRepairs
<1>5. CASE Rollback
  BY <1>0, <1>5, RollbackRepairs
<1>6. CASE Environment
  BY <1>0, <1>6, EnvironmentRepairs
<1> QED
  BY <1>1, <1>2, <1>3, <1>4, <1>5, <1>6 DEF Next, ApplyStep

LEMMA RepairingInitially == Init => Repairing
<1> SUFFICES ASSUME Init PROVE AllRepairing
  BY DEF Repairing
<1>1. /\ pc = "idle" /\ profiles = Nothing /\ env = Nothing /\ relay = Nothing /\ proc = Nothing
      /\ relayLimit = 0 /\ \A h \in Shards : db.shard[h] = "none"
  BY DEF Init, EmptyDatabase
<1>2. Entries(Nothing) = {} /\ Cardinality({}) = 0
  BY NothingIs, FS_EmptySet DEF Entries
<1>3. AtRest
  BY <1>1, <1>2, NothingIs DEF AtRest, Consistent, Agree, Fits, Bare, ShardsIn
<1>4. OldState /\ GoingForward /\ GoingBack
  BY <1>1 DEF OldState, GoingForward, GoingBack, ForwardSteps, RollbackSteps
<1> QED
  BY <1>3, <1>4 DEF AllRepairing

LEMMA RepairingHolds == Spec => []Repairing
<1>1. IInv /\ IInv' /\ Serving /\ Repairing /\ [Next]_vars => Repairing'
  BY RepairingStep
<1> QED
  BY RepairingInitially, InvariantHolds, ServingHolds, <1>1, PTL DEF Spec

(* When at most one step of maintain() has failed and nobody has died, the *)
(* rollback, or the code after a failed commit, leaves every process with  *)
(* the files on disk, both files with the same secrets of the active       *)
(* shards, and a relay that starts with its files.                         *)
THEOREM OneFailureIsRepaired == Spec => []SingleFailureRepaired
<1>1. Repairing => SingleFailureRepaired
  BY DEF Repairing, FewFaults, AllRepairing, AtRest, Consistent, Agree, Fits, SingleFailureRepaired
<1> QED
  BY <1>1, RepairingHolds, PTL
=============================================================================
