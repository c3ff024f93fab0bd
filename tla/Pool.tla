-------------------------------- MODULE Pool --------------------------------
(***************************************************************************)
(* The life of the pool: maintain() and apply() of webproxy/pool.py as the *)
(* steps of one maintainer, beside users of the panel who take and give    *)
(* back slots between any two of those steps, and beside the processes     *)
(* that load the files apply() writes: the relay, which reads              *)
(* profiles.json and relay.json, and one MTProxy per shard, which reads    *)
(* the shard's environment file.                                           *)
(*                                                                         *)
(* flock on pool.lock makes the maintainers one (apply_lock); each         *)
(* transaction is one step, for SQLite serialises the writers.  Any file,  *)
(* wppctl or database step may fail with or without its effect; the        *)
(* maintainer may die between two steps; processes may die and systemd     *)
(* restarts them; the host may reboot.                                     *)
(***************************************************************************)
EXTENDS PoolDb

CONSTANTS MaxGrow,       \* bound: the largest --grow an operator asks for
          BaseProfiles,  \* max_profiles of sizing.json
          MaxAssigned,   \* bound: slots assigned at a time
          MaxHandouts,   \* bound: secrets handed out per slot
          MaxFaults,     \* bound: steps of maintain() that fail
          MaxCrashes     \* bound: deaths of the maintainer, a process, the host

ASSUME BoundConstants ==
    {MaxGrow, BaseProfiles, MaxAssigned, MaxHandouts, MaxFaults, MaxCrashes} \subseteq Nat

VARIABLES
    db,          \* the committed database
    handed,      \* handed[s]: the secrets of slot s a subscriber has been given
    profiles,    \* profiles.json
    relayLimit,  \* max_profiles in relay.json; 0 without the file
    env,         \* env[s]: the secret of s in the environment file of its shard
    relay,       \* the profiles the relay runs with; Nothing when it is down
    proc,        \* proc[s]: the secret MTProxy accepts on slot s; 0 when it is down
    enabled,     \* the shards whose unit is enabled
    pc,          \* the step of maintain() to come
    job,         \* the local variables of apply()
    left,        \* the shards, or units, the current loop has still to visit
    faults,
    crashes

files == <<profiles, relayLimit, env>>
units == <<relay, proc, enabled>>
maintainer == <<pc, job, left>>
counters == <<faults, crashes>>
vars == <<db, handed, profiles, relayLimit, env, relay, proc, enabled,
          pc, job, left, faults, crashes>>

RelayUnit == MaxShards         \* beside the shards, in wait_healthy's loop
Units == Shards \cup {RelayUnit}

ForwardSteps == {"profiles", "config", "envs", "sync", "enable", "restart",
                 "relay", "health", "commit"}
RollbackSteps == {"r_profiles", "r_config", "r_envs", "r_stop", "r_abort",
                  "r_restart", "r_relay"}
Steps == {"idle", "render"} \cup ForwardSteps \cup RollbackSteps

(* shards: those apply() restarts; new: those of them it creates; want and *)
(* limit: what it writes; prev...: what the files held before.             *)
Job == [shards : SUBSET Shards, new : SUBSET Shards, want : SecretMap, limit : Nat,
        prevProfiles : SecretMap, prevLimit : Nat, prevEnv : SecretMap]

NoJob == [shards |-> {}, new |-> {}, want |-> Nothing, limit |-> 0,
          prevProfiles |-> Nothing, prevLimit |-> 0, prevEnv |-> Nothing]

Init ==
    /\ db = EmptyDatabase
    /\ handed = [s \in Slots |-> {}]
    /\ profiles = Nothing /\ relayLimit = 0 /\ env = Nothing
    /\ relay = Nothing /\ proc = Nothing /\ enabled = {}
    /\ pc = "idle" /\ job = NoJob /\ left = {}
    /\ faults = 0 /\ crashes = 0

-----------------------------------------------------------------------------
(* Subscribers.  Each is one transaction of users.py; the firewall calls   *)
(* it makes are the subject of module Access.                              *)

Assigned(d) == {s \in Slots : d.slot[s].status = "assigned"}

MayHand(s) ==
    /\ CanTake(db, s)
    /\ Cardinality(handed[s]) < MaxHandouts

Hand(s) == handed' = [handed EXCEPT ![s] = @ \cup {db.slot[s].secret}]

(* create_user, add_device.                                                *)
Attach(s) ==
    /\ MayHand(s)
    /\ Cardinality(Assigned(db)) < MaxAssigned
    /\ db' = TakeFreeSlot(db, s)
    /\ Hand(s)
    /\ UNCHANGED <<files, units, maintainer, counters>>

(* rotate_device: the device moves to slot s, its slot old becomes dirty.  *)
Rotate(old, s) ==
    /\ old \in Assigned(db)
    /\ MayHand(s)
    /\ db' = ReleaseSlot(TakeFreeSlot(db, s), old)
    /\ Hand(s)
    /\ UNCHANGED <<files, units, maintainer, counters>>

(* delete_device; delete_user releases the slots of all his devices.       *)
Detach(S) ==
    /\ S # {} /\ S \subseteq Assigned(db)
    /\ db' = [db EXCEPT !.slot = [s \in Slots |->
                 IF s \in S THEN ReleaseSlot(db, s).slot[s] ELSE db.slot[s]]]
    /\ UNCHANGED <<handed, files, units, maintainer, counters>>

Subscriber ==
    \/ \E s \in Slots : Attach(s)
    \/ \E old, s \in Slots : Rotate(old, s)
    \/ \E S \in SUBSET Assigned(db) : Detach(S)

-----------------------------------------------------------------------------
(* maintain(): the staging transaction.                                    *)

(* Faulty: what an interrupted apply() left is not discarded first.        *)
PrepareWithoutAbort(d) == StageDirty(d)

Prepare(d) == StageDirty(AbortStaged(d))

(* The shards a maintenance adds by itself; dirty slots count as free.     *)
AutoGrowth(d) ==
    LET ready == Cardinality(ActiveSlots(d, "free")) + Cardinality(ActiveSlots(d, "dirty"))
        missing == TheLarger(0, LowWater(d) - ready)
    IN  (missing + ShardSize - 1) \div ShardSize

Requests == {AutoGrowth(Prepare(db))} \cup 0 .. MaxGrow

Maintain(n) ==
    LET d == Prepare(db)
        restart == DirtyShards(d)
        new == NewShards(d, n)
    IN  /\ pc = "idle"
        /\ FitsPool(d, n)
        /\ db' = CreateShards(d, n)
        /\ IF restart \cup new = {}
           THEN UNCHANGED maintainer
           ELSE /\ pc' = "render"
                /\ job' = [NoJob EXCEPT !.shards = restart \cup new, !.new = new]
                /\ left' = {}
        /\ UNCHANGED <<handed, files, units, counters>>

AutoMaintain == Maintain(AutoGrowth(Prepare(db)))
ForcedMaintain == \E n \in 0 .. MaxGrow : Maintain(n)

(* create_shards raises at the end of the port range, and the transaction  *)
(* is rolled back with all that was staged before.                         *)
Refused ==
    /\ pc = "idle"
    /\ \E n \in Requests : ~FitsPool(Prepare(db), n)
    /\ UNCHANGED vars

-----------------------------------------------------------------------------
(* apply(): forward.                                                       *)

GoTo(step, todo) == pc' = step /\ left' = todo
Quit == GoTo("idle", {}) /\ job' = NoJob

MayFail == faults < MaxFaults /\ faults' = faults + 1 /\ UNCHANGED crashes
FailTo(step, todo) == MayFail /\ GoTo(step, todo) /\ UNCHANGED job
Fail == FailTo("r_profiles", {})

(* The units of a loop are visited in the order of their numbers.          *)
FirstLeft(h) == h \in left /\ \A k \in left : h <= k
Visited(h) == left' = left \ {h} /\ UNCHANGED <<pc, job, counters>>
LoopTo(step, todo) == left = {} /\ GoTo(step, todo) /\ UNCHANGED <<job, counters>>

(* The relay refuses to start with more profiles than relay.json allows,   *)
(* or with a file missing.                                                 *)
StartRelay(p, limit) ==
    IF Cardinality(Entries(p)) <= limit THEN p ELSE Nothing

Wanted == LET want == Render(db) IN
    [job EXCEPT !.want = want,
                !.limit = TheLarger(BaseProfiles, Cardinality(Entries(want))),
                !.prevProfiles = profiles, !.prevLimit = relayLimit, !.prevEnv = env]

(* Render, check the candidates, remember the old files.  A rejected check *)
(* aborts the staged state; a failure of any other call leaves it staged.  *)
RenderAndCheck ==
    /\ pc = "render"
    /\ \/ db' = db /\ job' = Wanted /\ GoTo("profiles", {}) /\ UNCHANGED counters
       \/ db' = AbortStaged(db) /\ MayFail /\ Quit
       \/ db' = db /\ MayFail /\ Quit
    /\ UNCHANGED <<handed, files, units>>

WriteProfiles ==
    /\ pc = "profiles"
    /\ \/ profiles' = job.want /\ GoTo("config", {}) /\ UNCHANGED <<job, counters>>
       \/ profiles' \in {profiles, job.want} /\ Fail
    /\ UNCHANGED <<db, handed, relayLimit, env, units>>

WriteConfig ==
    /\ pc = "config"
    /\ \/ relayLimit' = job.limit /\ GoTo("envs", job.shards) /\ UNCHANGED <<job, counters>>
       \/ relayLimit' \in {relayLimit, job.limit} /\ Fail
    /\ UNCHANGED <<db, handed, profiles, env, units>>

(* Faulty: writes the files of the new shards only.                        *)
WriteNewEnvs ==
    /\ pc = "envs"
    /\ \/ /\ \E h \in left : /\ FirstLeft(h)
                             /\ env' = Patch(env, {h} \cap job.new, job.want)
                             /\ Visited(h)
       \/ LoopTo("sync", {}) /\ UNCHANGED env
    /\ UNCHANGED <<db, handed, profiles, relayLimit, units>>

WriteEnvs ==
    /\ pc = "envs"
    /\ \/ /\ \E h \in left : /\ FirstLeft(h)
                             /\ env' = Patch(env, {h}, job.want)
                             /\ Visited(h)
       \/ /\ \E h \in left : FirstLeft(h) /\ env' \in {env, Patch(env, {h}, job.want)}
          /\ Fail
       \/ LoopTo("sync", {}) /\ UNCHANGED env
    /\ UNCHANGED <<db, handed, profiles, relayLimit, units>>

(* The firewall sync before new shards start; its table is in Access.      *)
SyncFirewall ==
    /\ pc = "sync"
    /\ \/ LoopTo("enable", job.new)
       \/ job.new # {} /\ Fail
    /\ UNCHANGED <<db, handed, files, units>>

EnableShards ==
    /\ pc = "enable"
    /\ \/ \E h \in left : FirstLeft(h) /\ enabled' = enabled \cup {h} /\ Visited(h)
       \/ /\ \E h \in left : FirstLeft(h) /\ enabled' \in {enabled, enabled \cup {h}}
          /\ Fail
       \/ LoopTo("restart", job.shards) /\ UNCHANGED enabled
    /\ UNCHANGED <<db, handed, files, relay, proc>>

(* systemctl restart may leave the process as it was, down or restarted.   *)
Restarted(h) == Patch(proc, {h}, env)
Down(h) == Patch(proc, {h}, Nothing)

RestartShards ==
    /\ pc = "restart"
    /\ \/ \E h \in left : FirstLeft(h) /\ proc' = Restarted(h) /\ Visited(h)
       \/ /\ \E h \in left : FirstLeft(h) /\ proc' \in {proc, Down(h), Restarted(h)}
          /\ Fail
       \/ LoopTo("relay", {}) /\ UNCHANGED proc
    /\ UNCHANGED <<db, handed, files, relay, enabled>>

RestartRelay ==
    /\ pc = "relay"
    /\ \/ /\ relay' = StartRelay(profiles, relayLimit)
          /\ GoTo("health", job.shards \cup {RelayUnit})
          /\ UNCHANGED <<job, counters>>
       \/ relay' \in {relay, Nothing, StartRelay(profiles, relayLimit)} /\ Fail
    /\ UNCHANGED <<db, handed, files, proc, enabled>>

Healthy(u) == IF u = RelayUnit THEN relay # Nothing
              ELSE \E s \in Slots : ShardOf(s) = u /\ proc[s] # 0

(* Faulty: polls for ever.                                                 *)
WaitHealthyForever ==
    /\ pc = "health"
    /\ \/ /\ \E u \in left : Healthy(u)
          /\ left' = {u \in left : ~Healthy(u)}
          /\ UNCHANGED <<pc, job, counters>>
       \/ LoopTo("commit", {})
    /\ UNCHANGED <<db, handed, files, units>>

(* wait_healthy polls; a unit seen healthy once is not asked again.  The   *)
(* deadline passes while a unit is down, or by a slow answer (a fault).    *)
WaitHealthy ==
    /\ pc = "health"
    /\ \/ /\ \E u \in left : Healthy(u)
          /\ left' = {u \in left : ~Healthy(u)}
          /\ UNCHANGED <<pc, job, counters>>
       \/ LoopTo("commit", {})
       \/ left # {} /\ Fail
       \/ /\ \E u \in left : ~Healthy(u)
          /\ GoTo("r_profiles", {}) /\ UNCHANGED <<job, counters>>
    /\ UNCHANGED <<db, handed, files, units>>

CommitJob ==
    /\ pc = "commit"
    /\ \/ db' = CommitStaged(db) /\ Quit /\ UNCHANGED counters
       \/ db' = db /\ MayFail /\ Quit
    /\ UNCHANGED <<handed, files, units>>

-----------------------------------------------------------------------------
(* apply(): rollback after any failed step but the commit.                 *)

Old == job.shards \ job.new

(* restore(): the files in the order they were written; the first failure  *)
(* skips the rest of it.                                                   *)
RestoreProfiles ==
    /\ pc = "r_profiles"
    /\ \/ profiles' = job.prevProfiles /\ GoTo("r_config", {}) /\ UNCHANGED <<job, counters>>
       \/ profiles' \in {profiles, job.prevProfiles} /\ FailTo("r_stop", job.new)
    /\ UNCHANGED <<db, handed, relayLimit, env, units>>

RestoreConfig ==
    /\ pc = "r_config"
    /\ \/ relayLimit' = job.prevLimit /\ GoTo("r_envs", job.shards) /\ UNCHANGED <<job, counters>>
       \/ relayLimit' \in {relayLimit, job.prevLimit} /\ FailTo("r_stop", job.new)
    /\ UNCHANGED <<db, handed, profiles, env, units>>

RestoreEnvs ==
    /\ pc = "r_envs"
    /\ \/ \E h \in left : /\ FirstLeft(h)
                          /\ env' = Patch(env, {h}, job.prevEnv)
                          /\ Visited(h)
       \/ /\ \E h \in left : FirstLeft(h) /\ env' \in {env, Patch(env, {h}, job.prevEnv)}
          /\ FailTo("r_stop", job.new)
       \/ LoopTo("r_stop", job.new) /\ UNCHANGED env
    /\ UNCHANGED <<db, handed, profiles, relayLimit, units>>

(* stop, then disable, each new shard; a failure is swallowed, and one of  *)
(* stop skips this shard's disable.                                        *)
StopNewShards ==
    /\ pc = "r_stop"
    /\ \/ /\ \E h \in left : /\ FirstLeft(h)
                             /\ proc' = Down(h) /\ enabled' = enabled \ {h}
                             /\ Visited(h)
       \/ /\ \E h \in left :
               /\ FirstLeft(h) /\ left' = left \ {h}
               /\ \/ proc' \in {proc, Down(h)} /\ UNCHANGED enabled
                  \/ proc' = Down(h) /\ enabled' = enabled \ {h}
          /\ MayFail /\ UNCHANGED <<pc, job>>
       \/ LoopTo("r_abort", {}) /\ UNCHANGED <<proc, enabled>>
    /\ UNCHANGED <<db, handed, files, relay>>

(* This transaction is outside every try: its failure ends the rollback.   *)
AbortJob ==
    /\ pc = "r_abort"
    /\ \/ db' = AbortStaged(db) /\ GoTo("r_restart", Old) /\ UNCHANGED <<job, counters>>
       \/ db' = db /\ MayFail /\ Quit
    /\ UNCHANGED <<handed, files, units>>

(* One try around the loop and the relay: a failure skips what follows.    *)
RestartOldShards ==
    /\ pc = "r_restart"
    /\ \/ \E h \in left : FirstLeft(h) /\ proc' = Restarted(h) /\ Visited(h)
       \/ /\ \E h \in left : FirstLeft(h) /\ proc' \in {proc, Down(h), Restarted(h)}
          /\ MayFail /\ Quit
       \/ LoopTo("r_relay", {}) /\ UNCHANGED proc
    /\ UNCHANGED <<db, handed, files, relay, enabled>>

(* Faulty: puts the old files back and leaves the relay as it is.          *)
KeepFailedRelay ==
    /\ pc = "r_relay" /\ Quit
    /\ UNCHANGED <<db, handed, files, units, counters>>

RestartOldRelay ==
    /\ pc = "r_relay"
    /\ \/ relay' = StartRelay(profiles, relayLimit) /\ Quit /\ UNCHANGED counters
       \/ relay' \in {relay, Nothing, StartRelay(profiles, relayLimit)} /\ MayFail /\ Quit
    /\ UNCHANGED <<db, handed, files, proc, enabled>>

Forward ==
    \/ RenderAndCheck \/ WriteProfiles \/ WriteConfig \/ WriteEnvs \/ SyncFirewall
    \/ EnableShards \/ RestartShards \/ RestartRelay \/ WaitHealthy \/ CommitJob

Rollback ==
    \/ RestoreProfiles \/ RestoreConfig \/ RestoreEnvs \/ StopNewShards
    \/ AbortJob \/ RestartOldShards \/ RestartOldRelay

ApplyStep == Forward \/ Rollback

-----------------------------------------------------------------------------
(* Deaths and restarts outside apply().                                    *)

Crash == crashes < MaxCrashes /\ crashes' = crashes + 1 /\ UNCHANGED faults

MaintainerDies ==
    /\ pc # "idle"
    /\ Crash /\ Quit
    /\ UNCHANGED <<db, handed, files, units>>

RelayDies ==
    /\ relay # Nothing
    /\ Crash /\ relay' = Nothing
    /\ UNCHANGED <<db, handed, files, proc, enabled, maintainer>>

ShardDies ==
    /\ Crash
    /\ \E h \in Shards : Down(h) # proc /\ proc' = Down(h)
    /\ UNCHANGED <<db, handed, files, relay, enabled, maintainer>>

(* Restart=on-failure.                                                     *)
RelayRespawns ==
    /\ relay = Nothing
    /\ relay' = StartRelay(profiles, relayLimit)
    /\ UNCHANGED <<db, handed, files, proc, enabled, maintainer, counters>>

ShardRespawns ==
    /\ \E h \in enabled : Down(h) = proc /\ proc' = Restarted(h)
    /\ UNCHANGED <<db, handed, files, relay, enabled, maintainer, counters>>

Reboot ==
    /\ Crash /\ Quit
    /\ relay' = StartRelay(profiles, relayLimit)
    /\ proc' = Patch(Nothing, enabled, env)
    /\ UNCHANGED <<db, handed, files, enabled>>

Environment ==
    \/ MaintainerDies \/ RelayDies \/ ShardDies
    \/ RelayRespawns \/ ShardRespawns \/ Reboot

Next ==
    \/ Subscriber
    \/ AutoMaintain \/ ForcedMaintain \/ Refused
    \/ ApplyStep
    \/ Environment

Spec == Init /\ [][Next]_vars

(* The timer calls maintain() as long as there is something to do, and a   *)
(* call that has begun goes on.  Nothing else is assumed: a process that   *)
(* died may stay down.                                                     *)
Fairness ==
    /\ WF_vars(NeedsMaintenance(db) /\ AutoMaintain)
    /\ WF_vars(ApplyStep)

FairSpec == Spec /\ Fairness

-----------------------------------------------------------------------------
(* Properties.                                                             *)

(* Every variable stays in its type; the database stays a database.        *)
TypeOK ==
    /\ db \in Database
    /\ handed \in [Slots -> SUBSET Nat]
    /\ profiles \in SecretMap /\ relayLimit \in Nat /\ env \in SecretMap
    /\ relay \in SecretMap /\ proc \in SecretMap /\ enabled \in SUBSET Shards
    /\ pc \in Steps /\ job \in Job /\ left \in SUBSET Units
    /\ faults \in Nat /\ crashes \in Nat

(* A slot that can be handed out carries a secret nobody was ever given    *)
(* (PLAN.md, "dirty" and section 13), whatever maintenance failed, was     *)
(* killed or was repeated in between.                                      *)
FreeSlotsAreClean ==
    \A s \in Slots : db.slot[s].status = "free" => db.slot[s].secret \notin handed[s]

(* A slot a subscriber has or can get works now and after any restart:     *)
(* both files carry its secret, and whatever process is up accepts it.     *)
UsableSlotsServed ==
    \A s \in ActiveSlots(db, "free") \cup ActiveSlots(db, "assigned") :
        /\ profiles[s] = db.slot[s].secret
        /\ env[s] = db.slot[s].secret
        /\ relay # Nothing => relay[s] = db.slot[s].secret
        /\ proc[s] \in {0, db.slot[s].secret}

(* An active shard comes back after a reboot.                              *)
ActiveShardsEnabled == ShardsIn(db, "active") \subseteq enabled

(* Shards are numbered without a gap and those being built come last, so   *)
(* that discarding them never leaves a hole below a shard in use.          *)
StagedOnTop ==
    /\ \A h \in Existing(db) : \A k \in Shards : k < h => k \in Existing(db)
    /\ \A h \in ShardsIn(db, "staged"), k \in ShardsIn(db, "active") : k < h

(* One failed step of apply() is repaired or harmless: once maintain() has *)
(* returned, every process runs with the files on disk, the two files that *)
(* hold the secrets of an active shard agree with each other, and the      *)
(* relay can start from its two files after the next reboot.               *)
SingleFailureRepaired ==
    (pc = "idle" /\ faults <= 1 /\ crashes = 0) =>
        /\ relay = profiles /\ proc = env
        /\ \A s \in Slots : db.shard[ShardOf(s)] = "active" => profiles[s] = env[s]
        /\ Cardinality(Entries(profiles)) <= relayLimit

(* A maintenance that succeeds leaves whole what any before it left half   *)
(* done, by failures in its steps and its rollback, a kill between the     *)
(* files, or a reboot: the three kinds of files agree with the new         *)
(* database, the relay can start from its two, and does not run with       *)
(* others.                                                                 *)
SuccessRepairs ==
    [][(pc = "commit" /\ pc' = "idle" /\ db' # db) =>
            /\ profiles = Render(db')
            /\ \A s \in Slots : db'.shard[ShardOf(s)] = "active" => env[s] = profiles[s]
            /\ Cardinality(Entries(profiles)) <= relayLimit
            /\ relay \in {Nothing, profiles}]_vars

(* A maintenance that has begun ends, whatever fails in it.                *)
MaintenanceEnds == pc # "idle" ~> pc = "idle"

(* A slot given back is cleaned: some later maintenance renews it, however *)
(* many of them fail before.                                               *)
DirtyIsCleaned ==
    \A s \in Slots : (db.slot[s].status = "dirty") ~> (db.slot[s].status = "free")

(* A slot as those who take and give back slots see it.                    *)
Visible(d) ==
    [s \in Slots |-> IF d.shard[ShardOf(s)] = "active"
                     THEN [status |-> d.slot[s].status, secret |-> d.slot[s].secret]
                     ELSE [status |-> "absent", secret |-> 0]]

(* The pool keeps the promise of SlotLifecycle: staged shards and pending  *)
(* secrets, failed, aborted and interrupted maintenance cannot be seen by  *)
(* those who take and give back slots.                                     *)
Life == INSTANCE SlotLifecycle WITH life <- Visible(db), given <- handed
ImplementsSlotLifecycle == Life!Spec
=============================================================================
