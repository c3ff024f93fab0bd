# A verification of webproxy's pool and access control

`webproxy` hands out MTProxy links. Each link is a *slot*: a port, a secret, a
relay profile. This directory holds TLA+ models of the code under
`src/webproxy`, the TLC configurations that check them, and proofs that the TLA+
proof system checks. Every definition is written from the source; the lines it
stands for are listed in `PROJECT.json` under `map`.

## 1. The system

| Part | State it keeps | Operations | Who calls it |
|---|---|---|---|
| Slot pool, `pool.py` | tables `shards`, `slots`; the lock file `pool.lock` | `take_free_slot`, `release_slot`, `stage_dirty`, `create_shards`, `commit_staged`, `abort_staged`, `apply`, `maintain` | `users.py`, the timer, `cli.py`, an operator |
| Users and devices, `users.py` | tables `users`, `devices`, and both ends of the link device - slot | `create_user`, `add_device`, `delete_device`, `rotate_device`, `disable_user`, `enable_user`, `delete_user`, `set_expiry`, `extend`, `set_traffic_limit`, `rename_device`, `update_profile` | panel, bot, worker |
| Transactions, `db.py` | the SQLite file, its write lock, `settings`, `events` | `transaction` (BEGIN IMMEDIATE, COMMIT, ROLLBACK), `migrate` | everything |
| Privileged helper, `ctl.py` (`wppctl`) | nftables table `inet wpp` and its set `blocked`; units of systemd | `sync`, `block`, `unblock`, `kill`, `enable-shard`, `restart-shard`, `stop-shard`, `restart-relay` | `system.py` through sudo; `wpp-firewall.service` |
| System interface, `system.py` | `profiles.json`, `relay.json`, `shard-N.env` | writes, candidate checks, wppctl calls, `wait_healthy` | `pool.py`, `users.py` |
| Sizing, `sizing.py`; configuration, `config.py`; links, `links.py` | none (pure) | formulas, numbering of ports and shards, encodings | `cli.py`, `pool.py` |
| Processes | the secrets loaded at their last start | relay (one), MTProxy (one per shard), Caddy | systemd |

How they meet: `maintain()` is the only writer of files and the only one that
creates, renews and frees slots; clients of `users.py` take and release slots
between any two of its steps; both sides share the database (one writer at a
time) and the firewall (which knows no lock). The processes see nothing but the
files, at the time they start.

What is hard here, and what makes each part correct:

* **Staging, apply, rollback** (pool). A maintenance is one transaction that
  stages, a dozen steps outside any transaction, and one transaction that commits.
  Any of them may fail, with or without its effect; the maintainer, a process or
  the host may die. Correct means: a slot somebody can get works, under a secret
  nobody had before; an active shard survives a reboot; one failure is repaired;
  what is interrupted is finished or thrown away by the next maintenance.
* **Firewall calls before COMMIT** (users). Ports open and close before the commit
  that makes it legal, and a failure after such a call is repaired by a rebuild.
  Correct means: no port is ever open without permission, and the table and the
  database agree whenever nobody is at work.
* **Rebuilds** (ctl). `wppctl sync` reads the database and loads a table some time
  later. It runs under the write lock from `pool.py`, without it from `users.py`
  and from the service. It must also end the connections of the ports it closes,
  and of those only.
* **Numbering and limits** (pool, config, sizing). Shards are numbered by
  `MAX(id) + 1`, at most `MAX_SHARDS` of them; the pool grows towards a threshold that
  grows with it, past the plan that the relay's limits were computed from.
* **Terms and reasons to be disabled** (users). One column holds one reason; terms
  are changed by the administrator, the bot and the worker at once.

The complete list, line by line, is `hazards` in `PROJECT.json`.

## 2. The modules

| Module | What it is |
|---|---|
| `PoolDb` | The tables `shards` and `slots` as a value, and every function of `pool.py` that reads or changes them within one transaction. No variables. |
| `Pool` | `maintain()` and `apply()`, step by step, beside the users, the files, the processes, failures and deaths. |
| `SlotLifecycle` | Abstract: absent or dirty, then free, then assigned, then dirty, each time under a new secret. What the pool promises. |
| `Access` | `users.py` against the firewall: clients, maintainer and the service, the write lock, failures, kills, restarts of nftables. |
| `FirewallCalls` | Abstract: `block` and `unblock` as single steps on one port, `sync` as a read and a load. What the callers of `wppctl` take it for. |
| `Wppctl` | Inside one call of `wppctl`: the `nft` and `ss` commands of several calls interleaved, and the connections they cut or miss. |
| `Subscription` | One user's terms: `enabled`, `disabled_reason`, expiry, limit, traffic, under clients and worker. |
| `Capacity` | Numbers: the plan of `sizing.py`, the growth of the pool, the limits in the relay's configuration. |
| `MCPool`, `MCAccess`, `MCWppctl`, `MCSubscription`, `MCCapacity` | The above for TLC, with the claims of comments and documents that the code does not meet. |
| `PoolProofs`, `AccessProofs`, `WppctlProofs`, `SubscriptionProofs`, `CapacityProofs` | Theorems about each, with its inductive invariant. |
| `PoolImplements` | The proof that `Pool` implements `SlotLifecycle`. |
| `PoolServiceProofs` | What files, processes and units hold at each step of `apply()` and of its rollback: usable slots are served, active shards enabled, one failed step repaired, and by a success whatever was left before it. |

The modules look at the same users and the same maintainer from several sides. In
`Pool` a user's operation is its effect on the slots; in `Access` the maintainer
is its effect on the ports. `Access` takes `block` and `unblock` as atomic and `sync`
as a read and a load; `Wppctl` takes them apart, reduces the database to the
set of ports whose users have access, and implements `FirewallCalls`, which says
what `Access` relies on in the same reduced terms. `Access` reduces terms to "enabled";
`Subscription` says where that comes from. `Pool` has a few shards and
knows which slots they hold; `Capacity` has hundreds and knows how many.

### Pool and the code

| Variable | In the code |
|---|---|
| `db` | the committed tables `shards`, `slots` (`active`, `status`, `secret`, `pending_secret`); `minted` counts the secrets made, so that a new one is new |
| `handed` | history: the secrets each slot's device was given |
| `profiles`, `relayLimit`, `env` | `profiles.json`, `max_profiles` in `relay.json`, the environment files of the shards |
| `relay`, `proc`, `enabled` | what the running relay and MTProxies loaded; the enabled units |
| `pc`, `job`, `left` | where `apply()` is, its local variables, what the current `for` still has to visit |

`Maintain(n)` is the staging transaction at the head of `maintain()`: abort what
was left, stage the dirty, create the new shards, all or nothing. `Refused` is
the `PoolError` at the shard limit. Then one action per step of `apply()`, in the
order of the code: `RenderAndCheck`, `WriteProfiles`, `WriteConfig`, `WriteEnvs`,
`SyncFirewall`, `EnableShards`, `RestartShards`, `RestartRelay`, `WaitHealthy`,
`CommitJob`; and of its rollback: `RestoreProfiles`, `RestoreConfig`,
`RestoreEnvs`, `StopNewShards`, `AbortJob`, `RestartOldShards`,
`RestartOldRelay`. Each has its failing disjuncts: a write that happened or did
not, a restart that left the process as it was, down, or restarted. The handler
of each decides where the failure goes: into the rollback, to the end of a
`try`, or out of `apply()`. `MaintainerDies`, `RelayDies`, `ShardDies`,
`RelayRespawns`, `ShardRespawns` and `Reboot` are the world around.

Abstracted: ports, row ids and the order among them are the pair (shard, index);
a secret is a number that grows with each one made for its slot, because the code draws 128
random bits; the check of the candidate files is a step that may fail; the
relay starts if its profiles fit `max_profiles`.

### Access and the code

| Variable | In the code |
|---|---|
| `db`, `work` | `users` (enabled or not), `devices.slot_id`, `slots.status`, `slots.device_id`; committed, and as the open transaction sees it |
| `fw` | whether table `inet wpp` exists and its set `blocked` |
| `lock` | SQLite's write lock, from BEGIN IMMEDIATE to COMMIT or ROLLBACK |
| `pc`, `todo`, `called` | where `_change()` is in a client, the wppctl calls to make, whether `firewall_calls` moved |
| `seen`, `mpc`, `spc` | what a running `wppctl sync` has read; the steps of maintainer and service |

`Operations(d)` is every call of `users.py` that passes its guards, as the
database it leaves and the wppctl calls it makes, in order. `Begin`, `Call`,
`Commit`, `RollBack`, `ResyncRead`, `ResyncLoad` are `_change()` around it.
`Stage`, `LockAndRead`, `LoadAndUnlock`, `Activate`, `Abandon` are the maintainer;
`Flush`, `ServiceRead`, `ServiceLoad` a restart of nftables and the service. A call
that fails, or times out, has worked or has not (`Perhaps`); a rebuild that fails may
have loaded the table before `ss` failed (`PerhapsLoaded`, and `MayFail` in
`LoadWithoutLock`), or have ended before it (`EndWithoutLoad`). `Activate` fails
into the rollback or, if it is the commit that fails, out of `apply()`; and the
rollback's own transaction may fail (`Abandon`).

The code lets some mistakes stand until the maintainer's next rebuild. `disturbed`
records them:

* a client was killed;
* a rebuild that is not repeated ended without loading the table: a client's,
  whose failure `_change` swallows, or the service's, which is a oneshot without
  `Restart` and leaves the table missing if nobody else has rebuilt it;
* a rebuild that holds no lock overlapped a change.

What is said of the table is said while there is none of these;
`LockedSyncIsExact` says that the maintainer's rebuild ends them.
`OpenOnlyIfPermitted` takes a missing table for what it is, every port open,
except from a restart of nftables to the end of the service's sync: nothing in the
code prevents those moments.

`TypeOK` says of the rows, besides their types, that a slot has a device exactly
while it is assigned; `SlotsMatchDevices`, that slot and device point at each
other. The schema enforces neither: `slots.device_id` has no foreign key.

### Wppctl and the code

`allowed` is what the database commits, `fw` the table, `conns` the established
connections (one per port is enough: `ss -K` kills them together). A client's
operation is `Begin`, then `Add` and `Kill` (`cmd_block`: `nft add element`, then
`ss -K`) or `List` and `Delete` (`cmd_unblock`), then `Commit`; any of them may
fail and lead to the rebuild in `_change`'s handler. An `ss -K` that fails is a
warning (`Kills`), one that is missing or hangs ends the call (`Kill`). A rebuild by anybody is `ReadDb`,
`ListBefore`, `Load`, `Cut` (`cmd_sync`: query, list, `nft -f`, `ss -K` of the
ports that were open before and are not now), with `GiveUp` for a failure.
`Connect` and `Disconnect` are the clients of the proxy.

### Subscription and the code

The row of one user. `set_expiry`, `set_traffic_limit`, `enable_user` and
`disable_user` are one transaction each and one step each; `extend` reads the row and
then calls `set_expiry` within its transaction, so it is two steps with the lock
between them. The worker is not in the repository; `CountTraffic`, `NewPeriod`,
`SwitchOffExpired`, `SwitchOffLimited` are what `PLAN.md` section 7 has it do with
the functions of `users.py`. Days and traffic are small numbers.

### Capacity and the code

`Compute` is `sizing.compute`, with its integer divisions and clamps, and
`PlannedShards` the one floating-point product: where it should be a whole number
it may come out a little higher, so both roundings are possible.
`CmdInit` is `wpp init`, first run or `--resize`; `WorkerLoads` and
`WorkerMaintains` are apart because the worker reads `sizing.json` before it takes
`pool.lock`. A maintenance is one step here, or none when it fails; what
happens inside is `Pool`'s.

## 3. What the runs check

Passing runs, with distinct states and time on two cores:

| Run | Question | Bounds | States |
|---|---|---|---|
| `pool_slots` | Types; clean and served slots; the pool implements `SlotLifecycle` | 2 shards of 2 slots, 2 slots in use, one failure and one death anywhere | 671 000, 1½ min |
| `pool_live` | Numbering, enabled units, repair of one failure, and by a maintenance that succeeds of whatever was left half-written before it; every maintenance ends, every dirty slot is cleaned | 3 shards of 1 slot, growth by 1 at a time, one failure, one death, fairness | 238 000, 2 min |
| `access` | Types; ports open only if permitted; slots and devices match; table and database agree | 2 clients, 2 users, 3 devices, 4 ports of which one is added, one failure of any call, commit, rebuild or step of the maintainer; symmetry | 458 000, ½ min |
| `access_repair` | Around a restart of nftables and a sync of the service that may fail: ports open only if permitted; table and database agree; the maintainer's rebuild is exact; everything ends | 2 clients, 1 user, 1 device, 2 ports, 1 failure, 1 kill, 1 restart of nftables, 1 maintenance, fairness | 260 000, 2½ min |
| `subscription` | Access comes back only when nothing stands against it; no paid day is lost | 2 clients and the worker, 5 days, expiries and limits around them; symmetry | 15 000, seconds |
| `wppctl` | `Wppctl` implements `FirewallCalls`; no connection survives behind a closed port; the maintainer's rebuild cuts off nobody who has access | 2 clients, maintainer and service, 1 port, 3 failures; symmetry | 644 000, 3 min |
| `capacity` | The relay accepts what is written for it; growth reaches its threshold | two machines (1200 users and no memory reported; 1 user and 512 MiB), up to 112 shards | 1 870 000, 1½ min |

Why these bounds are enough to mean something.

* `Pool`: two slots in a shard are needed for one to be dirty while its neighbour
  is in use and served by the same file and process; two shards for one to be
  staged beside an active one; three for a gap in the numbering to be possible
  and for a loop over shards to stop between two. One failure and one death give
  every combination of an interrupted maintenance and a failing one after it.
  `MaxHandouts` bounds the secrets given per slot.
* `Access`: two clients are needed for one to commit while the other is between its
  calls or in its rebuild; two users, one of them with two devices, for one's
  operation to touch the other's ports; a free port beside them for
  `rotate_device`, and one that the maintainer adds while they work.
* `Subscription`: two limits and three dates are needed for a change to remove one
  reason and leave the other; two extensions at once need two clients.
* `Wppctl`: ports do not interact within a command, so one is enough for every
  interleaving of commands; three failures give an operation that fails, a rebuild
  that fails and one more. Two ports with two failures (7 500 000 states, too long
  for a routine run) pass as well. One port cannot show a call that touches
  another; with two ports and one failure the refinement holds too (1 060 000 states,
  over three minutes), and the theorem of section 5 has any number of both.
* `Capacity`: above 100 shards a tenth of the pool exceeds what one maintenance
  adds for it, which is where the threshold overtakes the growth; 1200 users are a
  multiple of 400, where the rounding of the plan is open.

The theorems of section 5 need none of these bounds.

Each property has a mutant in `PROJECT.json`: a plausible mistake in a mapped
definition (written before its original and marked *Faulty*) under which TLC
finds the property violated.

### Disagreements found

Each of these has a run that must find the violation.

| Run | What is said | What happens |
|---|---|---|
| `pool_rollback_skips` | `pool.py:285`, one failing step must not skip the rest | one `try` surrounds the restarts of all old shards and the relay: the first failure leaves the rest running with files that are gone. The abort transaction is outside every `try` |
| `access_resync_race` | `users.py:36`, the firewall is rebuilt from the committed state | the rebuild holds no lock: it may load a table read before another client's commit |
| `subscription_order` | `PLAN.md:233`, if the reason for the disabling is gone, enable | the recorded reason is only the first: a user off as expired whose traffic has run out too, extended and then given a higher limit, stays off. The other order enables him |
| `wppctl_flush` | `ctl.py:277`, ports that were open before and are closed now lose their connections; `docs/TESTING.md:115`, after a restart of nftables the disabled stay disabled | without a table there is no list of what was open, and nothing is killed: what a disabled user has opened meanwhile stays |
| `capacity_sessions` | `docs/FINDINGS.md:175`, a session for every slot | a pool that has grown past its plan gets more profiles, and not more sessions |

Others, met while modelling:

* `pool.py:329` says inactive shards were never started. A maintainer killed after the
  restarts leaves them enabled and running; the next one deletes their rows and
  not their units.
* `pool.py:235` says any failure aborts the staged state. A failed write of a
  candidate or a failed commit does not; the next maintenance does.
* `PLAN.md:103` says dirty slots are cleaned in the window. At the shard limit a
  growth that is refused rolls back their renewal too, every time. `DirtyIsCleaned`
  is therefore checked where growth fits.
* `docs/TESTING.md:115` again: the service's rebuild holds no lock either, and may load
  a table read before a user was disabled; and when it fails, nobody repeats it and
  every port is open. `disturbed` covers both in `Access`.
* `ctl.py:275`: two rebuilds without the lock around another client's failed unblock
  may both take its port for closed before and after, and a connection made in
  between survives. `overtaken` excludes it from `NoConnectionSurvives`; it
  takes two failures.
* `wpp-firewall.service` restarts with nftables and not with its reload, which flushes
  the tables too on the usual configuration. Not modelled: it is systemd's matter.
* `db.py:150`: two processes that open a new database at once may both run the first
  migration; one of them fails to start.

## 4. Fairness

* `Pool`: weak fairness of `NeedsMaintenance(db) /\ AutoMaintain`, for the timer
  calls `maintain()` in every window as long as `needs_maintenance` says so; weak
  fairness of `ApplyStep`, for a call that runs goes on, each of its waits having a
  deadline. No fairness for restarts of dead processes: `Restart=on-failure` gives
  up after its start limit. Failures and deaths are bounded, so "however many
  fail" means every number up to the bound.
* `Access`: weak fairness of each client that has begun and of the service. Strong
  fairness of the maintainer, because it shares the write lock with clients who
  come back for it: SQLite's busy timeout and the maintainer's repeated windows
  mean it gets the lock in the end. A client need not begin anything.
* `Subscription`, `Wppctl` and `Capacity` are checked for safety and assume no
  fairness. That growth settles is stated without it, by counting maintenances.

## 5. What is proved

Every theorem holds for all values of the constants that meet the module's named
assumption: any number of clients, users, ports, failures, kills and restarts.

### Pool

For every `ShardSize`, every `MaxShards` and every value of the bounds, from
`PoolConstants` (both are positive) and `BoundConstants` (the bounds are
numbers):

| Theorem | Says |
|---|---|
| `InvariantHolds` | `Spec => []IInv` |
| `TypeCorrect` | `Spec => []TypeOK` |
| `FreeSlotsStayClean` | `Spec => []FreeSlotsAreClean` |
| `StagedStaysOnTop` | `Spec => []StagedOnTop` |
| `PoolImplementsSlotLifecycle` | `Spec => ImplementsSlotLifecycle` |

None of the four properties is inductive. That a free slot is clean needs that a
*pending* secret is clean, since `commit_staged` makes it the secret; that needs
that it is newer than all that were given, so that no number made later collides;
and that only dirty slots have one, so that no slot with a pending secret is in
use. That shards have no gap needs to say where the staged ones are, since
`abort_staged` removes them. And types need that the loops of `apply()` visit
nothing but shards, since `EnableShards` puts what it visits among the enabled.
`IInv` says it with three parts:

* `Layout`: there are a and n such that shards 0 to a-1 are active, a to n-1
  staged, the rest absent;
* `SlotOK`, of each slot: no secret exceeds the number made; a pending secret
  belongs to a dirty slot, differs from its secret and was given to nobody; the
  secret of a free slot was given to nobody; a slot exists exactly when its
  shard does, slots of staged shards are free;
* `LoopOK`: outside `wait_healthy`, what is left to visit are shards.

The argument: one lemma per function of `pool.py` (`AbortGood`, `StageGood`,
`CreateGood`, `CommitGood`, `TakeGood`, `ReleaseGood`) shows that its transaction
keeps `Layout` and `SlotOK`; `GoodStep` puts them together over the actions, most
of which do not touch the database; `ForwardType`, `RollbackType`,
`EnvironmentType`, `MaintainType` do the variables of the maintainer.

The refinement maps a slot to its status and secret if its shard is active, to
"absent" otherwise (`Visible`). Staging, creating and aborting are stutters
(`AbortNotSeen`, `StageNotSeen`, `CreateNotSeen`); the commit is a `Refresh`
(`CommitRefreshes`), and there the clauses of `SlotOK` about staged slots and
pending secrets are what makes it one.

`PoolServiceProofs` goes on to the files and processes, from the same two
assumptions:

| Theorem | Says |
|---|---|
| `UsableSlotsAreServed` | `Spec => []UsableSlotsServed` |
| `ActiveShardsStayEnabled` | `Spec => []ActiveShardsEnabled` |
| `SuccessAlwaysRepairs` | `Spec => SuccessRepairs` |
| `OneFailureIsRepaired` | `Spec => []SingleFailureRepaired` |

The first three hold however many steps fail and whoever dies, and rest on one
invariant, `Serving`, relative to `IInv`. The commit makes every pending secret the secret and every
staged shard active, all at once and without a look at any file: so the invariant
must say, for each step before it, what has been brought to that state already.

* `JobCovers`: the shards of the job are those with a staged change. That is why
  restarting only them is enough, and it stays so while users work, who
  stage nothing.
* `WrittenSoFar`, `EnabledSoFar`: `profiles.json` from the second step on, the environment file and
  the process of each shard the loop has passed, the relay and the enabled units
  after their steps hold what the commit will make true. A process may also be
  down: nothing in the code prevents that, and `UsableSlotsServed` allows it.
* `OldFilesServe`: the copies taken for a rollback serve every usable slot too. A
  usable slot has no pending secret (`SlotOK`), so old and new files agree on it
  (`UsableRendered`); that is what lets any step fail, any process restart
  between two steps with whichever file it finds, and a user give back a slot
  meanwhile.
* `LoopsInJob`: the loops of `apply()` visit shards of the job only.

`SuccessAlwaysRepairs` takes `JobCovers` and `WrittenSoFar` at the last step before the
commit, adds that `relay.json` has been given the limit that fits (`FitsSoFar`), and
that the database after the commit asks for what the staged one asked for
(`CommitRenders`). It is what makes harmless, in the end, a host that goes down
between `profiles.json` and `relay.json`: with the pair it finds the relay may not
start, and stays down until a maintenance has work to do and succeeds.

`Repairing` says what one failed step leaves to put back, as long as nothing has
died: before the failure (`AtRest`, `GoingForward`) files and processes agree as far as they have
been restarted; after it (`GoingBack`) each rollback step has put back its file, stopped its new
shards or restarted its old ones, and the steps to come find the rest. Its facts
refer to the copies, of which `OldState` says that they were consistent when they
were taken. The case that
needs most is `wait_healthy`: with all processes on the new files it cannot
time out for lack of an answer (`AllHealthy`), because every shard of the job
has slots with secrets, so that its file is not empty; a time-out there is the
one failure, and then the rollback finds everything running.

### Access

From `AccessConstants`: the pool has finitely many ports, numbered from 1, and
nobody is called `NoOne`.

| Theorem | Says |
|---|---|
| `AccessTypeCorrect` | `Spec => []TypeOK` |
| `LinksStayInverse` | `Spec => []SlotsMatchDevices` |
| `NoPortOpenedEarly` | `Spec => []OpenOnlyIfPermitted` |
| `FirewallIsRight` | `Spec => []FirewallMatchesDatabase` |
| `LockedRebuildIsExact` | `Spec => LockedSyncIsExact` |

The invariant joins four parts to the types of the variables (`VariablesTyped`).

* `DbOK(db)`: the two ends of each link agree, and owners exist. It is what makes
  `Blocked`, a query over three tables, a matter of one slot and one user
  (`BlockedOf`).
* `TransactionRight`: the client with the lock is in its transaction; its database
  is `DbOK` and has the same shards, and each call still to be made moves its
  ports to where that database wants them.
* `MaintainerRight`: from reading to loading the maintainer holds the lock, and what
  it read is still committed.
* `FirewallRight`: while nothing has disturbed the table, it exists unless the service
  is about to rebuild it, and each port in use, or
  about to be, is as the committed database wants it; within a transaction as
  either database does, as the coming one does once no call is left for it, and
  as the committed one does before the first call.

The heart is `OperationsOK`: every operation of `users.py` keeps `DbOK`, and the ports
its calls name are exactly those whose status it changes, with the right verb.
It rests on three lemmas about the statements operations are made of (`SetUser`,
`AttachDevice`, `DropDevices`) and on `ThenChanges`, which composes them:
`rotate_device` is a drop and an attach, `delete_user` a drop and a change of the
user. `MaintenanceOK` shows that no maintenance changes who may connect.
`ClientStep`, `MaintainerStep` and `ServiceStep` go through the actions.

### Wppctl

| Theorem | Says |
|---|---|
| `WppctlTypeCorrect` | `Spec => []TypeOK` |
| `NoConnectionEverSurvives` | `Spec => []NoConnectionSurvives` |
| `MaintainerAlwaysSparesUsers` | `Spec => MaintainerSparesUsers` |
| `CommandsImplementCalls` | `Spec => ImplementsFirewallCalls` |

The invariant says that who is inside a transaction or a locked rebuild holds the
lock (`LocksHeld`), so that what it has read is current (`ReadsCurrent`); that
without a restart of nftables there is a table and every rebuild has found it
(`TableListed`); and, the point, that a connection behind a closed port of somebody
without access is one that a running rebuild is about to kill (`CutsPending`).

The refinement maps each process to a stage of its call (`StageOf`). `block` has its effect
when `nft add element` succeeds, `sync` when `nft -f` does. `unblock` has two such moments:
the deletion, if the listing showed the port blocked; the listing itself, if it
showed it open, because the deletion is then skipped and whatever closes the port
in between is a later event. The maintainer's lock is seen as free once its
table is loaded, since all that is left to do is kill connections (`LockSeen`).
That a client which rebuilds does not hold the lock (`ClientsLetGo`) is
the one fact this needs beyond the invariant; `ReadsCurrent` gives the direction of each call.

### Subscription

| Theorem | Says |
|---|---|
| `SubscriptionTypeCorrect` | `Spec => []TypeOK` |
| `TermsNeverOverride` | `Spec => OnlyEnableUserOverrides` |
| `ExtensionsAddUp` | `Spec => NoDayIsLost` |

`TypeOK` contains what links `enabled` and `disabled_reason`, and who writes an
extension with who holds the lock. `JobsAreCurrent` adds that the expiry about to
be written is that of the committed row plus the days: the lock keeps it so.

### Capacity

| Theorem | Says |
|---|---|
| `CapacityTypeCorrect` | `Spec => []TypeOK` |
| `RelayAlwaysStarts` | `Spec => []RelayStarts` |
| `GrowthAlwaysSettles` | `Spec => []GrowthSettles` |

For every number of users and every memory. The invariant says of every plan,
whether in the file or in the worker's hands, that the relay accepts its limits;
and bounds what may be missing of the threshold after one, two and three
maintenances (`Settling`: 101, 12 and 0 slots, for a pool of up to 625 shards).

### Only model-checked

Liveness (`MaintenanceEnds`, `DirtyIsCleaned`, `EverythingEnds`), which is out of the
prover's reach. Every invariant, action property and refinement that a passing run
checks is a theorem.

## 6. What is not modelled, and the plan

Next, the most important first:

1. **From `FirewallCalls` to `Access`**: the former has one port per call and a database
   that is a set of ports. That `Access`, whose operations make several calls on
   several ports, behaves like it port by port is so far a matter of reading. Such a
   refinement would be stated of each port that exists from the start (a port is open in the
   table from its creation to the first rebuild, when nobody listens behind it yet),
   and needs calls that fail after their effect, and deaths, in `FirewallCalls`.
2. **A `wppctl` that outlives its caller**. After a timeout `subprocess.run` tries to kill
   sudo, which runs as root and is out of its caller's reach, and then waits for
   it: the call has worked or not, and counts as failed, which is what `Access` has. A
   caller that is killed, or that runs as root itself, leaves a `wppctl` behind that may
   change the set later. Nothing here covers that.

Left out, with the reason:

* `links.py`: encodings of a secret and a path into text, without state; nothing
  about them that its tests do not show.
* `db.migrate`, with a single migration so far; `settings`, `events`.
* `ctl.py`: `status` and `counters`, which only read, and the parsers of arguments and of
  `nft`'s JSON. `_query_db` reads in three statements; the models read at once
  (under the lock there is no difference, and without it the result may be stale
  anyway).
* `config.json`, its loading and validation; the warnings of `sizing.py`; printing in
  `cli.py` and `wppdev.py`, whose commands are calls of modelled functions.
* `rename_device`, `update_profile`: descriptive columns only.
* In `Subscription`: that the worker enables users when a period begins is
  `EnableUser` at that moment, nothing of its own; that extending somebody
  without an expiry gives him one is taken from the code as it is.
* In `Capacity`: a maintenance interrupted half-way, which is `Pool`'s subject; parts
  of a MiB of memory (`PendingBytes` counts whole ones).
* Contents and wording of files, logs, metrics and QR codes; Caddy; the panel, bot
  and worker, which are not in the repository and appear as the clients of
  `users.py` and as the timer; tests and bring-up scripts, which are read to learn what
  the authors expect.

## 7. Running it

    tlc -config PoolSlots.cfg MCPool.tla
    tlc -config Access.cfg MCAccess.tla
    tlc -config WppctlFlush.cfg MCWppctl.tla
    tlapm PoolProofs.tla
    tlapm PoolServiceProofs.tla
    tlapm AccessProofs.tla

Configurations named `Pool*` go with `MCPool`, `Access*` with `MCAccess`,
`Subscription*` with `MCSubscription`, `Wppctl*` with `MCWppctl`, `Capacity*` with
`MCCapacity`. Deadlock is checked in every run.
