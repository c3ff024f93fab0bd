------------------------------- MODULE Access -------------------------------
(***************************************************************************)
(* Who may connect: the operations of webproxy/users.py, each one          *)
(* transaction with its wppctl calls made before COMMIT, against the table *)
(* inet wpp of nftables (webproxy/ctl.py), whose set "blocked" must hold   *)
(* every port but the ones of enabled users' devices.                      *)
(*                                                                         *)
(* The clients are the processes that share users.py (panel, bot, worker); *)
(* the maintainer is pool.apply(), which adds ports and rebuilds the table *)
(* under the write lock; the service is wpp-firewall, which rebuilds it    *)
(* after nftables restarts.  SQLite lets one of them write at a time       *)
(* (BEGIN IMMEDIATE); the firewall knows no lock.                          *)
(***************************************************************************)
EXTENDS Integers, Sequences, FiniteSets

CONSTANTS Clients, Users, Devices,
          NumPorts,      \* ports of the pool, in the order of slots.id
          FirstPorts,    \* those of the active shards at the start
          MaxDevices,    \* devices a user may have
          MaxFaults,     \* bound: calls and commits that fail
          MaxCrashes,    \* bound: clients killed
          MaxFlushes,    \* bound: restarts of nftables
          Maintenances,  \* bound: runs of the maintainer
          NoOne, Maintainer

ASSUME AccessConstants ==
    /\ NumPorts \in Nat /\ FirstPorts \in 0 .. NumPorts /\ MaxDevices \in Nat
    /\ {MaxFaults, MaxCrashes, MaxFlushes, Maintenances} \subseteq Nat
    /\ NoOne \notin Clients \cup Users \cup Devices \cup {Maintainer}
    /\ Maintainer \notin Clients

Ports == 1 .. NumPorts

VARIABLES
    db,        \* the committed database
    fw,        \* table inet wpp: whether it exists, and its set "blocked"
    lock,      \* who holds SQLite's write lock
    pc,        \* pc[c]: where client c is
    work,      \* the lock holder's uncommitted database
    todo,      \* the wppctl calls its transaction has still to make
    called,    \* whether it has made one (firewall_calls has changed)
    seen,      \* seen[x]: the blocked ports that a running "wppctl sync" has read
    mpc,       \* where the maintainer is
    spc,       \* where the service is
    disturbed, \* history, since the last rebuild under the write lock: a client has
               \* been killed, a client's rebuild or the service's has ended without
               \* loading the table, or one of theirs has overlapped a change
    faults, crashes, flushes, runs

txn == <<work, todo, called>>
bounds == <<faults, crashes, flushes, runs>>
vars == <<db, fw, lock, pc, work, todo, called, seen, mpc, spc, disturbed, faults, crashes, flushes, runs>>

Service == NoOne               \* the service's place in seen
Readers == Clients \cup {Maintainer, Service}

(* A staged slot is one of an inactive shard; a renewing one is dirty and  *)
(* has a pending secret.                                                   *)
Statuses == {"none", "staged", "free", "assigned", "dirty", "renewing"}
UserStates == {"absent", "enabled", "disabled"}

Database == [user   : [Users -> UserStates],
             device : [Devices -> [user : Users \cup {NoOne}, slot : Ports \cup {0}]],
             slot   : [Ports -> [status : Statuses, device : Devices \cup {NoOne}]]]

NoDevice == [user |-> NoOne, slot |-> 0]
Slot(status) == [status |-> status, device |-> NoOne]

Calls == [op : {"block", "unblock"}, ports : SUBSET Ports]

Empty == [user   |-> [u \in Users |-> "absent"],
          device |-> [d \in Devices |-> NoDevice],
          slot   |-> [p \in Ports |-> Slot(IF p <= FirstPorts THEN "free" ELSE "none")]]

-----------------------------------------------------------------------------
(* Queries.                                                                *)

ActivePorts(d) == {p \in Ports : d.slot[p].status \notin {"none", "staged"}}

(* The device that the LEFT JOIN on devices.slot_id finds.                 *)
DeviceAt(d, p) == {e \in Devices : d.device[e].slot = p}

Permitted(d) == {p \in Ports :
    d.slot[p].status = "assigned" /\
    \E e \in DeviceAt(d, p) : d.user[d.device[e].user] = "enabled"}

(* BLOCKED_PORTS_SQL.                                                      *)
Blocked(d) == {p \in Ports : d.slot[p].status # "none"} \ Permitted(d)

DevicesOf(d, u) == {e \in Devices : d.device[e].user = u}
DevicePorts(d, u) == {d.device[e].slot : e \in DevicesOf(d, u)}
FreePorts(d) == {p \in Ports : d.slot[p].status = "free"}
NextFree(d, p) == p \in FreePorts(d) /\ \A q \in FreePorts(d) : p <= q

-----------------------------------------------------------------------------
(* The operations of users.py: the database each leaves and the calls it   *)
(* makes, in their order.  System.block and unblock skip an empty list.    *)

Effect(d, calls) == [db |-> d, calls |-> calls]
Block(ports) == IF ports = {} THEN <<>> ELSE <<[op |-> "block", ports |-> ports]>>
Unblock(ports) == IF ports = {} THEN <<>> ELSE <<[op |-> "unblock", ports |-> ports]>>
UnblockIf(cond, ports) == IF cond THEN Unblock(ports) ELSE <<>>

Attach(d, u, e, p) ==
    [user   |-> d.user,
     device |-> [d.device EXCEPT ![e] = [user |-> u, slot |-> p]],
     slot   |-> [d.slot EXCEPT ![p] = [status |-> "assigned", device |-> e]]]

(* Faulty: forgets device_id = NULL.                                       *)
ReleaseStatusOnly(d, ports) ==
    [user |-> d.user, device |-> d.device,
     slot |-> [p \in Ports |-> IF p \in ports THEN [d.slot[p] EXCEPT !.status = "dirty"]
                              ELSE d.slot[p]]]

Release(d, ports) ==
    [user |-> d.user, device |-> d.device,
     slot |-> [p \in Ports |-> IF p \in ports THEN Slot("dirty") ELSE d.slot[p]]]

Delete(d, gone) ==
    [user |-> d.user, slot |-> d.slot,
     device |-> [e \in Devices |-> IF e \in gone THEN NoDevice ELSE d.device[e]]]

CreateUser(d, u, e, p) ==
    Effect(Attach([d EXCEPT !.user[u] = "enabled"], u, e, p), Unblock({p}))

AddDevice(d, u, e, p) ==
    Effect(Attach(d, u, e, p), UnblockIf(d.user[u] = "enabled", {p}))

(* Faulty: forgets release_slot.                                           *)
DeleteDeviceOnly(d, e) == Effect(Delete(d, {e}), Block({d.device[e].slot}))

DeleteDevice(d, e) ==
    LET p == d.device[e].slot IN
    Effect(Delete(Release(d, {p}), {e}), Block({p}))

(* Faulty: opens the new port of a disabled user as well.                  *)
RotateAndOpen(d, e, p) ==
    LET old == d.device[e].slot IN
    Effect(Attach(Release(d, {old}), d.device[e].user, e, p), Block({old}) \o Unblock({p}))

RotateDevice(d, e, p) ==
    LET u == d.device[e].user
        old == d.device[e].slot
    IN  Effect(Attach(Release(d, {old}), u, e, p),
               Block({old}) \o UnblockIf(d.user[u] = "enabled", {p}))

DisableUser(d, u) ==
    Effect([d EXCEPT !.user[u] = "disabled"], Block(DevicePorts(d, u)))

(* Also what set_expiry, extend and set_traffic_limit end in when the      *)
(* user's reason to be disabled is gone.                                   *)
EnableUser(d, u) ==
    Effect([d EXCEPT !.user[u] = "enabled"], Unblock(DevicePorts(d, u)))

DeleteUser(d, u) ==
    Effect([Delete(Release(d, DevicePorts(d, u)), DevicesOf(d, u)) EXCEPT !.user[u] = "absent"],
           Block(DevicePorts(d, u)))

NewDevice(d, e) == d.device[e] = NoDevice

(* Every call that does not end in a UserError or return early.            *)
Operations(d) ==
    UNION {
      {CreateUser(d, u, e, p) : u \in {v \in Users : d.user[v] = "absent"},
           e \in {f \in Devices : NewDevice(d, f)}, p \in {q \in Ports : NextFree(d, q)}},
      {AddDevice(d, u, e, p) :
           u \in {v \in Users : d.user[v] # "absent" /\ Cardinality(DevicesOf(d, v)) < MaxDevices},
           e \in {f \in Devices : NewDevice(d, f)}, p \in {q \in Ports : NextFree(d, q)}},
      {DeleteDevice(d, e) : e \in {f \in Devices : ~NewDevice(d, f)}},
      {RotateDevice(d, e, p) : e \in {f \in Devices : ~NewDevice(d, f)},
                               p \in {q \in Ports : NextFree(d, q)}},
      {DisableUser(d, u) : u \in {v \in Users : d.user[v] = "enabled"}},
      {EnableUser(d, u) : u \in {v \in Users : d.user[v] = "disabled"}},
      {DeleteUser(d, u) : u \in {v \in Users : d.user[v] # "absent"}}}

-----------------------------------------------------------------------------
(* wppctl.  Without the table, block and unblock fail.                     *)

Apply(call, blocked) ==
    IF call.op = "block" THEN blocked \cup call.ports ELSE blocked \ call.ports

Called(call) == [fw EXCEPT !.blocked = Apply(call, @)]
Rebuilt(blocked) == [table |-> TRUE, blocked |-> blocked]
Flushed == [table |-> FALSE, blocked |-> {}]

Init ==
    /\ db = Empty
    /\ fw = Rebuilt(Blocked(Empty))
    /\ lock = NoOne
    /\ pc = [c \in Clients |-> "idle"]
    /\ work = Empty /\ todo = <<>> /\ called = FALSE
    /\ seen = [x \in Readers |-> {}]
    /\ mpc = "idle" /\ spc = "idle"
    /\ disturbed = FALSE /\ faults = 0 /\ crashes = 0 /\ flushes = 0 /\ runs = 0

MayFail == faults < MaxFaults /\ faults' = faults + 1 /\ UNCHANGED <<crashes, flushes, runs>>
Forget(x) == seen' = [seen EXCEPT ![x] = {}]
Read(x) == seen' = [seen EXCEPT ![x] = Blocked(db)]
Goto(c, step) == pc' = [pc EXCEPT ![c] = step]
EndTxn == work' = Empty /\ todo' = <<>> /\ called' = FALSE

(* A call that fails, or whose caller is killed, has worked or it has not. *)
Perhaps(call) == IF fw.table THEN {fw, Called(call)} ELSE {fw}

-----------------------------------------------------------------------------
(* A client: _change() around one operation.                               *)

Begin(c) ==
    /\ pc[c] = "idle" /\ lock = NoOne
    /\ \E op \in Operations(db) : work' = op.db /\ todo' = op.calls
    /\ lock' = c /\ Goto(c, "calls") /\ UNCHANGED called
    /\ UNCHANGED <<db, fw, seen, mpc, spc, disturbed, bounds>>

(* take_free_slot raises NoFreeSlots: an empty transaction.                *)
Refused(c) ==
    /\ pc[c] = "idle" /\ lock = NoOne
    /\ FreePorts(db) = {}
    /\ UNCHANGED vars

(* Faulty: trusts the calls already made.                                  *)
RollBackOnly(c, touched) == lock' = NoOne /\ EndTxn /\ Goto(c, "idle")

(* ROLLBACK; _change's handler rebuilds the table if it has been touched.  *)
RollBack(c, touched) ==
    lock' = NoOne /\ EndTxn /\ Goto(c, IF touched THEN "resync" ELSE "idle")

Call(c) ==
    /\ pc[c] = "calls" /\ todo # <<>>
    /\ \/ /\ fw.table /\ fw' = Called(Head(todo))
          /\ todo' = Tail(todo) /\ called' = TRUE
          /\ UNCHANGED <<lock, work, pc, bounds>>
       \/ ~fw.table /\ RollBack(c, TRUE) /\ UNCHANGED <<fw, bounds>>
       \/ fw' \in Perhaps(Head(todo)) /\ MayFail /\ RollBack(c, TRUE)
    /\ UNCHANGED <<db, seen, mpc, spc, disturbed>>

Commit(c) ==
    /\ pc[c] = "calls" /\ todo = <<>>
    /\ \/ /\ db' = work /\ lock' = NoOne /\ EndTxn /\ Goto(c, "idle")
          /\ UNCHANGED bounds
       \/ db' = db /\ MayFail /\ RollBack(c, called)
    /\ UNCHANGED <<fw, seen, mpc, spc, disturbed>>

(* wppctl sync loads what it has read, under nobody's lock; a failure of   *)
(* ss comes too late to matter.                                            *)
LoadWithoutLock(x) ==
    /\ fw' = Rebuilt(seen[x])
    /\ disturbed' = (disturbed \/ lock \in Clients \/ seen[x] # Blocked(db))
    /\ MayFail \/ UNCHANGED bounds

(* It fails before, over the database or nft, and leaves the table alone.  *)
EndWithoutLoad(harm) == MayFail /\ fw' = fw /\ disturbed' = (disturbed \/ harm)

(* sync_firewall outside the transaction: wppctl reads the database and    *)
(* later loads the new table; a failure is swallowed.                      *)
ResyncRead(c) ==
    /\ pc[c] = "resync"
    /\ \/ Read(c) /\ Goto(c, "load") /\ UNCHANGED <<fw, disturbed, bounds>>
       \/ EndWithoutLoad(TRUE) /\ Goto(c, "idle") /\ UNCHANGED seen
    /\ UNCHANGED <<db, lock, txn, mpc, spc>>

ResyncLoad(c) ==
    /\ pc[c] = "load"
    /\ LoadWithoutLock(c) \/ EndWithoutLoad(TRUE)
    /\ Forget(c) /\ Goto(c, "idle")
    /\ UNCHANGED <<db, lock, txn, mpc, spc>>

(* A killed client: SQLite drops its transaction, nobody resyncs.          *)
Dies(c) ==
    /\ pc[c] # "idle"
    /\ crashes < MaxCrashes /\ crashes' = crashes + 1
    /\ IF pc[c] = "calls" /\ todo # <<>> THEN fw' \in Perhaps(Head(todo)) ELSE fw' = fw
    /\ IF lock = c THEN lock' = NoOne /\ EndTxn ELSE UNCHANGED <<lock, txn>>
    /\ Forget(c) /\ Goto(c, "idle") /\ disturbed' = TRUE
    /\ UNCHANGED <<db, mpc, spc, faults, flushes, runs>>

ClientGoesOn(c) == Call(c) \/ Commit(c) \/ ResyncRead(c) \/ ResyncLoad(c)

-----------------------------------------------------------------------------
(* The maintainer: what pool.maintain() does to the ports.  Its files and  *)
(* processes are the subject of module Pool.                               *)

Restatus(d, from, to) ==
    [user |-> d.user, device |-> d.device,
     slot |-> [p \in Ports |-> IF d.slot[p].status = from THEN Slot(to) ELSE d.slot[p]]]

With(d, status) == {p \in Ports : d.slot[p].status = status}

(* abort_staged, then stage_dirty; with new, create_shards as well.        *)
Dropped(d) == Restatus(Restatus(d, "renewing", "dirty"), "staged", "none")
Renewing(d) == Restatus(Dropped(d), "dirty", "renewing")
Grown(d) == Restatus(Renewing(d), "none", "staged")
Activated(d) == Restatus(Restatus(d, "renewing", "free"), "staged", "free")

(* Faulty: leaves it to the next sync to block the ports of new shards.    *)
StageWithoutSync ==
    /\ mpc = "idle" /\ lock = NoOne
    /\ runs < Maintenances /\ runs' = runs + 1
    /\ db' \in {Renewing(db), Grown(db)}
    /\ mpc' = IF With(db', "staged") \cup With(db', "renewing") # {} THEN "apply" ELSE "idle"
    /\ UNCHANGED <<fw, lock, pc, txn, seen, spc, disturbed, faults, crashes, flushes>>

Stage ==
    /\ mpc = "idle" /\ lock = NoOne
    /\ runs < Maintenances /\ runs' = runs + 1
    /\ db' \in {Renewing(db), Grown(db)}
    /\ mpc' = IF With(db', "staged") # {} THEN "sync"
              ELSE IF With(db', "renewing") # {} THEN "apply" ELSE "idle"
    /\ UNCHANGED <<fw, lock, pc, txn, seen, spc, disturbed, faults, crashes, flushes>>

(* Faulty: reads while clients may write.                                  *)
ReadWithoutLock ==
    /\ mpc \in {"sync", "resync"}
    /\ UNCHANGED lock /\ Read(Maintainer)
    /\ mpc' = IF mpc = "sync" THEN "load" ELSE "reload"
    /\ UNCHANGED <<db, fw, pc, txn, spc, disturbed, bounds>>

(* _sync_firewall: the write lock, then wppctl reads and loads.            *)
LockAndRead ==
    /\ mpc \in {"sync", "resync"} /\ lock = NoOne
    /\ lock' = Maintainer /\ Read(Maintainer)
    /\ mpc' = IF mpc = "sync" THEN "load" ELSE "reload"
    /\ UNCHANGED <<db, fw, pc, txn, spc, disturbed, bounds>>

(* A sync that fails has loaded the table (and then ss failed) or not.     *)
PerhapsLoaded(x) == {fw, Rebuilt(seen[x])}

(* Faulty: a failure leaves the transaction open.                          *)
LoadAndPerhapsUnlock ==
    /\ mpc \in {"load", "reload"}
    /\ \/ /\ fw' = Rebuilt(seen[Maintainer]) /\ disturbed' = FALSE /\ lock' = NoOne
          /\ mpc' = IF mpc = "load" THEN "apply" ELSE "idle"
          /\ UNCHANGED bounds
       \/ /\ fw' \in PerhapsLoaded(Maintainer) /\ UNCHANGED disturbed /\ lock' = lock /\ MayFail
          /\ mpc' = IF mpc = "load" THEN "abort" ELSE "idle"
    /\ Forget(Maintainer)
    /\ UNCHANGED <<db, pc, txn, spc>>

LoadAndUnlock ==
    /\ mpc \in {"load", "reload"}
    /\ \/ /\ fw' = Rebuilt(seen[Maintainer]) /\ disturbed' = FALSE
          /\ mpc' = IF mpc = "load" THEN "apply" ELSE "idle"
          /\ UNCHANGED bounds
       \/ /\ fw' \in PerhapsLoaded(Maintainer) /\ UNCHANGED disturbed /\ MayFail
          /\ mpc' = IF mpc = "load" THEN "abort" ELSE "idle"
    /\ Forget(Maintainer) /\ lock' = NoOne
    /\ UNCHANGED <<db, pc, txn, spc>>

(* The restarts and health checks of apply(), whose failure it rolls back, *)
(* and its commit, whose failure it does not.                              *)
Activate ==
    /\ mpc = "apply"
    /\ \/ lock = NoOne /\ db' = Activated(db) /\ mpc' = "idle" /\ UNCHANGED bounds
       \/ MayFail /\ mpc' \in {"abort", "idle"} /\ UNCHANGED db
    /\ UNCHANGED <<fw, lock, pc, txn, seen, spc, disturbed>>

(* abort_staged after a failure; its own failure ends apply() there.       *)
Abandon ==
    /\ mpc = "abort"
    /\ \/ /\ lock = NoOne /\ db' = Dropped(db) /\ UNCHANGED bounds
          /\ mpc' = IF With(db, "staged") # {} THEN "resync" ELSE "idle"
       \/ MayFail /\ mpc' = "idle" /\ UNCHANGED db
    /\ UNCHANGED <<fw, lock, pc, txn, seen, spc, disturbed>>

MaintainerGoesOn == LockAndRead \/ LoadAndUnlock \/ Activate \/ Abandon

-----------------------------------------------------------------------------
(* The service: nftables restarts and flushes every table, and systemd     *)
(* then restarts wpp-firewall, whose wppctl sync takes no lock.            *)

Flush ==
    /\ spc = "idle"
    /\ flushes < MaxFlushes /\ flushes' = flushes + 1
    /\ fw' = Flushed /\ spc' = "sync"
    /\ UNCHANGED <<db, lock, pc, txn, seen, mpc, disturbed, faults, crashes, runs>>

(* The unit is a oneshot without Restart: when its sync fails, nobody      *)
(* tries again, and the table stays missing unless another has rebuilt it. *)
ServiceRead ==
    /\ spc = "sync"
    /\ \/ Read(Service) /\ spc' = "load" /\ UNCHANGED <<fw, disturbed, bounds>>
       \/ EndWithoutLoad(~fw.table) /\ spc' = "idle" /\ UNCHANGED seen
    /\ UNCHANGED <<db, lock, pc, txn, mpc>>

ServiceLoad ==
    /\ spc = "load" /\ spc' = "idle"
    /\ LoadWithoutLock(Service) \/ EndWithoutLoad(~fw.table)
    /\ Forget(Service)
    /\ UNCHANGED <<db, lock, pc, txn, mpc>>

ServiceGoesOn == ServiceRead \/ ServiceLoad

-----------------------------------------------------------------------------

Next ==
    \/ \E c \in Clients : Begin(c) \/ Refused(c) \/ ClientGoesOn(c) \/ Dies(c)
    \/ Stage \/ MaintainerGoesOn
    \/ Flush \/ ServiceGoesOn

Spec == Init /\ [][Next]_vars

(* What has begun goes on; the lock is granted to one who keeps asking.    *)
Fairness ==
    /\ \A c \in Clients : WF_vars(ClientGoesOn(c))
    /\ SF_vars(MaintainerGoesOn)
    /\ WF_vars(ServiceGoesOn)

FairSpec == Spec /\ Fairness

-----------------------------------------------------------------------------
(* Properties.                                                             *)

VariablesTyped ==
    /\ db \in Database /\ work \in Database
    /\ fw \in [table : BOOLEAN, blocked : SUBSET Ports]
    /\ lock \in Clients \cup {Maintainer, NoOne}
    /\ pc \in [Clients -> {"idle", "calls", "resync", "load"}]
    /\ todo \in Seq(Calls) /\ called \in BOOLEAN
    /\ seen \in [Readers -> SUBSET Ports]
    /\ mpc \in {"idle", "sync", "load", "apply", "abort", "resync", "reload"}
    /\ spc \in {"idle", "sync", "load"}
    /\ disturbed \in BOOLEAN /\ {faults, crashes, flushes, runs} \subseteq Nat

(* Every variable stays in its type, and a slot has a device exactly while *)
(* it is assigned, which no CHECK of the schema enforces (db.py:23-33).    *)
TypeOK ==
    /\ VariablesTyped
    /\ \A p \in Ports : db.slot[p].status = "assigned" <=> db.slot[p].device # NoOne

Closed(p) == fw.table /\ p \in fw.blocked

(* Nobody is between a wppctl call and its commit or its resync.           *)
Quiet == lock = NoOne /\ (\A c \in Clients : pc[c] = "idle") /\ spc = "idle"

Matches == \A p \in ActivePorts(db) : Closed(p) <=> p \in Blocked(db)

(* Whenever nobody is at work, a port in use is open exactly if it belongs *)
(* to a device of an enabled user (users.py:4, FINDINGS.md 19 and 28),     *)
(* whichever calls, commits and steps of the maintainer have failed, and   *)
(* though nftables has been restarted.  Excluded is what "disturbed" says, *)
(* until the maintainer's next rebuild: a client that was killed, a        *)
(* client's resync or the service's sync that failed before it loaded the  *)
(* table (the code repeats neither), and one that overlapped a change.     *)
FirewallMatchesDatabase == Quiet /\ ~disturbed => Matches

(* At no moment is a port open that neither the committed database nor the *)
(* transaction about to commit permits: a client that is only starting or  *)
(* has just been switched off cannot slip in between.  Without the table   *)
(* every port is open.  Excluded are the moments between a restart of      *)
(* nftables and the end of the service's sync, those when a rebuild is     *)
(* about to undo a failed operation, and what "disturbed" excludes.        *)
OpenOnlyIfPermitted ==
    (/\ ~disturbed /\ (\A c \in Clients : pc[c] \in {"idle", "calls"})
     /\ fw.table \/ spc = "idle") =>
        \A p \in ActivePorts(db) :
            ~Closed(p) => p \in Permitted(db) \/ (lock \in Clients /\ p \in Permitted(work))

(* slots.device_id and devices.slot_id, written by separate statements of  *)
(* several functions and tied by no foreign key, stay each other's         *)
(* inverse: no slot in use is lost or shared, and no device outlives its   *)
(* slot or its user.                                                       *)
SlotsMatchDevices ==
    /\ \A p \in Ports :
         DeviceAt(db, p) = IF db.slot[p].status = "assigned" THEN {db.slot[p].device} ELSE {}
    /\ \A e \in Devices : db.device[e] # NoDevice => db.user[db.device[e].user] # "absent"

(* The rebuild by the maintainer, under the write lock, leaves the table   *)
(* that the committed database asks for, whatever went wrong before it and *)
(* whoever is waiting.                                                     *)
LockedSyncIsExact ==
    [][(mpc \in {"load", "reload"} /\ mpc' # mpc /\ faults' = faults)
         => fw' = Rebuilt(Blocked(db'))]_vars

(* Every operation gives the write lock back and every maintenance ends,   *)
(* though each waits for the lock the others hold.                         *)
EverythingEnds ==
    /\ \A c \in Clients : pc[c] # "idle" ~> pc[c] = "idle"
    /\ mpc # "idle" ~> mpc = "idle"
=============================================================================
