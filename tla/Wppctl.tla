------------------------------- MODULE Wppctl -------------------------------
(***************************************************************************)
(* Inside one call of wppctl (webproxy/ctl.py).  Module Access takes block *)
(* and unblock as atomic and sync as a read and a load; here each is the   *)
(* nft and ss commands that it runs, and connections through the relay may *)
(* be opened between any two of them.  A rejected port lets nothing new    *)
(* in, but a connection that is established ends only when ss -K kills it, *)
(* or when one of its ends gives it up.                                    *)
(*                                                                         *)
(* The processes are the clients, which switch one user's port on or off   *)
(* in a transaction and rebuild the table when it fails; the maintainer,   *)
(* which rebuilds it under the write lock; and the service, which does so  *)
(* without a lock after nftables has flushed everything.                   *)
(***************************************************************************)
EXTENDS Integers, FiniteSets

CONSTANTS Ports,       \* each the port of one user's device
          Clients, Maintainer, Service,
          MaxFaults,   \* bound: commands and commits that fail, nftables restarts
          NoOne, Null

Processes == Clients \cup {Maintainer, Service}

ASSUME WppctlConstants ==
    /\ MaxFaults \in Nat
    /\ Maintainer # Service /\ {Maintainer, Service} \cap Clients = {}
    /\ NoOne \notin Processes
    /\ Null \notin Ports

VARIABLES
    allowed,   \* ports of enabled users, as committed
    fw,        \* table inet wpp: whether it exists, and its set "blocked"
    conns,     \* ports with an established connection
    lock,      \* who holds SQLite's write lock
    pc,        \* pc[x]: the next command of process x
    port,      \* port[x]: the port that client x is switching
    want,      \* want[x]: the blocked ports that x has read from the database
    before,    \* before[x]: the table as x has listed it
    overtaken, \* history: a rebuild has loaded a table that a change has overtaken
    missed,    \* history: ss has failed
    flushed,   \* history: nftables has been restarted
    faults

history == <<overtaken, missed, flushed>>
vars == <<allowed, fw, conns, lock, pc, port, want, before, history, faults>>

Open(p) == ~fw.table \/ p \notin fw.blocked
NoTable == [table |-> FALSE, blocked |-> {}]
Table(ports) == [table |-> TRUE, blocked |-> ports]

Goto(x, step) == pc' = [pc EXCEPT ![x] = step]

(* The process ends, and its local variables with it.                      *)
Return(x) ==
    /\ Goto(x, "idle")
    /\ port' = [port EXCEPT ![x] = Null]
    /\ want' = [want EXCEPT ![x] = {}]
    /\ before' = [before EXCEPT ![x] = NoTable]
    /\ lock' = IF lock = x THEN NoOne ELSE lock

Fault == faults < MaxFaults /\ faults' = faults + 1

Init ==
    /\ allowed \in SUBSET Ports
    /\ fw = Table(Ports \ allowed)
    /\ conns = {}
    /\ lock = NoOne
    /\ pc = [x \in Processes |-> "idle"]
    /\ port = [x \in Processes |-> Null]
    /\ want = [x \in Processes |-> {}]
    /\ before = [x \in Processes |-> NoTable]
    /\ overtaken = FALSE /\ missed = FALSE /\ flushed = FALSE /\ faults = 0

-----------------------------------------------------------------------------
(* A client: one disable_user or enable_user and its wppctl call.          *)

Begin(c) ==
    /\ pc[c] = "idle" /\ lock = NoOne /\ lock' = c
    /\ \E p \in Ports :
         /\ port' = [port EXCEPT ![c] = p]
         /\ Goto(c, IF p \in allowed THEN "add" ELSE "list")
    /\ UNCHANGED <<allowed, fw, conns, want, before, history, faults>>

(* ROLLBACK, and then _change's handler runs wppctl sync.                  *)
RollBack(c) ==
    /\ lock' = NoOne /\ Goto(c, "resync")
    /\ port' = [port EXCEPT ![c] = Null] /\ before' = [before EXCEPT ![c] = NoTable]
    /\ UNCHANGED want

Proceed(c, step) == Goto(c, step) /\ UNCHANGED <<lock, port, want, before>>

(* Faulty: takes a missing table for an empty one.                         *)
AddToAnything(c) ==
    /\ pc[c] = "add" /\ Proceed(c, "kill")
    /\ fw' = [fw EXCEPT !.blocked = @ \cup {port[c]}]
    /\ UNCHANGED <<allowed, conns, history, faults>>

(* cmd_block: nft add element; it fails without the table.                 *)
Add(c) ==
    /\ pc[c] = "add"
    /\ \/ /\ fw.table /\ fw' = [fw EXCEPT !.blocked = @ \cup {port[c]}]
          /\ Proceed(c, "kill") /\ UNCHANGED faults
       \/ ~fw.table /\ fw' = fw /\ RollBack(c) /\ UNCHANGED faults
       \/ fw' = fw /\ RollBack(c) /\ Fault
    /\ UNCHANGED <<allowed, conns, history>>

(* ss -K; when it fails, wppctl only warns.                                *)
Kills(ports) ==
    \/ conns' = conns \ ports /\ UNCHANGED <<missed, faults>>
    \/ conns' = conns /\ missed' = TRUE /\ Fault

(* Unlike a failed ss, one that is missing or hangs ends cmd_block.        *)
Kill(c) ==
    /\ pc[c] = "kill"
    /\ \/ Kills({port[c]}) /\ Proceed(c, "commit")
       \/ conns' \in {conns, conns \ {port[c]}} /\ RollBack(c) /\ Fault /\ UNCHANGED missed
    /\ UNCHANGED <<allowed, fw, overtaken, flushed>>

(* cmd_unblock: nft list set, then nft delete element of what it listed.   *)
List(c) ==
    /\ pc[c] = "list"
    /\ \/ /\ fw.table /\ Goto(c, "delete") /\ before' = [before EXCEPT ![c] = fw]
          /\ UNCHANGED <<lock, port, want>>
       \/ ~fw.table /\ RollBack(c)
    /\ UNCHANGED <<allowed, fw, conns, history, faults>>

(* Faulty: takes any answer of nft for success.                            *)
DeleteRegardless(c) ==
    /\ pc[c] = "delete"
    /\ fw' = [fw EXCEPT !.blocked = @ \ {port[c]}]
    /\ Goto(c, "commit") /\ before' = [before EXCEPT ![c] = NoTable]
    /\ UNCHANGED <<lock, port, want, allowed, conns, history, faults>>

Delete(c) ==
    /\ pc[c] = "delete"
    /\ LET remove == {port[c]} \cap before[c].blocked
           exists == remove = {} \/ (fw.table /\ remove \subseteq fw.blocked)
       IN  \/ /\ exists /\ fw' = [fw EXCEPT !.blocked = @ \ remove]
              /\ Goto(c, "commit") /\ before' = [before EXCEPT ![c] = NoTable]
              /\ UNCHANGED <<lock, port, want, faults>>
           \/ ~exists /\ fw' = fw /\ RollBack(c) /\ UNCHANGED faults
           \/ fw' = fw /\ RollBack(c) /\ Fault
    /\ UNCHANGED <<allowed, conns, history>>

Commit(c) ==
    /\ pc[c] = "commit"
    /\ \/ /\ allowed' = IF port[c] \in allowed THEN allowed \ {port[c]}
                        ELSE allowed \cup {port[c]}
          /\ Return(c) /\ UNCHANGED faults
       \/ allowed' = allowed /\ RollBack(c) /\ Fault
    /\ UNCHANGED <<fw, conns, history>>

-----------------------------------------------------------------------------
(* wppctl sync, by anybody.                                                *)

(* Faulty: leaves the table to whoever else writes it.                     *)
StartWithoutLock == pc[Maintainer] = "idle" /\ lock' = lock /\ Goto(Maintainer, "resync")

(* _sync_firewall: the write lock around the whole call.                   *)
StartUnderLock == pc[Maintainer] = "idle" /\ lock = NoOne /\ lock' = Maintainer
                  /\ Goto(Maintainer, "resync")

Maintain ==
    /\ StartUnderLock
    /\ UNCHANGED <<allowed, fw, conns, port, want, before, history, faults>>

(* nftables restarts without its tables, and systemd starts wpp-firewall.  *)
Flush ==
    /\ pc[Service] = "idle" /\ Goto(Service, "resync")
    /\ flushed' = TRUE /\ Fault
    /\ fw' = NoTable
    /\ UNCHANGED <<allowed, conns, lock, port, want, before, missed, overtaken>>

ReadDb(x) ==
    /\ pc[x] = "resync" /\ Goto(x, "before")
    /\ want' = [want EXCEPT ![x] = Ports \ allowed]
    /\ UNCHANGED <<allowed, fw, conns, lock, port, before, history, faults>>

ListBefore(x) ==
    /\ pc[x] = "before" /\ Goto(x, "load")
    /\ before' = [before EXCEPT ![x] = fw]
    /\ UNCHANGED <<allowed, fw, conns, lock, port, want, history, faults>>

(* Since x read the database, a change has been committed; or since x      *)
(* listed the table, a port has been opened that x is about to close.      *)
Overtaken(x) ==
    want[x] # Ports \ allowed \/ ~(before[x].blocked \cap want[x] \subseteq fw.blocked)

(* Faulty: lists what is blocked after the new table is in.                *)
LoadThenList(x) ==
    /\ pc[x] = "load" /\ Goto(x, "cut")
    /\ fw' = Table(want[x])
    /\ before' = [before EXCEPT ![x] = Table(want[x])]
    /\ overtaken' = (overtaken \/ Overtaken(x))
    /\ UNCHANGED <<allowed, conns, lock, port, want, missed, flushed, faults>>

(* nft -f replaces the table atomically.                                   *)
Load(x) ==
    /\ pc[x] = "load" /\ Goto(x, "cut")
    /\ fw' = Table(want[x])
    /\ overtaken' = (overtaken \/ Overtaken(x))
    /\ UNCHANGED <<allowed, conns, lock, port, want, before, missed, flushed, faults>>

(* A call that fails before the table is replaced leaves it alone.         *)
GiveUp(x) ==
    /\ pc[x] \in {"resync", "before", "load"} /\ Return(x) /\ Fault
    /\ UNCHANGED <<allowed, fw, conns, history>>

(* Ports that were open before and are closed now lose their connections.  *)
Cut(x) ==
    /\ pc[x] = "cut" /\ Return(x)
    /\ IF before[x].table THEN Kills(want[x] \ before[x].blocked) ELSE UNCHANGED <<conns, missed, faults>>
    /\ UNCHANGED <<allowed, fw, overtaken, flushed>>

-----------------------------------------------------------------------------
(* The clients of the relay.                                               *)

Connect(p) ==
    /\ Open(p) /\ p \notin conns /\ conns' = conns \cup {p}
    /\ UNCHANGED <<allowed, fw, lock, pc, port, want, before, history, faults>>

Disconnect(p) ==
    /\ p \in conns /\ conns' = conns \ {p}
    /\ UNCHANGED <<allowed, fw, lock, pc, port, want, before, history, faults>>

Next ==
    \/ \E c \in Clients : Begin(c) \/ Add(c) \/ Kill(c) \/ List(c) \/ Delete(c) \/ Commit(c)
    \/ Maintain \/ Flush
    \/ \E x \in Processes : ReadDb(x) \/ ListBefore(x) \/ Load(x) \/ GiveUp(x) \/ Cut(x)
    \/ \E p \in Ports : Connect(p) \/ Disconnect(p)

Spec == Init /\ [][Next]_vars

-----------------------------------------------------------------------------
(* Properties.                                                             *)

SyncSteps == {"resync", "before", "load", "cut"}

(* Every variable stays in its type, and a table that does not exist       *)
(* blocks nothing.                                                         *)
TypeOK ==
    /\ allowed \subseteq Ports /\ conns \subseteq Ports
    /\ fw \in [table : BOOLEAN, blocked : SUBSET Ports] /\ (~fw.table => fw.blocked = {})
    /\ lock \in Clients \cup {Maintainer, NoOne}
    /\ pc \in [Processes -> {"idle", "add", "kill", "list", "delete", "commit"} \cup SyncSteps]
    /\ port \in [Processes -> Ports \cup {Null}]
    /\ want \in [Processes -> SUBSET Ports]
    /\ before \in [Processes -> [table : BOOLEAN, blocked : SUBSET Ports]]
    /\ {overtaken, missed, flushed} \subseteq BOOLEAN
    /\ faults \in 0 .. MaxFaults

Quiet == \A x \in Processes : pc[x] = "idle"

(* Nobody without access keeps a connection behind a closed port: between  *)
(* the commands of block, of a failed unblock and of any rebuild, none     *)
(* slips through unkilled (ctl.py:189-193, 275-279), even if rebuilds      *)
(* overlap.  Unless ss has failed, the table has been missing, or a change *)
(* has overtaken one of the rebuilds that hold no lock.                    *)
NoConnectionSurvives ==
    (Quiet /\ ~missed /\ ~flushed /\ ~overtaken) => conns \cap fw.blocked \subseteq allowed

(* The maintainer's rebuild cuts off nobody who has access, whatever the   *)
(* clients and their own rebuilds do meanwhile (pool.py:220).              *)
MaintainerSparesUsers ==
    [][pc[Maintainer] = "cut" /\ pc'[Maintainer] = "idle" => conns \cap allowed \subseteq conns']_vars

(* Where a process is for those who take a call for one step: block has    *)
(* its effect when nft add succeeds; unblock when nft delete does, or when *)
(* the listing shows that the port is open already; sync when nft -f does. *)
StillOpen(x) == port[x] \notin before[x].blocked

Stage(name, p, ports) == [step |-> name, port |-> p, seen |-> ports]

StageOf(x) ==
    CASE pc[x] \in {"add", "list"} \/ (pc[x] = "delete" /\ ~StillOpen(x)) ->
             Stage("calls", port[x], {})
      [] pc[x] \in {"kill", "commit"} \/ (pc[x] = "delete" /\ StillOpen(x)) ->
             Stage("called", port[x], {})
      [] pc[x] = "resync" -> Stage("resync", Null, {})
      [] pc[x] \in {"before", "load"} -> Stage("load", Null, want[x])
      [] pc[x] \in {"idle", "cut"} -> Stage("idle", Null, {})

Seen == [x \in Processes |-> StageOf(x)]

(* While the maintainer only cuts connections its rebuild is over.         *)
LockSeen == IF lock = Maintainer /\ pc[Maintainer] = "cut" THEN NoOne ELSE lock

Atomic == INSTANCE FirewallCalls WITH at <- Seen, lock <- LockSeen

(* The commands of wppctl amount to what users.py and pool.py take its     *)
(* calls for: whoever changes or drops the table between the listing and   *)
(* the deletion of cmd_unblock (ctl.py:196-203), no other port is touched, *)
(* and no transaction commits without its call's effect.                   *)
ImplementsFirewallCalls == Atomic!Spec
=============================================================================
