--------------------------- MODULE FirewallCalls ---------------------------
(***************************************************************************)
(* What the callers of wppctl take it for: block and unblock change one    *)
(* port at one moment and touch no other, or fail; sync reads the database *)
(* at one moment and replaces the table at another.  A transaction commits *)
(* only after its call has had its effect.  Module Access is built on it;  *)
(* module Wppctl, with the nft and ss commands one by one, implements it.  *)
(***************************************************************************)
EXTENDS Integers

CONSTANTS Ports, Clients, Maintainer, Service, NoOne, Null

VARIABLES allowed,   \* ports of enabled users, as committed
          fw,        \* table inet wpp: whether it exists, and its set "blocked"
          lock,      \* who holds the write lock
          at         \* at[x]: where x is, the port it switches, what its sync has read

Processes == Clients \cup {Maintainer, Service}

Step(name, p, ports) == [step |-> name, port |-> p, seen |-> ports]
Idle == Step("idle", Null, {})
Resync == Step("resync", Null, {})
Table(exists, ports) == [table |-> exists, blocked |-> ports]

Init == /\ allowed \in SUBSET Ports
        /\ fw = Table(TRUE, Ports \ allowed)
        /\ lock = NoOne
        /\ at = [x \in Processes |-> Idle]

Goto(x, there) == at' = [at EXCEPT ![x] = there]

(* The end of a process, which releases the lock if it holds it.           *)
Leave(x) == Goto(x, Idle) /\ lock' = IF lock = x THEN NoOne ELSE lock

-----------------------------------------------------------------------------
(* A client: a transaction around one call.                                *)

Begin(c) ==
    /\ at[c] = Idle /\ lock = NoOne /\ lock' = c
    /\ \E p \in Ports : Goto(c, Step("calls", p, {}))
    /\ UNCHANGED <<allowed, fw>>

(* The call has its effect, on this port alone: whoever loses access is    *)
(* blocked, whoever gets it is unblocked.                                  *)
Call(c) ==
    /\ at[c].step = "calls" /\ fw.table
    /\ LET p == at[c].port
       IN  /\ fw' = Table(TRUE, IF p \in allowed THEN fw.blocked \cup {p} ELSE fw.blocked \ {p})
           /\ Goto(c, Step("called", p, {}))
    /\ UNCHANGED <<allowed, lock>>

Commit(c) ==
    /\ at[c].step = "called"
    /\ allowed' = IF at[c].port \in allowed THEN allowed \ {at[c].port}
                  ELSE allowed \cup {at[c].port}
    /\ Leave(c) /\ UNCHANGED fw

(* The call or the commit fails, and the client turns to a sync.           *)
Fail(c) ==
    /\ at[c].step \in {"calls", "called"} /\ Goto(c, Resync)
    /\ lock' = NoOne /\ UNCHANGED <<allowed, fw>>

-----------------------------------------------------------------------------
(* sync: of clients after a failure, of the maintainer under the lock, and *)
(* of the service once the table is gone.                                  *)

Maintain ==
    /\ at[Maintainer] = Idle /\ lock = NoOne /\ lock' = Maintainer
    /\ Goto(Maintainer, Resync) /\ UNCHANGED <<allowed, fw>>

Flush ==
    /\ at[Service] = Idle /\ Goto(Service, Resync)
    /\ fw' = Table(FALSE, {}) /\ UNCHANGED <<allowed, lock>>

Read(x) ==
    /\ at[x].step = "resync" /\ Goto(x, Step("load", Null, Ports \ allowed))
    /\ UNCHANGED <<allowed, fw, lock>>

Load(x) ==
    /\ at[x].step = "load" /\ fw' = Table(TRUE, at[x].seen)
    /\ Leave(x) /\ UNCHANGED allowed

GiveUp(x) ==
    /\ at[x].step \in {"resync", "load"} /\ Leave(x)
    /\ UNCHANGED <<allowed, fw>>

Next ==
    \/ \E c \in Clients : Begin(c) \/ Call(c) \/ Commit(c) \/ Fail(c)
    \/ Maintain \/ Flush
    \/ \E x \in Processes : Read(x) \/ Load(x) \/ GiveUp(x)

Spec == Init /\ [][Next]_<<allowed, fw, lock, at>>
=============================================================================
