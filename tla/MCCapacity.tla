---------------------------- MODULE MCCapacity ------------------------------
(***************************************************************************)
(* Module Capacity for TLC, and what the documentation says of sessions.   *)
(***************************************************************************)
EXTENDS Capacity

(* docs/FINDINGS.md:175, of disabled clients that hold a session:          *)
(* "max_sessions_global = pool_slots, that is a session for every slot,    *)
(* the disabled included" (also :132).  With memory to spare, the relay    *)
(* allows as many sessions as it has profiles.                             *)
SessionPerSlot ==
    relay # NoPlan /\ relay.limits.pending \div (2 * ReserveCost) >= relay.profiles
        => relay.limits.sessions >= relay.profiles

(* A host that has reported no memory, and a small one.  1200 users make   *)
(* 99 shards, or 100 if the product is rounded up.                         *)
Machines == {[users |-> 1200, mem |-> 0], [users |-> 1, mem |-> 512]}
OneMachine == {[users |-> 1, mem |-> 512]}
=============================================================================
