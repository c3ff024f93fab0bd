------------------------------ MODULE MCWppctl ------------------------------
(***************************************************************************)
(* Module Wppctl for TLC, and what the documentation says of a restart of  *)
(* nftables.                                                               *)
(***************************************************************************)
EXTENDS Wppctl, TLC

Symmetry == Permutations(Clients) \cup Permutations(Ports)

(* docs/TESTING.md:115, of "systemctl restart nftables": the table comes   *)
(* back and "the disabled stay disabled"; ctl.py:277, of the rebuild:      *)
(* "Ports that were open before and are closed now lose their              *)
(* connections".  When nobody is at work, the port of a disabled user is   *)
(* closed and has no connection.                                           *)
DisabledStayDisabled ==
    (Quiet /\ (faults = 0 \/ flushed)) => \A p \in Ports \ allowed : ~Open(p) /\ p \notin conns
=============================================================================
