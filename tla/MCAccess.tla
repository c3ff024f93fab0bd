------------------------------ MODULE MCAccess ------------------------------
(***************************************************************************)
(* Module Access for TLC: clients, users and devices are interchangeable;  *)
(* and what a docstring of webproxy/users.py says of a failed operation.   *)
(***************************************************************************)
EXTENDS Access, TLC

Symmetry == Permutations(Clients) \cup Permutations(Users) \cup Permutations(Devices)

(* users.py:36-38, of an operation that fails after a wppctl call: "the    *)
(* firewall is rebuilt from the committed state".  When nobody is at work  *)
(* and nobody was killed, the table is that of the database.               *)
RebuiltFromCommittedState == Quiet /\ crashes = 0 => Matches
=============================================================================
