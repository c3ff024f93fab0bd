------------------------------- MODULE MCPool -------------------------------
(***************************************************************************)
(* Module Pool for TLC, and what a comment of webproxy/pool.py says of the *)
(* rollback and the code does not do.                                      *)
(***************************************************************************)
EXTENDS Pool

(* pool.py:285, of the rollback: "one failing step must not skip the       *)
(* rest".  A maintenance that fails restarts the relay as its last step,   *)
(* whichever step of the rollback fails, unless the maintainer is killed.  *)
RollbackVisitsEveryStep ==
    [][(pc \in RollbackSteps /\ pc' = "idle" /\ crashes' = crashes) => pc = "r_relay"]_vars
=============================================================================
