--------------------------- MODULE SlotLifecycle ---------------------------
(***************************************************************************)
(* What the pool promises to those who hand out slots, without staging,    *)
(* files, processes, failures or restarts: a slot appears clean, is given  *)
(* to one device, is dirty when it comes back, and is clean again only     *)
(* under a secret nobody has ever been given.  Module Pool implements it.  *)
(***************************************************************************)
EXTENDS Integers

CONSTANT Slots

VARIABLES life,    \* life[s]: status and secret of slot s, as users of the pool see it
          given    \* given[s]: the secrets of slot s ever given to a device

Absent == [status |-> "absent", secret |-> 0]

Init == /\ life = [s \in Slots |-> Absent]
        /\ given = [s \in Slots |-> {}]

(* The slots as they are with those of S given back and those of T taken.  *)
Changed(S, T) ==
    [s \in Slots |-> IF s \in S THEN [life[s] EXCEPT !.status = "dirty"]
                     ELSE IF s \in T THEN [life[s] EXCEPT !.status = "assigned"]
                     ELSE life[s]]

(* A device gets slot s; it gives back slot old if it had one (S = {old}). *)
Give(s, S) ==
    /\ life[s].status = "free" /\ life[s].secret \notin given[s]
    /\ \A old \in S : life[old].status = "assigned"
    /\ life' = Changed(S, {s})
    /\ given' = [given EXCEPT ![s] = @ \cup {life[s].secret}]

Return(S) ==
    /\ S # {} /\ \A s \in S : life[s].status = "assigned"
    /\ life' = Changed(S, {})
    /\ UNCHANGED given

(* Absent and dirty slots become clean under secrets nobody was given.     *)
Refresh ==
    /\ \A s \in Slots :
         \/ life'[s] = life[s]
         \/ /\ life[s].status \in {"absent", "dirty"}
            /\ life'[s].status = "free"
            /\ life'[s].secret # life[s].secret /\ life'[s].secret \notin given[s]
    /\ UNCHANGED given

Next ==
    \/ \E s \in Slots : Give(s, {}) \/ \E old \in Slots \ {s} : Give(s, {old})
    \/ \E S \in SUBSET Slots : Return(S)
    \/ Refresh

Spec == Init /\ [][Next]_<<life, given>>
=============================================================================
