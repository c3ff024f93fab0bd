--------------------------- MODULE MCSubscription ---------------------------
(***************************************************************************)
(* Module Subscription for TLC, with what PLAN.md asks of an extension.    *)
(***************************************************************************)
EXTENDS Subscription, TLC

Symmetry == Permutations(Clients)

AsksToEnable ==
    \/ \E expires \in Expiries \cup {Null} : SetExpiry(expires, TRUE)
    \/ \E limit \in Limits \cup {Null} : SetTrafficLimit(limit, TRUE)
    \/ \E c \in Clients :
         job[c] # Null /\ job[c].enableNow /\ user'.expires # user.expires /\ EndExtend(c)

(* PLAN.md:233, of an extension or a higher limit: if the reason why he    *)
(* was switched off is gone, switch him on.  A change of the terms, made   *)
(* with enable_now, that removes the last thing against a user whom the    *)
(* worker has switched off gives him access again.                         *)
NobodyWaitsInVain ==
    [][(/\ AsksToEnable /\ user.reason \in {"expired", "traffic_limit"}
        /\ Expired(user) \/ LimitReached(user)
        /\ ~Expired(user') /\ ~LimitReached(user')) => user'.enabled]_vars
=============================================================================
