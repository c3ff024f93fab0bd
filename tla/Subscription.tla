---------------------------- MODULE Subscription ----------------------------
(***************************************************************************)
(* What a user has paid for, and why he is switched off: the columns       *)
(* enabled, disabled_reason, expires_at, traffic_limit_bytes and period_*  *)
(* of one user, changed by webproxy/users.py.  Users do not interact here, *)
(* so one is enough; his ports follow "enabled" in module Access.          *)
(*                                                                         *)
(* The clients are the panel and the bot.  Every operation is one          *)
(* transaction; extend(), which computes the new expiry from the old one,  *)
(* is two steps under SQLite's write lock.  An operation whose wppctl call *)
(* or commit fails changes nothing.  Time is counted in days, traffic in   *)
(* units of the smallest limit.                                            *)
(***************************************************************************)
EXTENDS Integers

CONSTANTS Clients,
          Expiries,    \* expiry dates the panel may set
          Days,        \* lengths of an extension
          Limits,      \* traffic limits the panel may set
          MaxNow,      \* bound: the last day
          MaxExpiry,   \* bound: the last expiry date
          MaxUsed,     \* bound: traffic of a period
          Null,        \* no expiry, no limit, no reason
          NoOne

Reasons == {"manual", "expired", "traffic_limit"}
Jobs == [expires : Nat, days : Nat \ {0}, enableNow : BOOLEAN]

ASSUME SubscriptionConstants ==
    /\ {MaxNow, MaxExpiry, MaxUsed} \subseteq Nat
    /\ Expiries \subseteq Nat
    /\ Days \subseteq Nat \ {0} /\ Limits \subseteq Nat \ {0}
    /\ Null \notin Nat \cup Reasons \cup Jobs
    /\ NoOne \notin Clients

VARIABLES
    now,     \* db.now()
    user,    \* the committed row of the user
    lock,    \* who holds SQLite's write lock
    job      \* job[c]: the extension that client c is writing

vars == <<now, user, lock, job>>

Users == [enabled : BOOLEAN,
          reason  : Reasons \cup {Null},
          expires : Nat \cup {Null},
          limit   : Nat \cup {Null},
          used    : Nat]               \* period_up + period_down

Expired(u) == u.expires # Null /\ u.expires <= now
LimitReached(u) == u.limit # Null /\ u.used >= u.limit

-----------------------------------------------------------------------------
(* The rows that the functions leave.                                      *)

Enabled(u) == [u EXCEPT !.enabled = TRUE, !.reason = Null]
Disabled(u, reason) == [u EXCEPT !.enabled = FALSE, !.reason = reason]

(* Faulty: looks at the expiry only.                                       *)
ReenableUnlessExpired(u, reason) ==
    IF ~u.enabled /\ u.reason = reason /\ ~Expired(u) THEN Enabled(u) ELSE u

MaybeReenable(u, reason) ==
    IF ~u.enabled /\ u.reason = reason /\ ~Expired(u) /\ ~LimitReached(u)
    THEN Enabled(u) ELSE u

WithExpiry(u, expires, enableNow) ==
    LET v == [u EXCEPT !.expires = expires]
    IN  IF enableNow THEN MaybeReenable(v, "expired") ELSE v

WithLimit(u, limit, enableNow) ==
    LET v == [u EXCEPT !.limit = limit]
    IN  IF enableNow THEN MaybeReenable(v, "traffic_limit") ELSE v

(* max(now, expires_at or 0)                                               *)
Base(u) == IF u.expires # Null /\ u.expires > now THEN u.expires ELSE now

-----------------------------------------------------------------------------

(* create_user: whatever the expiry, he starts switched on.                *)
Init ==
    /\ now = 0
    /\ \E expires \in Expiries \cup {Null}, limit \in Limits \cup {Null} :
         user = [enabled |-> TRUE, reason |-> Null, expires |-> expires,
                 limit |-> limit, used |-> 0]
    /\ lock = NoOne
    /\ job = [c \in Clients |-> Null]

Commit(row) == lock = NoOne /\ user' = row /\ UNCHANGED <<now, lock, job>>

(* Faulty: leaves the reason behind.                                       *)
ForgetReason == ~user.enabled /\ Commit([user EXCEPT !.enabled = TRUE])

EnableUser == ~user.enabled /\ Commit(Enabled(user))
DisableUser(reason) == user.enabled /\ Commit(Disabled(user, reason))
SetExpiry(expires, enableNow) == Commit(WithExpiry(user, expires, enableNow))
SetTrafficLimit(limit, enableNow) == Commit(WithLimit(user, limit, enableNow))

Extension(days, enableNow) ==
    [expires |-> Base(user) + days, days |-> days, enableNow |-> enableNow]

(* Faulty: reads the expiry before it has the lock.                        *)
ReadThenLock(c, days, enableNow) ==
    /\ job[c] = Null
    /\ Base(user) + days <= MaxExpiry
    /\ job' = [job EXCEPT ![c] = Extension(days, enableNow)]
    /\ UNCHANGED <<now, user, lock>>

(* BEGIN IMMEDIATE and the read of the row.                                *)
BeginExtend(c, days, enableNow) ==
    /\ lock = NoOne
    /\ Base(user) + days <= MaxExpiry
    /\ lock' = c
    /\ job' = [job EXCEPT ![c] = Extension(days, enableNow)]
    /\ UNCHANGED <<now, user>>

(* The nested set_expiry and the commit, or a failure and the rollback.    *)
EndExtend(c) ==
    /\ job[c] # Null
    /\ \/ user' = WithExpiry(user, job[c].expires, job[c].enableNow)
       \/ user' = user
    /\ lock' = NoOne
    /\ job' = [job EXCEPT ![c] = Null]
    /\ UNCHANGED now

-----------------------------------------------------------------------------
(* The worker, as PLAN.md 7 plans it: it counts traffic, switches off who  *)
(* is out of time or traffic, and starts a new period every month.         *)

CountTraffic == user.enabled /\ user.used < MaxUsed /\ Commit([user EXCEPT !.used = @ + 1])
NewPeriod == user.used > 0 /\ Commit([user EXCEPT !.used = 0])
SwitchOffExpired == Expired(user) /\ DisableUser("expired")
SwitchOffLimited == LimitReached(user) /\ DisableUser("traffic_limit")

Tick == now < MaxNow /\ now' = now + 1 /\ UNCHANGED <<user, lock, job>>

Next ==
    \/ EnableUser \/ DisableUser("manual")
    \/ \E enableNow \in BOOLEAN :
         \/ \E expires \in Expiries \cup {Null} : SetExpiry(expires, enableNow)
         \/ \E limit \in Limits \cup {Null} : SetTrafficLimit(limit, enableNow)
         \/ \E c \in Clients, days \in Days : BeginExtend(c, days, enableNow)
    \/ \E c \in Clients : EndExtend(c)
    \/ CountTraffic \/ NewPeriod \/ SwitchOffExpired \/ SwitchOffLimited
    \/ Tick

Spec == Init /\ [][Next]_vars

-----------------------------------------------------------------------------
(* Properties.                                                             *)

(* Every variable stays in its type, the columns enabled and               *)
(* disabled_reason, written by four functions, agree, and the client that  *)
(* writes an extension is the one that holds the lock.                     *)
TypeOK ==
    /\ now \in Nat /\ user \in Users
    /\ user.enabled <=> user.reason = Null
    /\ lock \in Clients \cup {NoOne}
    /\ job \in [Clients -> Jobs \cup {Null}]
    /\ \A c \in Clients : job[c] # Null <=> lock = c

(* Only the administrator's enable_user gives access to somebody who is    *)
(* switched off by hand, out of time or out of traffic.  No sequence of    *)
(* extensions, new dates and new limits does, in whatever order they meet  *)
(* the worker and each other (users.py:229, PLAN.md 7.5).                  *)
OnlyEnableUserOverrides ==
    [][(~user.enabled /\ user'.enabled) =>
         \/ EnableUser
         \/ user.reason # "manual" /\ ~Expired(user') /\ ~LimitReached(user')]_vars

(* No paid day is lost: an extension that commits adds its days to the     *)
(* expiry committed at that moment, however many are under way at once     *)
(* (users.py:252).                                                         *)
NoDayIsLost ==
    [][\A c \in Clients :
         (job[c] # Null /\ job'[c] = Null /\ user' # user /\ user.expires # Null)
             => user'.expires >= user.expires + job[c].days]_vars
=============================================================================
