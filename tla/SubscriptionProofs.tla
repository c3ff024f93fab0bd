------------------------- MODULE SubscriptionProofs -------------------------
(***************************************************************************)
(* Proofs about Subscription, for any number of clients, any dates, limits *)
(* and lengths of extensions, and without the bounds.                      *)
(***************************************************************************)
EXTENDS Subscription, TLAPS

(* An extension under way holds the lock, so that the row it has read is   *)
(* still the committed one.                                                *)
JobsAreCurrent ==
    \A c \in Clients :
        (job[c] # Null /\ user.expires # Null) => job[c].expires >= user.expires + job[c].days

IInv == TypeOK /\ JobsAreCurrent

-----------------------------------------------------------------------------

(* The rows the functions leave are rows, with enabled and disabled_reason *)
(* in agreement.                                                           *)
Agree(u) == u \in Users /\ (u.enabled <=> u.reason = Null)

LEMMA RowsAgree ==
    ASSUME NEW u, Agree(u)
    PROVE  /\ Agree(Enabled(u))
           /\ \A r \in Reasons : Agree(Disabled(u, r))
           /\ \A e \in Nat \cup {Null}, b \in BOOLEAN : Agree(WithExpiry(u, e, b))
           /\ \A l \in Nat \cup {Null}, b \in BOOLEAN : Agree(WithLimit(u, l, b))
  <1> USE SubscriptionConstants DEF Agree, Users, Reasons
  <1>1. ASSUME NEW v, Agree(v) PROVE Agree(Enabled(v))
    BY <1>1 DEF Enabled
  <1>2. ASSUME NEW v, Agree(v), NEW r PROVE Agree(MaybeReenable(v, r))
    BY <1>1, <1>2 DEF MaybeReenable
  <1>3. \A r \in Reasons : Agree(Disabled(u, r))
    BY DEF Disabled
  <1>4. ASSUME NEW e \in Nat \cup {Null}, NEW b \in BOOLEAN PROVE Agree(WithExpiry(u, e, b))
    <2>1. Agree([u EXCEPT !.expires = e])
      OBVIOUS
    <2> QED  BY <1>2, <2>1 DEF WithExpiry
  <1>5. ASSUME NEW l \in Nat \cup {Null}, NEW b \in BOOLEAN PROVE Agree(WithLimit(u, l, b))
    <2>1. Agree([u EXCEPT !.limit = l])
      OBVIOUS
    <2> QED  BY <1>2, <2>1 DEF WithLimit
  <1> QED  BY <1>1, <1>3, <1>4, <1>5

LEMMA ExpirySet ==
    ASSUME NEW u \in Users, NEW e \in Nat \cup {Null}, NEW b \in BOOLEAN
    PROVE  WithExpiry(u, e, b).expires = e
  BY DEF WithExpiry, MaybeReenable, Enabled, Users

-----------------------------------------------------------------------------

LEMMA Initially == Init => IInv
  <1> SUFFICES ASSUME Init PROVE IInv
    OBVIOUS
  <1> USE SubscriptionConstants DEF Init
  <1>1. user \in Users /\ user.enabled /\ user.reason = Null
    BY DEF Users
  <1>2. \A c \in Clients : job[c] = Null
    OBVIOUS
  <1> QED  BY <1>1, <1>2 DEF IInv, TypeOK, JobsAreCurrent

(* A transaction in one step needs the lock that an extension would hold.  *)
LEMMA CommitKeepsIInv ==
    ASSUME IInv, NEW row, Agree(row), Commit(row)
    PROVE  IInv'
  BY SubscriptionConstants DEF IInv, TypeOK, JobsAreCurrent, Agree, Commit

LEMMA ExtendKeepsIInv ==
    ASSUME IInv, NEW c \in Clients
    PROVE  /\ \A d \in Days, b \in BOOLEAN : BeginExtend(c, d, b) => IInv'
           /\ EndExtend(c) => IInv'
  <1> USE SubscriptionConstants DEF IInv, TypeOK
  <1>1. ASSUME NEW d \in Days, NEW b \in BOOLEAN, BeginExtend(c, d, b) PROVE IInv'
    <2>0. /\ Base(user) \in Nat /\ d \in Nat \ {0}
          /\ user.expires # Null => Base(user) >= user.expires
      BY DEF Base, Users
    <2>1. /\ Extension(d, b) \in Jobs /\ Extension(d, b) # Null
          /\ user.expires # Null => Extension(d, b).expires >= user.expires + d
          /\ Extension(d, b).days = d
      BY <2>0 DEF Extension, Jobs, Users
    <2>2. \A x \in Clients : job[x] = Null
      BY <1>1 DEF BeginExtend
    <2>3. job' = [x \in Clients |-> IF x = c THEN Extension(d, b) ELSE Null]
      BY <1>1, <2>2 DEF BeginExtend
    <2> QED  BY <1>1, <2>1, <2>3 DEF BeginExtend, JobsAreCurrent
  <1>2. ASSUME EndExtend(c) PROVE IInv'
    <2>1. job[c] \in Jobs
      BY <1>2 DEF EndExtend
    <2>2. Agree(user')
      BY <1>2, <2>1, RowsAgree DEF EndExtend, Agree, Jobs
    <2>3. \A x \in Clients : job'[x] = Null
      BY <1>2 DEF EndExtend
    <2> QED  BY <1>2, <2>2, <2>3 DEF EndExtend, JobsAreCurrent, Agree
  <1> QED  BY <1>1, <1>2

LEMMA StepKeepsIInv == IInv /\ [Next]_vars => IInv'
  <1> SUFFICES ASSUME IInv, [Next]_vars PROVE IInv'
    OBVIOUS
  <1>0. Agree(user)
    BY DEF IInv, TypeOK, Agree
  <1>1. CASE EnableUser
    BY <1>0, <1>1, RowsAgree, CommitKeepsIInv DEF EnableUser
  <1>2. ASSUME NEW r \in Reasons, DisableUser(r) PROVE IInv'
    BY <1>0, <1>2, RowsAgree, CommitKeepsIInv DEF DisableUser
  <1>3. ASSUME NEW e \in Expiries \cup {Null}, NEW b \in BOOLEAN, SetExpiry(e, b) PROVE IInv'
    BY <1>0, <1>3, RowsAgree, CommitKeepsIInv, SubscriptionConstants DEF SetExpiry
  <1>4. ASSUME NEW l \in Limits \cup {Null}, NEW b \in BOOLEAN, SetTrafficLimit(l, b) PROVE IInv'
    BY <1>0, <1>4, RowsAgree, CommitKeepsIInv, SubscriptionConstants DEF SetTrafficLimit
  <1>5. CASE CountTraffic
    BY <1>0, <1>5, CommitKeepsIInv DEF CountTraffic, Agree, Users
  <1>6. CASE NewPeriod
    BY <1>0, <1>6, CommitKeepsIInv DEF NewPeriod, Agree, Users
  <1>7. CASE Tick
    BY <1>7, SubscriptionConstants DEF Tick, IInv, TypeOK, JobsAreCurrent
  <1>8. CASE UNCHANGED vars
    BY <1>8 DEF vars, IInv, TypeOK, JobsAreCurrent
  <1> QED
    BY <1>1, <1>2, <1>3, <1>4, <1>5, <1>6, <1>7, <1>8, ExtendKeepsIInv
    DEF Next, SwitchOffExpired, SwitchOffLimited, Reasons

(* The columns stay in their types and agree, and whoever writes an        *)
(* extension holds the lock, for any number of clients.                    *)
THEOREM SubscriptionTypeCorrect == Spec => []TypeOK
  <1>1. IInv => TypeOK
    BY DEF IInv
  <1> QED  BY <1>1, Initially, StepKeepsIInv, PTL DEF Spec

-----------------------------------------------------------------------------

LEMMA ReenablingIsFair ==
    ASSUME NEW u, ~u.enabled, NEW r, MaybeReenable(u, r).enabled
    PROVE  u.reason = r /\ ~Expired(u) /\ ~LimitReached(u) /\ MaybeReenable(u, r) = Enabled(u)
  BY DEF MaybeReenable

(* What set_expiry and set_traffic_limit may do to somebody switched off.  *)
LEMMA TermsAreFair ==
    ASSUME NEW u \in Users, ~u.enabled, NEW e \in Nat \cup {Null}, NEW b \in BOOLEAN,
           NEW v \in {WithExpiry(u, e, b), WithLimit(u, e, b)}, v.enabled
    PROVE  u.reason # "manual" /\ ~Expired(v) /\ ~LimitReached(v)
  <1>1. ASSUME NEW w \in Users, NEW r, MaybeReenable(w, r).enabled, ~w.enabled,
               w.reason = u.reason, r # "manual"
        PROVE  LET x == MaybeReenable(w, r)
               IN  u.reason # "manual" /\ ~Expired(x) /\ ~LimitReached(x)
    <2>1. w.reason = r /\ ~Expired(w) /\ ~LimitReached(w) /\ MaybeReenable(w, r) = Enabled(w)
      BY <1>1, ReenablingIsFair
    <2>2. /\ Enabled(w).expires = w.expires
          /\ Enabled(w).limit = w.limit /\ Enabled(w).used = w.used
      BY DEF Enabled, Users
    <2>3. ~Expired(Enabled(w)) /\ ~LimitReached(Enabled(w))
      BY <2>1, <2>2 DEF Expired, LimitReached
    <2> QED  BY <1>1, <2>1, <2>3
  <1>2. CASE v = WithExpiry(u, e, b)
    <2> DEFINE w == [u EXCEPT !.expires = e]
    <2>1. w \in Users /\ ~w.enabled /\ w.reason = u.reason
      BY DEF Users
    <2>2. b /\ v = MaybeReenable(w, "expired")
      BY <1>2, <2>1 DEF WithExpiry
    <2> QED  BY <1>1, <2>1, <2>2
  <1>3. CASE v = WithLimit(u, e, b)
    <2> DEFINE w == [u EXCEPT !.limit = e]
    <2>1. w \in Users /\ ~w.enabled /\ w.reason = u.reason
      BY DEF Users
    <2>2. b /\ v = MaybeReenable(w, "traffic_limit")
      BY <1>3, <2>1 DEF WithLimit
    <2> QED  BY <1>1, <2>1, <2>2
  <1> QED  BY <1>2, <1>3

(* No sequence of dates, limits and extensions gives access to somebody    *)
(* switched off by hand, out of time or out of traffic.                    *)
THEOREM TermsNeverOverride == Spec => OnlyEnableUserOverrides
  <1>1. IInv /\ [Next]_vars =>
          [(~user.enabled /\ user'.enabled) =>
             \/ EnableUser
             \/ user.reason # "manual" /\ ~Expired(user') /\ ~LimitReached(user')]_vars
    <2> SUFFICES ASSUME IInv, Next, ~user.enabled, user'.enabled, ~EnableUser
                 PROVE  user.reason # "manual" /\ ~Expired(user') /\ ~LimitReached(user')
      BY DEF vars
    <2> USE SubscriptionConstants
    <2>0. user \in Users /\ job \in [Clients -> Jobs \cup {Null}]
      BY DEF IInv, TypeOK
    <2>1. ASSUME NEW b \in BOOLEAN, NEW e \in Expiries \cup {Null}, SetExpiry(e, b)
          PROVE  user.reason # "manual" /\ ~Expired(user') /\ ~LimitReached(user')
      <3>1. user' \in {WithExpiry(user, e, b), WithLimit(user, e, b)} /\ e \in Nat \cup {Null}
        BY <2>1 DEF SetExpiry, Commit
      <3> QED  BY <2>0, <3>1, TermsAreFair
    <2>2. ASSUME NEW b \in BOOLEAN, NEW l \in Limits \cup {Null}, SetTrafficLimit(l, b)
          PROVE  user.reason # "manual" /\ ~Expired(user') /\ ~LimitReached(user')
      <3>1. user' \in {WithExpiry(user, l, b), WithLimit(user, l, b)} /\ l \in Nat \cup {Null}
        BY <2>2 DEF SetTrafficLimit, Commit
      <3> QED  BY <2>0, <3>1, TermsAreFair
    <2>3. ASSUME NEW c \in Clients, EndExtend(c)
          PROVE  user.reason # "manual" /\ ~Expired(user') /\ ~LimitReached(user')
      <3>1. PICK e \in Nat \cup {Null}, b \in BOOLEAN : user' = WithExpiry(user, e, b)
        BY <2>0, <2>3 DEF EndExtend, Jobs
      <3> QED  BY <2>0, <3>1, TermsAreFair
    <2>4. CASE CountTraffic \/ NewPeriod
      BY <2>0, <2>4 DEF CountTraffic, NewPeriod, Commit, Users
    <2>5. ~(\E r \in Reasons : DisableUser(r))
      BY DEF DisableUser
    <2>6. ~\E b \in BOOLEAN, c \in Clients, d \in Days : BeginExtend(c, d, b)
      BY DEF BeginExtend
    <2>7. ~Tick
      BY DEF Tick
    <2> QED
      BY <2>1, <2>2, <2>3, <2>4, <2>5, <2>6, <2>7
      DEF Next, SwitchOffExpired, SwitchOffLimited, Reasons
  <1> QED
    BY <1>1, Initially, StepKeepsIInv, PTL DEF Spec, OnlyEnableUserOverrides

-----------------------------------------------------------------------------

(* However many clients extend at once, every extension that commits adds  *)
(* its days to the expiry committed at that moment.                        *)
THEOREM ExtensionsAddUp == Spec => NoDayIsLost
  <1>1. IInv /\ [Next]_vars =>
          [\A c \in Clients :
             (job[c] # Null /\ job'[c] = Null /\ user' # user /\ user.expires # Null)
               => user'.expires >= user.expires + job[c].days]_vars
    <2> SUFFICES ASSUME IInv, Next, NEW c \in Clients,
                        job[c] # Null, job'[c] = Null, user' # user, user.expires # Null
                 PROVE  user'.expires >= user.expires + job[c].days
      BY DEF vars
    <2>0. user \in Users /\ job[c] \in Jobs /\ lock = c
          /\ \A x \in Clients : job[x] # Null => x = c
      BY DEF IInv, TypeOK
    <2>1. lock # NoOne
      BY <2>0, SubscriptionConstants
    <2>2. EndExtend(c)
      BY <2>0, <2>1 DEF Next, EnableUser, DisableUser, SetExpiry, SetTrafficLimit, BeginExtend,
            EndExtend, CountTraffic, NewPeriod, SwitchOffExpired, SwitchOffLimited, Commit, Tick
    <2>3. user' = WithExpiry(user, job[c].expires, job[c].enableNow)
      BY <2>2 DEF EndExtend
    <2>4. user'.expires = job[c].expires
      BY <2>0, <2>3, ExpirySet DEF Jobs
    <2> QED  BY <2>4 DEF IInv, JobsAreCurrent
  <1> QED
    BY <1>1, Initially, StepKeepsIInv, PTL DEF Spec, NoDayIsLost
=============================================================================
