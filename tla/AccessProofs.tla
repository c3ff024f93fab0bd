---------------------------- MODULE AccessProofs ----------------------------
(***************************************************************************)
(* Proofs about Access, for any number of clients, users, devices and      *)
(* ports, and any number of failures, kills and restarts of nftables.      *)
(***************************************************************************)
EXTENDS Access, SequenceTheorems, TLAPS

-----------------------------------------------------------------------------
(* A database: the two ends of the link between a device and its slot      *)
(* agree, and a device belongs to a user who exists.                       *)

DeviceOK(d, e) ==
    d.device[e] # NoDevice =>
        /\ d.device[e].slot \in Ports
        /\ d.slot[d.device[e].slot] = [status |-> "assigned", device |-> e]
        /\ d.device[e].user \in Users
        /\ d.user[d.device[e].user] # "absent"

SlotOK(d, p) ==
    IF d.slot[p].status = "assigned"
    THEN d.slot[p].device \in Devices /\ d.device[d.slot[p].device].slot = p
    ELSE d.slot[p].device = NoOne

DbOK(d) ==
    /\ d \in Database
    /\ \A e \in Devices : DeviceOK(d, e)
    /\ \A p \in Ports : SlotOK(d, p)

Owner(d, p) == d.device[d.slot[p].device].user

LEMMA PortsArePositive == Ports \subseteq Nat \ {0}
  BY AccessConstants DEF Ports

LEMMA PermittedOf ==
    ASSUME NEW d, DbOK(d), NEW p \in Ports
    PROVE  /\ p \in Permitted(d) <=> /\ d.slot[p].status = "assigned"
                                     /\ d.user[Owner(d, p)] = "enabled"
           /\ d.slot[p].status = "assigned" =>
                /\ DeviceAt(d, p) = {d.slot[p].device}
                /\ d.slot[p].device \in Devices /\ Owner(d, p) \in Users
           /\ d.slot[p].status # "assigned" => DeviceAt(d, p) = {}
  <1> USE PortsArePositive DEF DbOK
  <1>0. p # 0
    OBVIOUS
  <1>1. ASSUME NEW e \in DeviceAt(d, p)
        PROVE  d.device[e] # NoDevice /\ d.slot[p] = [status |-> "assigned", device |-> e]
    <2>1. e \in Devices /\ d.device[e].slot = p
      BY <1>1 DEF DeviceAt
    <2>2. d.device[e] # NoDevice
      BY <1>0, <2>1 DEF NoDevice
    <2> QED  BY <2>1, <2>2 DEF DeviceOK
  <1>a. ASSUME NEW e \in DeviceAt(d, p)
        PROVE  d.slot[p].status = "assigned" /\ d.slot[p].device = e
    <2>1. d.slot[p] = [status |-> "assigned", device |-> e]
      BY <1>1
    <2> QED  BY <2>1
  <1>2. CASE d.slot[p].status # "assigned"
    <2>1. DeviceAt(d, p) = {}
      BY <1>a, <1>2
    <2>2. p \notin Permitted(d)
      BY <1>2 DEF Permitted
    <2> QED  BY <1>2, <2>1, <2>2
  <1>3. CASE d.slot[p].status = "assigned"
    <2>1. d.slot[p].device \in Devices /\ d.slot[p].device \in DeviceAt(d, p)
      BY <1>3 DEF SlotOK, DeviceAt
    <2>2. DeviceAt(d, p) = {d.slot[p].device}
      BY <1>a, <2>1
    <2>3. Owner(d, p) \in Users
      BY <1>1, <2>1 DEF DeviceOK, Owner
    <2>4. p \in Permitted(d) <=> d.user[Owner(d, p)] = "enabled"
      BY <1>3, <2>2 DEF Permitted, Owner
    <2> QED  BY <1>3, <2>1, <2>2, <2>3, <2>4
  <1> QED  BY <1>2, <1>3

LEMMA BlockedOf ==
    ASSUME NEW d, DbOK(d), NEW p \in Ports
    PROVE  p \in Blocked(d) <=>
             /\ d.slot[p].status # "none"
             /\ ~(d.slot[p].status = "assigned" /\ d.user[Owner(d, p)] = "enabled")
  BY PermittedOf DEF Blocked

LEMMA DevicePortsOf ==
    ASSUME NEW d, DbOK(d), NEW u \in Users
    PROVE  /\ DevicePorts(d, u) \subseteq Ports
           /\ \A p \in Ports : p \in DevicePorts(d, u) <=>
                d.slot[p].status = "assigned" /\ Owner(d, p) = u
  <1>1. ASSUME NEW e \in DevicesOf(d, u)
        PROVE  /\ e \in Devices /\ d.device[e].slot \in Ports
               /\ d.slot[d.device[e].slot] = [status |-> "assigned", device |-> e]
               /\ d.device[e].user = u
    <2>1. e \in Devices /\ d.device[e].user = u
      BY DEF DevicesOf
    <2>2. d.device[e] # NoDevice
      BY <2>1, AccessConstants DEF NoDevice
    <2> QED  BY <2>1, <2>2 DEF DbOK, DeviceOK
  <1>2. DevicePorts(d, u) \subseteq Ports
    BY <1>1 DEF DevicePorts
  <1>3. ASSUME NEW p \in DevicePorts(d, u)
        PROVE  d.slot[p].status = "assigned" /\ Owner(d, p) = u
    <2>1. PICK e \in DevicesOf(d, u) : p = d.device[e].slot
      BY <1>3 DEF DevicePorts
    <2>2. d.slot[p] = [status |-> "assigned", device |-> e] /\ d.device[e].user = u
      BY <1>1, <2>1
    <2> QED  BY <2>2 DEF Owner
  <1>4. ASSUME NEW p \in Ports, d.slot[p].status = "assigned", Owner(d, p) = u
        PROVE  p \in DevicePorts(d, u)
    BY <1>4 DEF DbOK, SlotOK, Owner, DevicePorts, DevicesOf
  <1> QED  BY <1>2, <1>3, <1>4

-----------------------------------------------------------------------------
(* What the functions of users.py and pool.py do to a database.            *)

(* Shards and their slots are none of their business.                      *)
SameShards(d, f) ==
    \A p \in Ports : /\ f.slot[p].status = "none" <=> d.slot[p].status = "none"
                     /\ f.slot[p].status = "staged" <=> d.slot[p].status = "staged"

(* The blocked ports but for those in B, which become blocked, and those   *)
(* in U, which do not remain so.                                           *)
Changes(d, f, B, U) ==
    /\ DbOK(f) /\ SameShards(d, f)
    /\ B \subseteq Blocked(f) /\ U \subseteq Ports \ Blocked(f)
    /\ \A p \in Ports \ (B \cup U) : p \in Blocked(f) <=> p \in Blocked(d)

LEMMA SetUser ==
    ASSUME NEW d, DbOK(d), NEW u \in Users, NEW s \in UserStates,
           s = "absent" => DevicesOf(d, u) = {},
           NEW f, f = [d EXCEPT !.user[u] = s]
    PROVE  Changes(d, f, IF s = "enabled" THEN {} ELSE DevicePorts(d, u),
                         IF s = "enabled" THEN DevicePorts(d, u) ELSE {})
  <1>1. f \in Database
    BY DEF DbOK, Database
  <1>2. f.slot = d.slot /\ f.device = d.device /\ f.user = [d.user EXCEPT ![u] = s]
    BY DEF DbOK, Database
  <1>3. d.user \in [Users -> UserStates]
    BY DEF DbOK, Database
  <1>4. \A e \in Devices : DeviceOK(f, e)
    BY <1>2, <1>3 DEF DbOK, DeviceOK, DevicesOf
  <1>5. \A p \in Ports : SlotOK(f, p)
    BY <1>2 DEF DbOK, SlotOK
  <1>6. DbOK(f)
    BY <1>1, <1>4, <1>5 DEF DbOK
  <1>7. \A p \in Ports : Owner(f, p) = Owner(d, p)
    BY <1>2 DEF Owner
  <1>8. ASSUME NEW p \in Ports
        PROVE  /\ p \notin DevicePorts(d, u) => (p \in Blocked(f) <=> p \in Blocked(d))
               /\ p \in DevicePorts(d, u) => (p \in Blocked(f) <=> s # "enabled")
    <2>1. /\ p \in Blocked(d) <=>
               /\ d.slot[p].status # "none"
               /\ ~(d.slot[p].status = "assigned" /\ d.user[Owner(d, p)] = "enabled")
          /\ p \in Blocked(f) <=>
               /\ f.slot[p].status # "none"
               /\ ~(f.slot[p].status = "assigned" /\ f.user[Owner(f, p)] = "enabled")
      BY <1>6, BlockedOf
    <2>2. p \in DevicePorts(d, u) <=> d.slot[p].status = "assigned" /\ Owner(d, p) = u
      BY DevicePortsOf
    <2>3. d.slot[p].status = "assigned" => Owner(d, p) \in Users
      BY PermittedOf
    <2>4. \A v \in Users : f.user[v] = IF v = u THEN s ELSE d.user[v]
      BY <1>2, <1>3
    <2> QED  BY <1>2, <1>7, <2>1, <2>2, <2>3, <2>4
  <1> QED  BY <1>2, <1>6, <1>8, DevicePortsOf DEF Changes, SameShards

LEMMA AttachDevice ==
    ASSUME NEW d, DbOK(d), NEW u \in Users, d.user[u] # "absent",
           NEW e \in Devices, NewDevice(d, e), NEW p \in Ports, d.slot[p].status = "free"
    PROVE  Changes(d, Attach(d, u, e, p), {}, IF d.user[u] = "enabled" THEN {p} ELSE {})
  <1> DEFINE f == Attach(d, u, e, p)
  <1>0. /\ d.user \in [Users -> UserStates]
        /\ d.device \in [Devices -> [user : Users \cup {NoOne}, slot : Ports \cup {0}]]
        /\ d.slot \in [Ports -> [status : Statuses, device : Devices \cup {NoOne}]]
    BY DEF DbOK, Database
  <1>1. /\ f.user = d.user
        /\ f.device = [d.device EXCEPT ![e] = [user |-> u, slot |-> p]]
        /\ f.slot = [d.slot EXCEPT ![p] = [status |-> "assigned", device |-> e]]
    BY DEF Attach
  <1>2. f \in Database
    BY <1>0 DEF Attach, Database, Statuses
  <1>3. ASSUME NEW x \in Devices PROVE DeviceOK(f, x)
    <2>1. CASE x = e
      BY <1>0, <1>1, <2>1 DEF DeviceOK
    <2>2. CASE x # e
      <3>1. DeviceOK(d, x) /\ f.device[x] = d.device[x]
        BY <1>0, <1>1, <2>2 DEF DbOK
      <3>2. d.device[x] # NoDevice => d.device[x].slot # p
        BY <3>1 DEF DeviceOK
      <3> QED  BY <1>0, <1>1, <3>1, <3>2 DEF DeviceOK
    <2> QED  BY <2>1, <2>2
  <1>4. ASSUME NEW q \in Ports \ {p}
        PROVE  /\ SlotOK(f, q) /\ f.slot[q] = d.slot[q]
               /\ d.slot[q].status = "assigned" => Owner(f, q) = Owner(d, q)
    <2>1. f.slot[q] = d.slot[q] /\ SlotOK(d, q)
      BY <1>0, <1>1 DEF DbOK
    <2>2. d.slot[q].status = "assigned" => d.slot[q].device # e
      BY <2>1, PortsArePositive DEF SlotOK, NewDevice, NoDevice
    <2> QED  BY <1>0, <1>1, <2>1, <2>2 DEF SlotOK, Owner
  <1>5. SlotOK(f, p) /\ f.slot[p].status = "assigned" /\ Owner(f, p) = u
    BY <1>0, <1>1 DEF SlotOK, Owner
  <1>6. DbOK(f)
    BY <1>2, <1>3, <1>4, <1>5 DEF DbOK
  <1>7. SameShards(d, f)
    BY <1>4, <1>5 DEF SameShards
  <1>8. ASSUME NEW q \in Ports \ {p} PROVE q \in Blocked(f) <=> q \in Blocked(d)
    <2>1. /\ q \in Blocked(d) <=>
               /\ d.slot[q].status # "none"
               /\ ~(d.slot[q].status = "assigned" /\ d.user[Owner(d, q)] = "enabled")
          /\ q \in Blocked(f) <=>
               /\ f.slot[q].status # "none"
               /\ ~(f.slot[q].status = "assigned" /\ f.user[Owner(f, q)] = "enabled")
      BY <1>6, BlockedOf
    <2> QED  BY <1>1, <1>4, <2>1
  <1>9. /\ p \in Blocked(d)
        /\ p \in Blocked(f) <=> d.user[u] # "enabled"
    BY <1>1, <1>5, <1>6, BlockedOf
  <1> QED  BY <1>6, <1>7, <1>8, <1>9 DEF Changes

LEMMA DropDevices ==
    ASSUME NEW d, DbOK(d), NEW E \in SUBSET Devices, \A e \in E : ~NewDevice(d, e),
           NEW P, P = {d.device[e].slot : e \in E}
    PROVE  /\ Changes(d, Delete(Release(d, P), E), P, {})
           /\ P \subseteq Ports
  <1> DEFINE f == Delete(Release(d, P), E)
  <1>0. /\ d.user \in [Users -> UserStates]
        /\ d.device \in [Devices -> [user : Users \cup {NoOne}, slot : Ports \cup {0}]]
        /\ d.slot \in [Ports -> [status : Statuses, device : Devices \cup {NoOne}]]
        /\ d = [user |-> d.user, device |-> d.device, slot |-> d.slot]
    BY DEF DbOK, Database
  <1>1. /\ f.user = d.user
        /\ f.device = [e \in Devices |-> IF e \in E THEN NoDevice ELSE d.device[e]]
        /\ f.slot = [p \in Ports |-> IF p \in P THEN Slot("dirty") ELSE d.slot[p]]
        /\ f = [user |-> f.user, device |-> f.device, slot |-> f.slot]
    BY DEF Delete, Release
  <1>d. /\ NoDevice \in [user : Users \cup {NoOne}, slot : Ports \cup {0}]
        /\ Slot("dirty") \in [status : Statuses, device : Devices \cup {NoOne}]
        /\ Slot("dirty").status = "dirty" /\ Slot("dirty").device = NoOne
    BY DEF NoDevice, Slot, Statuses
  <1>2. f \in Database
    <2> DEFINE DeviceRows == [user : Users \cup {NoOne}, slot : Ports \cup {0}]
    <2>a. NoDevice \in DeviceRows /\ d.device \in [Devices -> DeviceRows]
      BY <1>0, <1>d
    <2>1. f.device \in [Devices -> DeviceRows]
      <3> HIDE DEF DeviceRows
      <3> QED  BY <1>1, <2>a
    <2>2. f.slot \in [Ports -> [status : Statuses, device : Devices \cup {NoOne}]]
      BY <1>0, <1>1, <1>d
    <2> QED  BY <1>0, <1>1, <2>1, <2>2 DEF Database
  <1>e. /\ \A e \in Devices : f.device[e] = IF e \in E THEN NoDevice ELSE d.device[e]
        /\ \A p \in Ports : f.slot[p] = IF p \in P THEN Slot("dirty") ELSE d.slot[p]
    BY <1>1
  <1>3. ASSUME NEW e \in E
        PROVE  /\ d.device[e].slot \in Ports
               /\ d.slot[d.device[e].slot] = [status |-> "assigned", device |-> e]
    BY DEF NewDevice, DbOK, DeviceOK
  <1>4. P \subseteq Ports /\ \A p \in P : d.slot[p].status = "assigned" /\ d.slot[p].device \in E
    <2> SUFFICES ASSUME NEW p \in P
                 PROVE  p \in Ports /\ d.slot[p].status = "assigned" /\ d.slot[p].device \in E
      OBVIOUS
    <2>1. PICK e \in E : p = d.device[e].slot
      OBVIOUS
    <2>2. p \in Ports /\ d.slot[p] = [status |-> "assigned", device |-> e]
      BY <1>3, <2>1
    <2> QED  BY <2>2
  <1>5. ASSUME NEW p \in Ports \ P, d.slot[p].status = "assigned"
        PROVE  d.slot[p].device \in Devices \ E
    BY <1>5 DEF DbOK, SlotOK
  <1>6. ASSUME NEW e \in Devices PROVE DeviceOK(f, e)
    <2>1. CASE e \in E
      BY <1>1, <2>1 DEF DeviceOK
    <2>2. CASE e \notin E
      <3>1. DeviceOK(d, e) /\ f.device[e] = d.device[e]
        BY <1>1, <2>2 DEF DbOK
      <3>2. d.device[e] # NoDevice => d.device[e].slot \in Ports \ P
        <4> SUFFICES ASSUME d.device[e] # NoDevice PROVE d.device[e].slot \in Ports \ P
          OBVIOUS
        <4>1. /\ d.device[e].slot \in Ports
              /\ d.slot[d.device[e].slot] = [status |-> "assigned", device |-> e]
          BY <3>1 DEF DeviceOK
        <4>2. d.slot[d.device[e].slot].device = e
          BY <4>1
        <4> QED  BY <1>4, <2>2, <4>1, <4>2
      <3>3. d.device[e] # NoDevice => f.slot[d.device[e].slot] = d.slot[d.device[e].slot]
        BY <1>e, <3>2
      <3> HIDE DEF f
      <3> QED  BY <1>1, <3>1, <3>3 DEF DeviceOK
    <2> QED  BY <2>1, <2>2
  <1>7. ASSUME NEW p \in Ports
        PROVE  /\ SlotOK(f, p)
               /\ p \in P => f.slot[p].status = "dirty"
               /\ p \notin P => /\ f.slot[p] = d.slot[p]
                                /\ d.slot[p].status = "assigned" => Owner(f, p) = Owner(d, p)
    <2> HIDE DEF f
    <2>1. CASE p \in P
      BY <1>d, <1>e, <2>1 DEF SlotOK
    <2>2. CASE p \notin P
      <3>1. f.slot[p] = d.slot[p] /\ SlotOK(d, p)
        BY <1>e, <2>2 DEF DbOK
      <3>2. d.slot[p].status = "assigned" => f.device[d.slot[p].device] = d.device[d.slot[p].device]
        BY <1>5, <1>e, <2>2
      <3> QED  BY <2>2, <3>1, <3>2 DEF SlotOK, Owner
    <2> QED  BY <2>1, <2>2
  <1>8. DbOK(f)
    BY <1>2, <1>6, <1>7 DEF DbOK
  <1>9. ASSUME NEW p \in Ports
        PROVE  /\ p \in P => p \in Blocked(f)
               /\ p \notin P => (p \in Blocked(f) <=> p \in Blocked(d))
    BY <1>1, <1>7, <1>8, BlockedOf
  <1> QED  BY <1>4, <1>7, <1>8, <1>9 DEF Changes, SameShards

-----------------------------------------------------------------------------
(* The calls of an operation.                                              *)

(* Each call moves its ports to where the database d wants them.           *)
CallsRight(calls, d) ==
    \A i \in 1 .. Len(calls) : \A p \in calls[i].ports :
        calls[i].op = "block" <=> p \in Blocked(d)

Untouched(calls, p) == \A i \in 1 .. Len(calls) : p \notin calls[i].ports

(* What an operation that goes from d to f must tell the firewall.         *)
OperationOK(d, op) ==
    /\ DbOK(op.db) /\ SameShards(d, op.db)
    /\ op.calls \in Seq(Calls) /\ CallsRight(op.calls, op.db)
    /\ \A p \in Ports : Untouched(op.calls, p) => (p \in Blocked(op.db) <=> p \in Blocked(d))

LEMMA OneCall ==
    ASSUME NEW op \in {"block", "unblock"}, NEW P \in SUBSET Ports,
           NEW calls, calls = IF P = {} THEN <<>> ELSE <<[op |-> op, ports |-> P]>>
    PROVE  /\ calls \in Seq(Calls)
           /\ \A i \in 1 .. Len(calls) : calls[i] = [op |-> op, ports |-> P]
           /\ P # {} => Len(calls) = 1
  <1>1. [op |-> op, ports |-> P] \in Calls
    BY DEF Calls
  <1>2. CASE P = {}
    BY <1>2
  <1>3. CASE P # {}
    BY <1>1, <1>3
  <1> QED  BY <1>2, <1>3

LEMMA CallsOf ==
    ASSUME NEW d, NEW f, NEW B, NEW U, B \subseteq Ports, Changes(d, f, B, U)
    PROVE  OperationOK(d, Effect(f, Block(B) \o Unblock(U)))
  <1> DEFINE b == Block(B)
             u == Unblock(U)
  <1>1. B \in SUBSET Ports /\ U \in SUBSET Ports
    BY DEF Changes
  <1>2. /\ b \in Seq(Calls) /\ \A i \in 1 .. Len(b) : b[i] = [op |-> "block", ports |-> B]
        /\ B # {} => Len(b) = 1
    BY <1>1, OneCall DEF Block
  <1>3. /\ u \in Seq(Calls) /\ \A i \in 1 .. Len(u) : u[i] = [op |-> "unblock", ports |-> U]
        /\ U # {} => Len(u) = 1
    BY <1>1, OneCall DEF Unblock
  <1> HIDE DEF b, u
  <1>4. /\ b \o u \in Seq(Calls)
        /\ Len(b \o u) = Len(b) + Len(u)
        /\ \A i \in 1 .. Len(b) + Len(u) :
             (b \o u)[i] = IF i <= Len(b) THEN b[i] ELSE u[i - Len(b)]
    BY <1>2, <1>3, ConcatProperties
  <1>5. Len(b) \in Nat /\ Len(u) \in Nat
    BY <1>2, <1>3, LenProperties
  <1>6. ASSUME NEW i \in 1 .. Len(b \o u)
        PROVE  \/ (b \o u)[i] = [op |-> "block", ports |-> B]
               \/ (b \o u)[i] = [op |-> "unblock", ports |-> U]
    BY <1>2, <1>3, <1>4, <1>5
  <1>7. CallsRight(b \o u, f)
    <2> SUFFICES ASSUME NEW i \in 1 .. Len(b \o u), NEW p \in (b \o u)[i].ports
                 PROVE  (b \o u)[i].op = "block" <=> p \in Blocked(f)
      BY DEF CallsRight
    <2> QED  BY <1>6 DEF Changes
  <1>8. ASSUME NEW p \in Ports, Untouched(b \o u, p)
        PROVE  p \notin B \cup U
    <2>1. ASSUME p \in B PROVE FALSE
      <3>1. 1 \in 1 .. Len(b \o u) /\ (b \o u)[1] = [op |-> "block", ports |-> B]
        BY <1>2, <1>4, <1>5, <2>1
      <3> QED  BY <1>8, <2>1, <3>1 DEF Untouched
    <2>2. ASSUME p \in U PROVE FALSE
      <3>1. /\ Len(b) + 1 \in 1 .. Len(b \o u)
            /\ (b \o u)[Len(b) + 1] = [op |-> "unblock", ports |-> U]
        BY <1>3, <1>4, <1>5, <2>2
      <3> QED  BY <1>8, <2>2, <3>1 DEF Untouched
    <2> QED  BY <2>1, <2>2
  <1> QED  BY <1>4, <1>7, <1>8 DEF OperationOK, Changes, Effect, b, u

LEMMA ThenChanges ==
    ASSUME NEW d, NEW g, NEW f, NEW B, NEW U,
           Changes(d, g, B, {}), Changes(g, f, {}, U), B \cap U = {}
    PROVE  Changes(d, f, B, U)
  <1> USE DEF Changes
  <1>1. B \subseteq Ports
    BY DEF Blocked
  <1>2. B \subseteq Blocked(f)
    BY <1>1
  <1>3. SameShards(d, f)
    BY DEF SameShards
  <1>4. \A p \in Ports \ (B \cup U) : p \in Blocked(f) <=> p \in Blocked(d)
    OBVIOUS
  <1> QED  BY <1>2, <1>3, <1>4

LEMMA OnlyCalls ==
    ASSUME NEW P \in SUBSET Ports, NEW cond \in BOOLEAN
    PROVE  /\ Block(P) = Block(P) \o Unblock({})
           /\ Unblock(P) = Block({}) \o Unblock(P)
           /\ UnblockIf(cond, P) = Unblock(IF cond THEN P ELSE {})
  <1>1. Block({}) = <<>> /\ Unblock({}) = <<>>
    BY DEF Block, Unblock
  <1>2. Block(P) \in Seq(Calls) /\ Unblock(P) \in Seq(Calls)
    BY OneCall DEF Block, Unblock
  <1>3. UnblockIf(cond, P) = Unblock(IF cond THEN P ELSE {})
    BY <1>1 DEF UnblockIf
  <1> QED  BY <1>1, <1>2, <1>3, ConcatEmptySeq

(* Whoever owns a device exists.                                           *)
LEMMA OwnerExists ==
    ASSUME NEW d, DbOK(d)
    PROVE  /\ \A e \in Devices : ~NewDevice(d, e) =>
                /\ d.device[e].user \in Users /\ d.user[d.device[e].user] # "absent"
                /\ d.device[e].slot \in Ports /\ d.slot[d.device[e].slot].status = "assigned"
           /\ \A u \in Users : \A e \in DevicesOf(d, u) : e \in Devices /\ ~NewDevice(d, e)
           /\ \A u \in Users : d.user[u] = "absent" => DevicesOf(d, u) = {}
  <1>1. \A e \in Devices : ~NewDevice(d, e) =>
                /\ d.device[e].user \in Users /\ d.user[d.device[e].user] # "absent"
                /\ d.device[e].slot \in Ports /\ d.slot[d.device[e].slot].status = "assigned"
    <2> SUFFICES ASSUME NEW e \in Devices, ~NewDevice(d, e)
                 PROVE  /\ d.device[e].user \in Users /\ d.user[d.device[e].user] # "absent"
                        /\ d.device[e].slot \in Ports
                        /\ d.slot[d.device[e].slot].status = "assigned"
      OBVIOUS
    <2>1. /\ d.device[e].user \in Users /\ d.user[d.device[e].user] # "absent"
          /\ d.device[e].slot \in Ports
          /\ d.slot[d.device[e].slot] = [status |-> "assigned", device |-> e]
      BY DEF DbOK, DeviceOK, NewDevice
    <2> QED  BY <2>1
  <1>2. \A u \in Users : \A e \in DevicesOf(d, u) : e \in Devices /\ ~NewDevice(d, e)
    BY AccessConstants DEF DevicesOf, NewDevice, NoDevice
  <1>3. \A u \in Users : d.user[u] = "absent" => DevicesOf(d, u) = {}
    BY <1>1, <1>2 DEF DevicesOf
  <1> QED  BY <1>1, <1>2, <1>3

LEMMA CreateUserOK ==
    ASSUME NEW d, DbOK(d), NEW u \in Users, d.user[u] = "absent",
           NEW e \in Devices, NewDevice(d, e), NEW p \in Ports, NextFree(d, p)
    PROVE  OperationOK(d, CreateUser(d, u, e, p))
  <1> DEFINE g == [d EXCEPT !.user[u] = "enabled"]
  <1>1. DevicePorts(d, u) = {}
    BY OwnerExists DEF DevicePorts
  <1>2. Changes(d, g, {}, {})
    BY <1>1, SetUser DEF UserStates
  <1>3. g.user[u] = "enabled" /\ g.device = d.device /\ g.slot = d.slot
    BY DEF DbOK, Database
  <1>4. NewDevice(g, e) /\ g.slot[p].status = "free" /\ DbOK(g)
    BY <1>2, <1>3 DEF NewDevice, NextFree, FreePorts, Changes
  <1> HIDE DEF g
  <1>5. Changes(g, Attach(g, u, e, p), {}, {p})
    BY <1>3, <1>4, AttachDevice
  <1>6. Changes(d, Attach(g, u, e, p), {}, {p})
    BY <1>2, <1>5, ThenChanges
  <1>7. OperationOK(d, Effect(Attach(g, u, e, p), Block({}) \o Unblock({p})))
    BY <1>6, CallsOf
  <1>8. Unblock({p}) = Block({}) \o Unblock({p})
    BY OnlyCalls
  <1> QED  BY <1>7, <1>8 DEF CreateUser, g

LEMMA AddDeviceOK ==
    ASSUME NEW d, DbOK(d), NEW u \in Users, d.user[u] # "absent",
           NEW e \in Devices, NewDevice(d, e), NEW p \in Ports, NextFree(d, p)
    PROVE  OperationOK(d, AddDevice(d, u, e, p))
  <1> DEFINE U == IF d.user[u] = "enabled" THEN {p} ELSE {}
  <1>1. Changes(d, Attach(d, u, e, p), {}, U)
    BY AttachDevice DEF NextFree, FreePorts
  <1>2. UnblockIf(d.user[u] = "enabled", {p}) = Unblock(U) /\ U \in SUBSET Ports
    BY OnlyCalls
  <1> HIDE DEF U
  <1>3. Unblock(U) = Block({}) \o Unblock(U)
    BY <1>2, OnlyCalls
  <1>4. OperationOK(d, Effect(Attach(d, u, e, p), Block({}) \o Unblock(U)))
    BY <1>1, CallsOf
  <1> QED  BY <1>2, <1>3, <1>4 DEF AddDevice

LEMMA DeleteDeviceOK ==
    ASSUME NEW d, DbOK(d), NEW e \in Devices, ~NewDevice(d, e)
    PROVE  OperationOK(d, DeleteDevice(d, e))
  <1> DEFINE P == {d.device[e].slot}
             f == Delete(Release(d, P), {e})
  <1>1. P = {d.device[x].slot : x \in {e}}
    OBVIOUS
  <1>2. Changes(d, f, P, {}) /\ P \subseteq Ports
    <2>1. {e} \in SUBSET Devices /\ \A x \in {e} : ~NewDevice(d, x)
      OBVIOUS
    <2> HIDE DEF P
    <2> QED  BY <1>1, <2>1, DropDevices
  <1>3. OperationOK(d, Effect(f, Block(P) \o Unblock({})))
    BY <1>2, CallsOf
  <1>4. Block(P) = Block(P) \o Unblock({})
    BY <1>2, OnlyCalls
  <1> QED  BY <1>3, <1>4 DEF DeleteDevice

LEMMA RotateDeviceOK ==
    ASSUME NEW d, DbOK(d), NEW e \in Devices, ~NewDevice(d, e),
           NEW p \in Ports, NextFree(d, p)
    PROVE  OperationOK(d, RotateDevice(d, e, p))
  <1> DEFINE u == d.device[e].user
             P == {d.device[e].slot}
             g == Delete(Release(d, P), {e})
             f == Attach(g, u, e, p)
             U == IF d.user[u] = "enabled" THEN {p} ELSE {}
  <1>1. P = {d.device[x].slot : x \in {e}}
    OBVIOUS
  <1>2. Changes(d, g, P, {}) /\ P \subseteq Ports
    <2>1. {e} \in SUBSET Devices /\ \A x \in {e} : ~NewDevice(d, x)
      OBVIOUS
    <2> HIDE DEF P
    <2> QED  BY <1>1, <2>1, DropDevices
  <1>3. /\ u \in Users /\ d.user[u] # "absent" /\ g.user = d.user
        /\ p \notin P /\ g.slot[p] = d.slot[p] /\ d.slot[p].status = "free"
        /\ g.device[e] = NoDevice
    BY OwnerExists DEF NextFree, FreePorts, Delete, Release
  <1>4. f = Attach(Release(d, P), u, e, p)
    <2>1. d.device \in [Devices -> [user : Users \cup {NoOne}, slot : Ports \cup {0}]]
      BY DEF DbOK, Database
    <2>2. [g.device EXCEPT ![e] = [user |-> u, slot |-> p]]
            = [d.device EXCEPT ![e] = [user |-> u, slot |-> p]]
      BY <2>1 DEF Delete, Release
    <2> QED  BY <2>2 DEF Attach, Delete, Release
  <1> HIDE DEF g
  <1>5. Changes(g, f, {}, U)
    BY <1>2, <1>3, AttachDevice DEF Changes, NewDevice
  <1> HIDE DEF f
  <1>6. Changes(d, f, P, U)
    BY <1>2, <1>3, <1>5, ThenChanges
  <1>7. OperationOK(d, Effect(f, Block(P) \o Unblock(U)))
    BY <1>2, <1>6, CallsOf
  <1>8. UnblockIf(d.user[u] = "enabled", {p}) = Unblock(U)
    BY OnlyCalls
  <1> QED  BY <1>4, <1>7, <1>8 DEF RotateDevice

LEMMA SwitchUserOK ==
    ASSUME NEW d, DbOK(d), NEW u \in Users
    PROVE  /\ OperationOK(d, DisableUser(d, u))
           /\ OperationOK(d, EnableUser(d, u))
  <1> DEFINE P == DevicePorts(d, u)
             off == [d EXCEPT !.user[u] = "disabled"]
             on == [d EXCEPT !.user[u] = "enabled"]
  <1>1. P \subseteq Ports
    BY DevicePortsOf
  <1>2. Changes(d, off, P, {})
    BY SetUser DEF UserStates
  <1>3. Changes(d, on, {}, P)
    BY SetUser DEF UserStates
  <1>4. OperationOK(d, Effect(off, Block(P) \o Unblock({})))
    BY <1>1, <1>2, CallsOf
  <1>5. OperationOK(d, Effect(on, Block({}) \o Unblock(P)))
    BY <1>3, CallsOf
  <1>6. Block(P) = Block(P) \o Unblock({}) /\ Unblock(P) = Block({}) \o Unblock(P)
    BY <1>1, OnlyCalls
  <1> QED  BY <1>4, <1>5, <1>6 DEF DisableUser, EnableUser

LEMMA DeleteUserOK ==
    ASSUME NEW d, DbOK(d), NEW u \in Users
    PROVE  OperationOK(d, DeleteUser(d, u))
  <1> DEFINE E == DevicesOf(d, u)
             P == DevicePorts(d, u)
             g == Delete(Release(d, P), E)
             f == [g EXCEPT !.user[u] = "absent"]
  <1>1. E \in SUBSET Devices /\ \A e \in E : ~NewDevice(d, e)
    BY OwnerExists DEF DevicesOf
  <1>2. P = {d.device[e].slot : e \in E}
    BY DEF DevicePorts
  <1>3. Changes(d, g, P, {}) /\ P \subseteq Ports
    BY <1>1, <1>2, DropDevices
  <1>4. DevicesOf(g, u) = {}
    <2>1. NoDevice.user # u
      BY AccessConstants DEF NoDevice
    <2>2. \A e \in Devices : g.device[e] = IF e \in E THEN NoDevice ELSE d.device[e]
      BY DEF Delete, Release
    <2> QED  BY <2>1, <2>2 DEF DevicesOf
  <1>5. DevicePorts(g, u) = {}
    BY <1>4 DEF DevicePorts
  <1> HIDE DEF g
  <1>6. Changes(g, f, {}, {})
    BY <1>3, <1>4, <1>5, SetUser DEF Changes, UserStates
  <1>7. Changes(d, f, P, {})
    BY <1>3, <1>6, ThenChanges
  <1>8. OperationOK(d, Effect(f, Block(P) \o Unblock({})))
    BY <1>3, <1>7, CallsOf
  <1>9. Block(P) = Block(P) \o Unblock({})
    BY <1>3, OnlyCalls
  <1> QED  BY <1>8, <1>9 DEF DeleteUser, g

(* Every operation of users.py leaves the link between devices and slots   *)
(* intact, and its calls leave the firewall as its database wants it.      *)
LEMMA OperationsOK ==
    ASSUME NEW d, DbOK(d), NEW op \in Operations(d)
    PROVE  OperationOK(d, op)
  BY CreateUserOK, AddDeviceOK, DeleteDeviceOK, RotateDeviceOK, SwitchUserOK, DeleteUserOK
     DEF Operations

-----------------------------------------------------------------------------
(* What the maintainer does to a database.                                 *)

(* The ports that a table must have right; of them, those not permitted    *)
(* are blocked.                                                            *)
InUse(d) == ActivePorts(d) \cup With(d, "staged")

LEMMA BlockedInUse ==
    ASSUME NEW d, NEW p \in InUse(d)
    PROVE  p \in Ports /\ (p \in Blocked(d) <=> p \notin Permitted(d))
  BY DEF InUse, ActivePorts, With, Blocked

LEMMA RestatusOK ==
    ASSUME NEW d, DbOK(d), NEW from \in Statuses \ {"assigned"}, NEW to \in Statuses \ {"assigned"}
    PROVE  /\ DbOK(Restatus(d, from, to))
           /\ Permitted(Restatus(d, from, to)) = Permitted(d)
           /\ \A p \in Ports : Restatus(d, from, to).slot[p].status
                                 = IF d.slot[p].status = from THEN to ELSE d.slot[p].status
  <1> DEFINE f == Restatus(d, from, to)
             SlotRows == [status : Statuses, device : Devices \cup {NoOne}]
  <1>0. /\ d.user \in [Users -> UserStates]
        /\ d.device \in [Devices -> [user : Users \cup {NoOne}, slot : Ports \cup {0}]]
        /\ d.slot \in [Ports -> SlotRows]
    BY DEF DbOK, Database
  <1>1. /\ f.user = d.user /\ f.device = d.device
        /\ f.slot = [p \in Ports |-> IF d.slot[p].status = from THEN Slot(to) ELSE d.slot[p]]
        /\ f = [user |-> f.user, device |-> f.device, slot |-> f.slot]
    BY DEF Restatus
  <1>2. Slot(to) \in SlotRows /\ Slot(to).status = to /\ Slot(to).device = NoOne
    BY DEF Slot
  <1> HIDE DEF f
  <1>3. f \in Database
    <2>1. f.slot \in [Ports -> SlotRows]
      <3> HIDE DEF SlotRows
      <3> QED  BY <1>0, <1>1, <1>2
    <2> QED  BY <1>0, <1>1, <2>1 DEF Database
  <1>4. \A p \in Ports : f.slot[p] = IF d.slot[p].status = from THEN Slot(to) ELSE d.slot[p]
    BY <1>1
  <1>5. ASSUME NEW e \in Devices PROVE DeviceOK(f, e)
    <2>1. DeviceOK(d, e)
      BY DEF DbOK
    <2>2. d.device[e] # NoDevice => f.slot[d.device[e].slot] = d.slot[d.device[e].slot]
      <3> SUFFICES ASSUME d.device[e] # NoDevice
                   PROVE  f.slot[d.device[e].slot] = d.slot[d.device[e].slot]
        OBVIOUS
      <3>1. d.device[e].slot \in Ports
            /\ d.slot[d.device[e].slot] = [status |-> "assigned", device |-> e]
        BY <2>1 DEF DeviceOK
      <3>2. d.slot[d.device[e].slot].status = "assigned"
        BY <3>1
      <3> QED  BY <1>4, <3>1, <3>2
    <2> QED  BY <1>1, <2>1, <2>2 DEF DeviceOK
  <1>6. ASSUME NEW p \in Ports
        PROVE  /\ SlotOK(f, p)
               /\ f.slot[p].status = IF d.slot[p].status = from THEN to ELSE d.slot[p].status
               /\ d.slot[p].status = "assigned" => f.slot[p] = d.slot[p]
    <2>1. SlotOK(d, p)
      BY DEF DbOK
    <2>2. CASE d.slot[p].status = from
      BY <1>2, <1>4, <2>2 DEF SlotOK
    <2>3. CASE d.slot[p].status # from
      BY <1>1, <1>4, <2>1, <2>3 DEF SlotOK
    <2> QED  BY <2>2, <2>3
  <1>7. DbOK(f)
    BY <1>3, <1>5, <1>6 DEF DbOK
  <1>8. Permitted(f) = Permitted(d)
    <2>1. ASSUME NEW p \in Ports
          PROVE  f.slot[p].status = "assigned" <=> d.slot[p].status = "assigned"
      BY <1>6
    <2>2. \A p \in Ports : DeviceAt(f, p) = DeviceAt(d, p)
      BY <1>1 DEF DeviceAt
    <2> QED  BY <1>1, <2>1, <2>2 DEF Permitted
  <1> QED  BY <1>6, <1>7, <1>8 DEF f

LEMMA MaintenanceOK ==
    ASSUME NEW d, DbOK(d)
    PROVE  /\ \A f \in {Dropped(d), Renewing(d), Grown(d)} :
                DbOK(f) /\ Permitted(f) = Permitted(d) /\ ActivePorts(f) = ActivePorts(d)
           /\ DbOK(Activated(d)) /\ Permitted(Activated(d)) = Permitted(d)
           /\ ActivePorts(Activated(d)) = InUse(d)
  <1> DEFINE a == Restatus(d, "renewing", "dirty")
             b == Restatus(a, "staged", "none")
             r == Restatus(b, "dirty", "renewing")
             g == Restatus(r, "none", "staged")
             e == Restatus(d, "renewing", "free")
             h == Restatus(e, "staged", "free")
  <1> USE DEF Statuses
  <1>1. /\ DbOK(a) /\ Permitted(a) = Permitted(d)
        /\ \A p \in Ports : a.slot[p].status = IF d.slot[p].status = "renewing" THEN "dirty"
                                               ELSE d.slot[p].status
    BY RestatusOK
  <1> HIDE DEF a
  <1>2. /\ DbOK(b) /\ Permitted(b) = Permitted(d)
        /\ \A p \in Ports : b.slot[p].status = IF a.slot[p].status = "staged" THEN "none"
                                               ELSE a.slot[p].status
    BY <1>1, RestatusOK
  <1> HIDE DEF b
  <1>3. /\ DbOK(r) /\ Permitted(r) = Permitted(d)
        /\ \A p \in Ports : r.slot[p].status = IF b.slot[p].status = "dirty" THEN "renewing"
                                               ELSE b.slot[p].status
    BY <1>2, RestatusOK
  <1> HIDE DEF r
  <1>4. /\ DbOK(g) /\ Permitted(g) = Permitted(d)
        /\ \A p \in Ports : g.slot[p].status = IF r.slot[p].status = "none" THEN "staged"
                                               ELSE r.slot[p].status
    BY <1>3, RestatusOK
  <1> HIDE DEF g
  <1>5. /\ DbOK(e) /\ Permitted(e) = Permitted(d)
        /\ \A p \in Ports : e.slot[p].status = IF d.slot[p].status = "renewing" THEN "free"
                                               ELSE d.slot[p].status
    BY RestatusOK
  <1> HIDE DEF e
  <1>6. /\ DbOK(h) /\ Permitted(h) = Permitted(d)
        /\ \A p \in Ports : h.slot[p].status = IF e.slot[p].status = "staged" THEN "free"
                                               ELSE e.slot[p].status
    BY <1>5, RestatusOK
  <1> HIDE DEF h
  <1>7. /\ ActivePorts(b) = ActivePorts(d) /\ ActivePorts(r) = ActivePorts(d)
        /\ ActivePorts(g) = ActivePorts(d)
    BY <1>1, <1>2, <1>3, <1>4 DEF ActivePorts
  <1>8. ActivePorts(h) = InUse(d)
    BY <1>5, <1>6 DEF ActivePorts, InUse, With
  <1>9. Dropped(d) = b /\ Renewing(d) = r /\ Grown(d) = g /\ Activated(d) = h
    BY DEF Dropped, Renewing, Grown, Activated, a, b, r, g, e, h
  <1> QED  BY <1>2, <1>3, <1>4, <1>6, <1>7, <1>8, <1>9

-----------------------------------------------------------------------------
(* The invariant.                                                          *)

(* The holder of the lock has a right database and right calls ahead.      *)
TransactionRight ==
    \A c \in Clients :
        /\ lock = c <=> pc[c] = "calls"
        /\ lock = c => DbOK(work) /\ SameShards(db, work) /\ CallsRight(todo, work)

(* What the maintainer has read stays true until it has loaded it.         *)
MaintainerRight ==
    mpc \in {"load", "reload"} => lock = Maintainer /\ seen[Maintainer] = Blocked(db)

(* The ports in use, and those that apply() is about to put in use.        *)
Watched == ActivePorts(db) \cup (IF mpc = "apply" THEN With(db, "staged") ELSE {})

Agrees(p, d) == p \in fw.blocked <=> p \in Blocked(d)

MidOperation(p) ==
    /\ Agrees(p, db) \/ Agrees(p, work)
    /\ Untouched(todo, p) => Agrees(p, work)
    /\ ~called => Agrees(p, db)

Undisturbed == ~disturbed /\ \A c \in Clients : pc[c] \in {"idle", "calls"}

FirewallRight ==
    Undisturbed =>
        /\ spc = "idle" => fw.table
        /\ fw.table => \A p \in Watched : IF lock \in Clients THEN MidOperation(p)
                                          ELSE Agrees(p, db)

IInv == VariablesTyped /\ DbOK(db) /\ TransactionRight /\ MaintainerRight /\ FirewallRight

LEMMA InitOK == Init => IInv
  <1> SUFFICES ASSUME Init PROVE IInv
    OBVIOUS
  <1>1. Empty \in Database
    BY AccessConstants DEF Empty, Database, NoDevice, Slot, Ports, Statuses, UserStates
  <1>2. DbOK(Empty)
    <2>1. \A e \in Devices : Empty.device[e] = NoDevice
      BY DEF Empty
    <2>2. \A p \in Ports : Empty.slot[p] \in {Slot("free"), Slot("none")}
      BY DEF Empty
    <2>3. \A p \in Ports : Empty.slot[p].status # "assigned" /\ Empty.slot[p].device = NoOne
      BY <2>2 DEF Slot
    <2> QED  BY <1>1, <2>1, <2>3 DEF DbOK, DeviceOK, SlotOK
  <1>3. Blocked(Empty) \subseteq Ports
    BY DEF Blocked
  <1>4. NoOne \notin Clients /\ Maintainer \in Readers
    BY AccessConstants DEF Readers
  <1> HIDE DEF Empty
  <1>5. VariablesTyped
    <2>1. db \in Database /\ work \in Database /\ seen \in [Readers -> SUBSET Ports]
      BY <1>1 DEF Init
    <2>2. fw \in [table : BOOLEAN, blocked : SUBSET Ports]
      BY <1>3 DEF Init, Rebuilt
    <2>3. todo \in Seq(Calls) /\ called \in BOOLEAN /\ disturbed \in BOOLEAN
      BY EmptySeq DEF Init
    <2>4. {faults, crashes, flushes, runs} \subseteq Nat
      BY DEF Init
    <2> QED  BY <2>1, <2>2, <2>3, <2>4 DEF Init, VariablesTyped
  <1>6. TransactionRight /\ MaintainerRight
    BY <1>4 DEF Init, TransactionRight, MaintainerRight
  <1>7. FirewallRight
    BY <1>4 DEF Init, FirewallRight, Rebuilt, Agrees
  <1> QED  BY <1>2, <1>5, <1>6, <1>7 DEF IInv, Init

LEMMA PerhapsOK ==
    ASSUME VariablesTyped, todo # <<>>
    PROVE  /\ Called(Head(todo)) \in [table : BOOLEAN, blocked : SUBSET Ports]
           /\ Called(Head(todo)).table = fw.table
           /\ Called(Head(todo)).blocked = Apply(Head(todo), fw.blocked)
           /\ Tail(todo) \in Seq(Calls)
           /\ \A f \in Perhaps(Head(todo)) : f \in [table : BOOLEAN, blocked : SUBSET Ports]
  <1>1. Head(todo) \in Calls /\ Tail(todo) \in Seq(Calls)
    BY HeadTailProperties DEF VariablesTyped
  <1>2. fw \in [table : BOOLEAN, blocked : SUBSET Ports]
    BY DEF VariablesTyped
  <1>3. Apply(Head(todo), fw.blocked) \in SUBSET Ports
    BY <1>1, <1>2 DEF Apply, Calls
  <1>4. /\ Called(Head(todo)) \in [table : BOOLEAN, blocked : SUBSET Ports]
        /\ Called(Head(todo)).table = fw.table
        /\ Called(Head(todo)).blocked = Apply(Head(todo), fw.blocked)
    BY <1>2, <1>3 DEF Called
  <1>5. \A f \in Perhaps(Head(todo)) : f \in [table : BOOLEAN, blocked : SUBSET Ports]
    BY <1>2, <1>4 DEF Perhaps
  <1> QED  BY <1>1, <1>4, <1>5

LEMMA TypeStep == VariablesTyped /\ DbOK(db) /\ [Next]_vars => VariablesTyped'
  <1> SUFFICES ASSUME VariablesTyped, DbOK(db), [Next]_vars PROVE VariablesTyped'
    OBVIOUS
  <1>a. /\ Blocked(db) \in SUBSET Ports /\ {} \in SUBSET Ports /\ Empty \in Database
        /\ <<>> \in Seq(Calls)
        /\ \A b \in SUBSET Ports : Rebuilt(b) \in [table : BOOLEAN, blocked : SUBSET Ports]
        /\ Flushed \in [table : BOOLEAN, blocked : SUBSET Ports]
    <2>1. Empty \in Database
      BY AccessConstants DEF Empty, Database, NoDevice, Slot, Ports, Statuses, UserStates
    <2> QED  BY <2>1, EmptySeq DEF Blocked, Rebuilt, Flushed
  <1>b. Maintainer \in Readers /\ Service \in Readers /\ Clients \subseteq Readers
    BY DEF Readers, Service
  <1>c. \A f \in {Dropped(db), Renewing(db), Grown(db), Activated(db)} : f \in Database
    BY MaintenanceOK DEF DbOK
  <1> DEFINE Counted == {faults, crashes, flushes, runs} \subseteq Nat
             Rest == /\ db \in Database /\ work \in Database
                     /\ fw \in [table : BOOLEAN, blocked : SUBSET Ports]
                     /\ lock \in Clients \cup {Maintainer, NoOne}
                     /\ pc \in [Clients -> {"idle", "calls", "resync", "load"}]
                     /\ todo \in Seq(Calls) /\ called \in BOOLEAN
                     /\ seen \in [Readers -> SUBSET Ports]
                     /\ mpc \in {"idle", "sync", "load", "apply", "abort", "resync", "reload"}
                     /\ spc \in {"idle", "sync", "load"}
                     /\ disturbed \in BOOLEAN
  <1>d. Counted /\ Rest /\ (Counted' /\ Rest' => VariablesTyped')
    BY DEF VariablesTyped
  <1>e. MayFail \/ UNCHANGED bounds => Counted'
    BY <1>d DEF MayFail, bounds
  <1> HIDE DEF Counted
  <1>f. ASSUME NEW c \in Clients, NEW step \in {"idle", "calls", "resync", "load"}, Goto(c, step)
        PROVE  pc' \in [Clients -> {"idle", "calls", "resync", "load"}]
    BY <1>d, <1>f DEF Goto
  <1>g. ASSUME NEW x \in Readers, Read(x) \/ Forget(x)
        PROVE  seen' \in [Readers -> SUBSET Ports]
    BY <1>a, <1>d, <1>g DEF Read, Forget
  <1>h. ASSUME EndTxn PROVE work' \in Database /\ todo' \in Seq(Calls) /\ called' \in BOOLEAN
    BY <1>a, <1>h DEF EndTxn
  <1>1. ASSUME NEW c \in Clients, Begin(c) PROVE VariablesTyped'
    <2>1. PICK op \in Operations(db) : work' = op.db /\ todo' = op.calls
      BY <1>1 DEF Begin
    <2>2. work' \in Database /\ todo' \in Seq(Calls)
      BY <2>1, OperationsOK DEF OperationOK, DbOK
    <2> QED  BY <1>1, <1>d, <1>e, <1>f, <2>2 DEF Begin
  <1>2. ASSUME NEW c \in Clients, Call(c) PROVE VariablesTyped'
    <2>1. todo' \in Seq(Calls) /\ fw' \in [table : BOOLEAN, blocked : SUBSET Ports]
      BY <1>2, <1>d, <1>h, PerhapsOK DEF Call, RollBack
    <2>2. Counted'
      BY <1>2, <1>e DEF Call
    <2>3. pc' \in [Clients -> {"idle", "calls", "resync", "load"}]
      BY <1>2, <1>d, <1>f DEF Call, RollBack
    <2>4. work' \in Database /\ called' \in BOOLEAN /\ lock' \in Clients \cup {Maintainer, NoOne}
      BY <1>2, <1>d, <1>h DEF Call, RollBack
    <2> QED  BY <1>2, <1>d, <2>1, <2>2, <2>3, <2>4 DEF Call
  <1>3. ASSUME NEW c \in Clients, Commit(c) PROVE VariablesTyped'
    <2>1. Counted' /\ db' \in Database /\ lock' \in Clients \cup {Maintainer, NoOne}
      BY <1>3, <1>d, <1>e DEF Commit, RollBack
    <2>2. pc' \in [Clients -> {"idle", "calls", "resync", "load"}]
      BY <1>3, <1>f DEF Commit, RollBack
    <2>3. work' \in Database /\ todo' \in Seq(Calls) /\ called' \in BOOLEAN
      BY <1>3, <1>h DEF Commit, RollBack
    <2> QED  BY <1>3, <1>d, <2>1, <2>2, <2>3 DEF Commit
  <1>j. ASSUME NEW harm \in BOOLEAN, EndWithoutLoad(harm)
        PROVE  Counted' /\ fw' \in [table : BOOLEAN, blocked : SUBSET Ports] /\ disturbed' \in BOOLEAN
    BY <1>j, <1>d, <1>e DEF EndWithoutLoad
  <1>4. ASSUME NEW c \in Clients, ResyncRead(c) PROVE VariablesTyped'
    <2>1. Counted' /\ fw' \in [table : BOOLEAN, blocked : SUBSET Ports] /\ disturbed' \in BOOLEAN
      BY <1>4, <1>d, <1>e, <1>j DEF ResyncRead
    <2>2. pc' \in [Clients -> {"idle", "calls", "resync", "load"}]
      BY <1>4, <1>f DEF ResyncRead
    <2>3. seen' \in [Readers -> SUBSET Ports]
      BY <1>4, <1>b, <1>d, <1>g DEF ResyncRead
    <2> QED  BY <1>4, <1>d, <2>1, <2>2, <2>3 DEF ResyncRead, txn
  <1>i. ASSUME NEW x \in Readers, LoadWithoutLock(x)
        PROVE  Counted' /\ fw' \in [table : BOOLEAN, blocked : SUBSET Ports] /\ disturbed' \in BOOLEAN
    <2>1. seen[x] \in SUBSET Ports
      BY <1>d
    <2> QED  BY <1>i, <1>a, <1>e, <2>1 DEF LoadWithoutLock
  <1>5. ASSUME NEW c \in Clients, ResyncLoad(c) PROVE VariablesTyped'
    <2>1. Counted' /\ fw' \in [table : BOOLEAN, blocked : SUBSET Ports] /\ disturbed' \in BOOLEAN
      BY <1>5, <1>b, <1>i, <1>j DEF ResyncLoad
    <2>2. pc' \in [Clients -> {"idle", "calls", "resync", "load"}]
      BY <1>5, <1>f DEF ResyncLoad
    <2>3. seen' \in [Readers -> SUBSET Ports]
      BY <1>5, <1>b, <1>g DEF ResyncLoad
    <2> QED  BY <1>5, <1>d, <2>1, <2>2, <2>3 DEF ResyncLoad, txn
  <1>6. ASSUME NEW c \in Clients, Dies(c) PROVE VariablesTyped'
    <2>1. Counted'
      BY <1>6, <1>d DEF Dies, Counted
    <2>2. fw' \in [table : BOOLEAN, blocked : SUBSET Ports]
      BY <1>6, <1>d, PerhapsOK DEF Dies
    <2>3. /\ pc' \in [Clients -> {"idle", "calls", "resync", "load"}]
          /\ seen' \in [Readers -> SUBSET Ports]
      BY <1>6, <1>b, <1>f, <1>g DEF Dies
    <2>4. work' \in Database /\ todo' \in Seq(Calls) /\ called' \in BOOLEAN
      BY <1>6, <1>d, <1>h DEF Dies, txn
    <2>5. lock' \in Clients \cup {Maintainer, NoOne}
      BY <1>6, <1>d DEF Dies
    <2> QED  BY <1>6, <1>d, <2>1, <2>2, <2>3, <2>4, <2>5 DEF Dies
  <1>7. CASE Stage
    <2>1. Counted'
      BY <1>7, <1>d DEF Stage, Counted
    <2>2. mpc' \in {"idle", "sync", "apply"}
      BY <1>7 DEF Stage
    <2>3. db' \in Database
      BY <1>7, <1>c DEF Stage
    <2> QED  BY <1>7, <1>d, <2>1, <2>2, <2>3 DEF Stage, txn
  <1>8. CASE LockAndRead
    <2>1. Counted' /\ mpc' \in {"load", "reload"} /\ seen' \in [Readers -> SUBSET Ports]
      BY <1>8, <1>b, <1>e, <1>g DEF LockAndRead
    <2> QED  BY <1>8, <1>d, <2>1 DEF LockAndRead, txn
  <1>9. CASE LoadAndUnlock
    <2>1. Counted' /\ disturbed' \in BOOLEAN /\ mpc' \in {"apply", "idle", "abort"}
      BY <1>9, <1>d, <1>e DEF LoadAndUnlock
    <2>2. seen[Maintainer] \in SUBSET Ports /\ seen' \in [Readers -> SUBSET Ports]
      BY <1>9, <1>b, <1>d, <1>g DEF LoadAndUnlock
    <2>3. fw' \in [table : BOOLEAN, blocked : SUBSET Ports]
      BY <1>9, <1>a, <1>d, <2>2 DEF LoadAndUnlock, PerhapsLoaded
    <2> QED  BY <1>9, <1>d, <2>1, <2>2, <2>3 DEF LoadAndUnlock, txn
  <1>10. CASE Activate
    <2>1. Counted' /\ db' \in Database /\ mpc' \in {"idle", "abort"}
      BY <1>10, <1>c, <1>d, <1>e DEF Activate
    <2> QED  BY <1>10, <1>d, <2>1 DEF Activate, txn
  <1>11. CASE Abandon
    <2>1. Counted' /\ db' \in Database /\ mpc' \in {"idle", "resync"}
      BY <1>11, <1>c, <1>d, <1>e DEF Abandon
    <2> QED  BY <1>11, <1>d, <2>1 DEF Abandon, txn
  <1>12. CASE Flush
    <2>1. Counted'
      BY <1>12, <1>d DEF Flush, Counted
    <2> QED  BY <1>12, <1>a, <1>d, <2>1 DEF Flush, txn
  <1>13. CASE ServiceRead
    <2>1. Counted' /\ fw' \in [table : BOOLEAN, blocked : SUBSET Ports] /\ disturbed' \in BOOLEAN
      BY <1>13, <1>d, <1>e, <1>j DEF ServiceRead
    <2>2. seen' \in [Readers -> SUBSET Ports]
      BY <1>13, <1>b, <1>d, <1>g DEF ServiceRead
    <2> QED  BY <1>13, <1>d, <2>1, <2>2 DEF ServiceRead, txn
  <1>14. CASE ServiceLoad
    <2>1. seen' \in [Readers -> SUBSET Ports]
      BY <1>14, <1>b, <1>g DEF ServiceLoad
    <2>2. Counted' /\ fw' \in [table : BOOLEAN, blocked : SUBSET Ports] /\ disturbed' \in BOOLEAN
      BY <1>14, <1>b, <1>d, <1>i, <1>j DEF ServiceLoad
    <2> QED  BY <1>14, <1>d, <2>1, <2>2 DEF ServiceLoad, txn
  <1>15. CASE UNCHANGED vars
    BY <1>15, <1>d DEF vars, Counted
  <1> QED  BY <1>1, <1>2, <1>3, <1>4, <1>5, <1>6, <1>7, <1>8, <1>9, <1>10, <1>11, <1>12, <1>13,
              <1>14, <1>15
           DEF Next, ClientGoesOn, MaintainerGoesOn, ServiceGoesOn, Refused

(* The calls of the running transaction, the first of them and the rest.   *)
LEMMA NextCall ==
    ASSUME VariablesTyped, todo # <<>>, CallsRight(todo, work)
    PROVE  /\ CallsRight(Tail(todo), work)
           /\ \A p \in Ports :
                IF p \in Head(todo).ports
                THEN p \in Called(Head(todo)).blocked <=> p \in Blocked(work)
                ELSE /\ p \in Called(Head(todo)).blocked <=> p \in fw.blocked
                     /\ Untouched(Tail(todo), p) => Untouched(todo, p)
  <1>1. /\ todo \in Seq(Calls) /\ Tail(todo) \in Seq(Calls) /\ Len(todo) \in Nat \ {0}
        /\ Len(Tail(todo)) = Len(todo) - 1 /\ Head(todo) = todo[1]
        /\ \A i \in 1 .. Len(Tail(todo)) : Tail(todo)[i] = todo[i + 1]
    BY HeadTailProperties, EmptySeq DEF VariablesTyped
  <1>2. CallsRight(Tail(todo), work)
    <2>1. \A i \in 1 .. Len(Tail(todo)) : i + 1 \in 1 .. Len(todo)
      BY <1>1
    <2> QED  BY <1>1, <2>1 DEF CallsRight
  <1>3. /\ Head(todo) \in Calls
        /\ \A p \in Head(todo).ports : Head(todo).op = "block" <=> p \in Blocked(work)
    <2>1. 1 \in 1 .. Len(todo)
      BY <1>1
    <2> QED  BY <1>1, <2>1, ElementOfSeq DEF CallsRight
  <1>4. ASSUME NEW p \in Ports, p \notin Head(todo).ports, Untouched(Tail(todo), p)
        PROVE  Untouched(todo, p)
    <2> SUFFICES ASSUME NEW i \in 1 .. Len(todo) PROVE p \notin todo[i].ports
      BY DEF Untouched
    <2>1. i = 1 \/ (i - 1 \in 1 .. Len(Tail(todo)) /\ todo[i] = Tail(todo)[i - 1])
      BY <1>1
    <2> QED  BY <1>1, <1>4, <2>1 DEF Untouched
  <1>5. \A p \in Ports : p \in Called(Head(todo)).blocked
                           <=> IF p \in Head(todo).ports THEN Head(todo).op = "block"
                               ELSE p \in fw.blocked
    BY <1>3, PerhapsOK DEF Apply, Calls
  <1> QED  BY <1>2, <1>3, <1>4, <1>5

(* Watched ports are ports of the database, and the maintainer never       *)
(* watches more than those in use.                                         *)
LEMMA WatchedInUse == Watched \subseteq InUse(db) /\ InUse(db) \subseteq Ports
  BY DEF Watched, InUse, ActivePorts, With

LEMMA SameWatched ==
    ASSUME NEW d, NEW f, SameShards(d, f)
    PROVE  ActivePorts(f) = ActivePorts(d) /\ With(f, "staged") = With(d, "staged")
  BY DEF SameShards, ActivePorts, With

LEMMA LoadAgrees ==
    ASSUME NEW x, LoadWithoutLock(x), ~disturbed', UNCHANGED db
    PROVE  /\ fw'.table /\ lock \notin Clients
           /\ \A p : p \in fw'.blocked <=> p \in Blocked(db')
           /\ \A p : Agrees(p, db)'
  <1>1. lock \notin Clients /\ seen[x] = Blocked(db)
    <2>1. disturbed \/ lock \in Clients \/ seen[x] # Blocked(db) => disturbed'
      BY DEF LoadWithoutLock
    <2> QED  BY <2>1
  <1>2. fw'.table /\ fw'.blocked = seen[x]
    BY DEF LoadWithoutLock, Rebuilt
  <1> QED  BY <1>1, <1>2 DEF Agrees

LEMMA ClientStep ==
    ASSUME IInv, NEW c \in Clients, Begin(c) \/ ClientGoesOn(c) \/ Dies(c)
    PROVE  DbOK(db') /\ TransactionRight' /\ MaintainerRight' /\ FirewallRight'
  <1>a. /\ VariablesTyped /\ DbOK(db) /\ TransactionRight /\ MaintainerRight /\ FirewallRight
        /\ pc \in [Clients -> {"idle", "calls", "resync", "load"}]
    BY DEF IInv, VariablesTyped
  <1>b. /\ NoOne \notin Clients /\ Maintainer \notin Clients /\ NoOne # Maintainer
        /\ c # Maintainer /\ Maintainer \in Readers
    BY AccessConstants DEF Readers
  <1>c. seen \in [Readers -> SUBSET Ports]
    BY <1>a DEF VariablesTyped
  <1>1. CASE Begin(c)
    <2>1. PICK op \in Operations(db) : work' = op.db /\ todo' = op.calls
      BY <1>1 DEF Begin
    <2>2. OperationOK(db, op) /\ db' = db
      BY <1>1, <1>a, <2>1, OperationsOK DEF Begin
    <2>3. lock = NoOne /\ lock' = c /\ pc' = [pc EXCEPT ![c] = "calls"] /\ pc[c] = "idle"
      BY <1>1 DEF Begin, Goto
    <2>4. TransactionRight'
      BY <1>a, <1>b, <2>1, <2>2, <2>3 DEF TransactionRight, OperationOK
    <2>5. MaintainerRight'
      BY <1>1, <1>a, <1>b, <2>3 DEF Begin, MaintainerRight
    <2>6. FirewallRight'
      <3> SUFFICES ASSUME Undisturbed'
                   PROVE  /\ spc' = "idle" => fw'.table
                          /\ fw'.table => \A p \in Watched' : MidOperation(p)'
        BY <1>b, <2>3 DEF FirewallRight
      <3>1. Undisturbed /\ UNCHANGED <<fw, spc, mpc>>
        BY <1>1, <1>a, <2>3 DEF Begin, Undisturbed
      <3>2. Watched' = Watched
        BY <2>2, <3>1 DEF Watched
      <3>3. ASSUME fw.table, NEW p \in Watched PROVE MidOperation(p)'
        <4>1. Agrees(p, db) /\ p \in Ports
          BY <1>a, <1>b, <2>3, <3>1, <3>3, WatchedInUse DEF FirewallRight
        <4>2. Untouched(todo', p) => (p \in Blocked(work') <=> p \in Blocked(db))
          BY <2>1, <2>2, <4>1 DEF OperationOK
        <4> QED  BY <2>2, <3>1, <4>1, <4>2 DEF MidOperation, Agrees
      <3> QED  BY <1>a, <3>1, <3>2, <3>3 DEF FirewallRight
    <2> QED  BY <1>a, <2>2, <2>4, <2>5, <2>6
  <1>2. CASE Call(c)
    <2>1. /\ lock = c /\ CallsRight(todo, work) /\ pc[c] = "calls" /\ todo # <<>>
          /\ UNCHANGED <<db, mpc, spc, disturbed, seen>>
      BY <1>2, <1>a DEF Call, TransactionRight
    <2>2. CASE RollBack(c, TRUE)
      <3>1. lock' = NoOne /\ pc' = [pc EXCEPT ![c] = "resync"]
        BY <2>2 DEF RollBack, Goto
      <3>2. TransactionRight'
        BY <1>a, <1>b, <2>1, <3>1 DEF TransactionRight
      <3>3. MaintainerRight'
        BY <1>a, <1>b, <2>1 DEF MaintainerRight
      <3>4. FirewallRight'
        BY <1>a, <3>1 DEF FirewallRight, Undisturbed
      <3> QED  BY <1>a, <2>1, <3>2, <3>3, <3>4
    <2>3. CASE /\ fw.table /\ fw' = Called(Head(todo))
               /\ todo' = Tail(todo) /\ called' = TRUE
               /\ UNCHANGED <<lock, work, pc, bounds>>
      <3>1. TransactionRight'
        BY <1>a, <2>1, <2>3, NextCall DEF TransactionRight
      <3>2. MaintainerRight'
        BY <1>a, <1>b, <2>1, <2>3 DEF MaintainerRight
      <3>3. FirewallRight'
        <4> SUFFICES ASSUME Undisturbed'
                     PROVE  fw'.table /\ \A p \in Watched' : MidOperation(p)'
          BY <2>1, <2>3 DEF FirewallRight
        <4>1. Undisturbed /\ Watched' = Watched /\ fw'.table
          BY <1>a, <2>1, <2>3, PerhapsOK DEF Undisturbed, Watched
        <4>2. ASSUME NEW p \in Watched PROVE MidOperation(p)'
          <5>1. MidOperation(p) /\ p \in Ports
            BY <1>a, <2>1, <2>3, <4>1, WatchedInUse DEF FirewallRight
          <5> QED  BY <1>a, <2>1, <2>3, <5>1, NextCall DEF MidOperation, Agrees
        <4> QED  BY <4>1, <4>2
      <3> QED  BY <1>a, <2>1, <3>1, <3>2, <3>3
    <2> QED  BY <1>2, <2>2, <2>3 DEF Call
  <1>3. CASE Commit(c)
    <2>1. /\ lock = c /\ DbOK(work) /\ SameShards(db, work) /\ pc[c] = "calls" /\ todo = <<>>
          /\ UNCHANGED <<fw, mpc, spc, disturbed, seen>> /\ lock' = NoOne
      BY <1>3, <1>a DEF Commit, TransactionRight, RollBack
    <2>2. DbOK(db')
      BY <1>3, <1>a, <2>1 DEF Commit
    <2>3. PICK step \in {"idle", "resync"} : pc' = [pc EXCEPT ![c] = step]
      BY <1>3 DEF Commit, RollBack, Goto
    <2>4. TransactionRight'
      BY <1>a, <1>b, <2>1, <2>3 DEF TransactionRight
    <2>5. MaintainerRight'
      BY <1>a, <1>b, <2>1 DEF MaintainerRight
    <2>6. FirewallRight'
      <3> SUFFICES ASSUME Undisturbed'
                   PROVE  /\ spc' = "idle" => fw'.table
                          /\ fw'.table => \A p \in Watched' : Agrees(p, db)'
        BY <1>b, <2>1 DEF FirewallRight
      <3>1. Undisturbed /\ Watched' = Watched
        <4>1. ActivePorts(db') = ActivePorts(db) /\ With(db', "staged") = With(db, "staged")
          BY <1>3, <2>1, SameWatched DEF Commit
        <4> QED  BY <1>a, <2>1, <2>3, <4>1 DEF Undisturbed, Watched
      <3>2. db' = work \/ (db' = db /\ ~called)
        <4>1. pc'[c] # "resync"
          BY <1>a, <2>3 DEF Undisturbed
        <4> QED  BY <1>3, <1>a, <4>1 DEF Commit, RollBack, Goto
      <3>3. ASSUME fw.table, NEW p \in Watched PROVE Agrees(p, db)'
        <4>1. MidOperation(p)
          BY <1>a, <2>1, <3>1, <3>3 DEF FirewallRight
        <4>2. Untouched(todo, p)
          BY <2>1 DEF Untouched
        <4> QED  BY <2>1, <3>2, <4>1, <4>2 DEF MidOperation, Agrees
      <3> QED  BY <1>a, <2>1, <3>1, <3>3 DEF FirewallRight
    <2> QED  BY <2>2, <2>4, <2>5, <2>6
  <1>4. CASE ResyncRead(c)
    <2>1. /\ pc[c] = "resync" /\ UNCHANGED <<db, fw, lock, work, todo, called, mpc, spc>>
          /\ seen'[Maintainer] = seen[Maintainer]
      BY <1>4, <1>b, <1>c DEF ResyncRead, EndWithoutLoad, txn, Read
    <2>2. pc' = [pc EXCEPT ![c] = "load"] \/ (pc' = [pc EXCEPT ![c] = "idle"] /\ disturbed' = TRUE)
      BY <1>4 DEF ResyncRead, EndWithoutLoad, Goto
    <2>3. TransactionRight'
      BY <1>a, <2>1, <2>2 DEF TransactionRight
    <2>4. MaintainerRight'
      BY <1>a, <2>1 DEF MaintainerRight
    <2>5. FirewallRight'
      BY <1>a, <2>2 DEF FirewallRight, Undisturbed
    <2> QED  BY <1>a, <2>1, <2>3, <2>4, <2>5
  <1>5. CASE ResyncLoad(c)
    <2>1. /\ pc[c] = "load" /\ UNCHANGED <<db, lock, work, todo, called, mpc, spc>>
          /\ seen'[Maintainer] = seen[Maintainer] /\ pc' = [pc EXCEPT ![c] = "idle"]
      BY <1>5, <1>b, <1>c DEF ResyncLoad, txn, Forget, Goto
    <2>2. TransactionRight'
      BY <1>a, <2>1 DEF TransactionRight
    <2>3. MaintainerRight'
      BY <1>a, <2>1 DEF MaintainerRight
    <2>4. FirewallRight'
      <3> SUFFICES ASSUME Undisturbed'
                   PROVE  fw'.table /\ lock \notin Clients /\ \A p \in Watched' : Agrees(p, db)'
        BY <2>1 DEF FirewallRight
      <3>1. ~disturbed'
        BY DEF Undisturbed
      <3>2. LoadWithoutLock(c)
        BY <1>5, <3>1 DEF ResyncLoad, EndWithoutLoad
      <3> QED  BY <2>1, <3>1, <3>2, LoadAgrees
    <2> QED  BY <1>a, <2>1, <2>2, <2>3, <2>4
  <1>6. CASE Dies(c)
    <2>1. /\ UNCHANGED <<db, mpc, spc>> /\ disturbed' = TRUE
          /\ seen'[Maintainer] = seen[Maintainer] /\ pc' = [pc EXCEPT ![c] = "idle"]
          /\ IF lock = c THEN lock' = NoOne ELSE UNCHANGED <<lock, work, todo, called>>
      BY <1>6, <1>b, <1>c DEF Dies, Forget, Goto, txn
    <2>2. TransactionRight'
      BY <1>a, <1>b, <2>1 DEF TransactionRight
    <2>3. MaintainerRight'
      BY <1>a, <1>b, <2>1 DEF MaintainerRight
    <2>4. FirewallRight'
      BY <2>1 DEF FirewallRight, Undisturbed
    <2> QED  BY <1>a, <2>1, <2>2, <2>3, <2>4
  <1> QED  BY <1>1, <1>2, <1>3, <1>4, <1>5, <1>6 DEF ClientGoesOn

LEMMA MaintainerStep ==
    ASSUME IInv, Stage \/ MaintainerGoesOn
    PROVE  DbOK(db') /\ TransactionRight' /\ MaintainerRight' /\ FirewallRight'
  <1>a. /\ VariablesTyped /\ DbOK(db) /\ TransactionRight /\ MaintainerRight /\ FirewallRight
    BY DEF IInv
  <1>b. NoOne \notin Clients /\ Maintainer \notin Clients /\ NoOne # Maintainer
    BY AccessConstants
  <1>c. seen \in [Readers -> SUBSET Ports] /\ Maintainer \in Readers
    BY <1>a DEF VariablesTyped, Readers
  (* A change of the database that leaves the firewall as it is.           *)
  <1>d. ASSUME lock = NoOne, DbOK(db'), Permitted(db') = Permitted(db), Watched' \subseteq Watched,
               Watched' \subseteq InUse(db'),
               UNCHANGED <<fw, lock, pc, work, todo, called, spc, disturbed>>,
               mpc' \notin {"load", "reload"}
        PROVE  TransactionRight' /\ MaintainerRight' /\ FirewallRight'
    <2>1. TransactionRight' /\ MaintainerRight'
      BY <1>a, <1>b, <1>d DEF TransactionRight, MaintainerRight
    <2>2. \A p \in Watched' : p \in Blocked(db') <=> p \in Blocked(db)
      <3>1. \A p \in InUse(db) : p \in Blocked(db) <=> p \notin Permitted(db)
        BY BlockedInUse
      <3>2. \A p \in InUse(db') : p \in Blocked(db') <=> p \notin Permitted(db')
        BY BlockedInUse
      <3> QED  BY <1>d, <3>1, <3>2, WatchedInUse
    <2>3. FirewallRight'
      BY <1>a, <1>b, <1>d, <2>2 DEF FirewallRight, Undisturbed, Agrees
    <2> QED  BY <2>1, <2>3
  <1>1. CASE Stage
    <2>1. /\ lock = NoOne /\ db' \in {Renewing(db), Grown(db)}
          /\ UNCHANGED <<fw, lock, pc, work, todo, called, spc, disturbed>>
          /\ mpc' \notin {"load", "reload"}
          /\ mpc' = "apply" => With(db', "staged") = {}
      BY <1>1 DEF Stage, txn
    <2>2. DbOK(db') /\ Permitted(db') = Permitted(db) /\ ActivePorts(db') = ActivePorts(db)
      BY <1>a, <2>1, MaintenanceOK
    <2>3. Watched' \subseteq Watched /\ Watched' \subseteq InUse(db')
      BY <2>1, <2>2 DEF Watched, InUse
    <2> QED  BY <1>d, <2>1, <2>2, <2>3
  <1>2. CASE LockAndRead
    <2>1. /\ lock = NoOne /\ lock' = Maintainer /\ seen'[Maintainer] = Blocked(db')
          /\ UNCHANGED <<db, fw, pc, work, todo, called, spc, disturbed>>
          /\ mpc \in {"sync", "resync"} /\ mpc' \in {"load", "reload"}
      BY <1>2, <1>c DEF LockAndRead, Read, txn
    <2>2. TransactionRight' /\ MaintainerRight'
      BY <1>a, <1>b, <2>1 DEF TransactionRight, MaintainerRight
    <2>3. FirewallRight'
      BY <1>a, <1>b, <2>1 DEF FirewallRight, Undisturbed, Agrees, Watched
    <2> QED  BY <1>a, <2>1, <2>2, <2>3
  <1>3. CASE LoadAndUnlock
    <2>1. /\ lock = Maintainer /\ seen[Maintainer] = Blocked(db) /\ lock' = NoOne
          /\ mpc \in {"load", "reload"} /\ mpc' \in {"apply", "abort", "idle"}
          /\ UNCHANGED <<db, pc, work, todo, called, spc>>
          /\ \/ fw' = Rebuilt(seen[Maintainer])
             \/ fw' = fw /\ disturbed' = disturbed /\ mpc' # "apply"
      BY <1>3, <1>a DEF LoadAndUnlock, PerhapsLoaded, MaintainerRight, txn
    <2>2. TransactionRight' /\ MaintainerRight'
      BY <1>a, <1>b, <2>1 DEF TransactionRight, MaintainerRight
    <2>3. FirewallRight'
      <3>1. CASE fw' = Rebuilt(seen[Maintainer])
        BY <1>b, <2>1, <3>1 DEF FirewallRight, Rebuilt, Agrees
      <3>2. CASE fw' = fw /\ disturbed' = disturbed /\ mpc' # "apply"
        <4>1. Watched' \subseteq Watched
          BY <2>1, <3>2 DEF Watched
        <4> QED  BY <1>a, <1>b, <2>1, <3>2, <4>1 DEF FirewallRight, Undisturbed, Agrees
      <3> QED  BY <2>1, <3>1, <3>2
    <2> QED  BY <1>a, <2>1, <2>2, <2>3
  <1>4. CASE Activate
    <2>1. UNCHANGED <<fw, lock, pc, work, todo, called, spc, disturbed, seen>> /\ mpc = "apply"
      BY <1>4 DEF Activate, txn
    <2>2. CASE lock = NoOne /\ db' = Activated(db) /\ mpc' = "idle"
      <3>1. DbOK(db') /\ Permitted(db') = Permitted(db) /\ ActivePorts(db') = InUse(db)
        BY <1>a, <2>2, MaintenanceOK
      <3>2. Watched' \subseteq Watched /\ Watched' \subseteq InUse(db')
        BY <2>1, <2>2, <3>1 DEF Watched, InUse
      <3> QED  BY <1>d, <2>1, <2>2, <3>1, <3>2
    <2>3. CASE mpc' \in {"abort", "idle"} /\ UNCHANGED db
      <3>1. TransactionRight' /\ MaintainerRight'
        BY <1>a, <2>1, <2>3 DEF TransactionRight, MaintainerRight
      <3>2. Watched' \subseteq Watched
        BY <2>1, <2>3 DEF Watched
      <3>3. FirewallRight'
        BY <1>a, <2>1, <2>3, <3>2 DEF FirewallRight, Undisturbed, Agrees, MidOperation
      <3> QED  BY <1>a, <2>3, <3>1, <3>3
    <2> QED  BY <1>4, <2>2, <2>3 DEF Activate
  <1>5. CASE Abandon
    <2>1. UNCHANGED <<fw, lock, pc, work, todo, called, spc, disturbed>> /\ mpc = "abort"
      BY <1>5 DEF Abandon, txn
    <2>2. CASE lock = NoOne /\ db' = Dropped(db) /\ mpc' \in {"resync", "idle"}
      <3>1. DbOK(db') /\ Permitted(db') = Permitted(db) /\ ActivePorts(db') = ActivePorts(db)
        BY <1>a, <2>2, MaintenanceOK
      <3>2. Watched' \subseteq Watched /\ Watched' \subseteq InUse(db')
        BY <2>2, <3>1 DEF Watched, InUse
      <3> QED  BY <1>d, <2>1, <2>2, <3>1, <3>2
    <2>3. CASE mpc' = "idle" /\ UNCHANGED db
      <3>1. TransactionRight' /\ MaintainerRight'
        BY <1>a, <2>1, <2>3 DEF TransactionRight, MaintainerRight
      <3>2. FirewallRight'
        BY <1>a, <2>1, <2>3 DEF FirewallRight, Undisturbed, Agrees, MidOperation, Watched
      <3> QED  BY <1>a, <2>3, <3>1, <3>2
    <2> QED  BY <1>5, <2>2, <2>3 DEF Abandon
  <1> QED  BY <1>1, <1>2, <1>3, <1>4, <1>5 DEF MaintainerGoesOn

LEMMA ServiceStep ==
    ASSUME IInv, Flush \/ ServiceGoesOn
    PROVE  DbOK(db') /\ TransactionRight' /\ MaintainerRight' /\ FirewallRight'
  <1>a. /\ VariablesTyped /\ DbOK(db) /\ TransactionRight /\ MaintainerRight /\ FirewallRight
    BY DEF IInv
  <1>b. /\ seen \in [Readers -> SUBSET Ports] /\ Maintainer \in Readers /\ Service # Maintainer
    BY <1>a, AccessConstants DEF VariablesTyped, Readers, Service
  <1>1. /\ UNCHANGED <<db, lock, pc, work, todo, called, mpc>>
        /\ seen'[Maintainer] = seen[Maintainer]
    BY <1>b DEF Flush, ServiceGoesOn, ServiceRead, ServiceLoad, EndWithoutLoad, Read, Forget, txn
  <1>2. TransactionRight' /\ MaintainerRight'
    BY <1>a, <1>1 DEF TransactionRight, MaintainerRight
  <1>3. CASE Flush
    <2>1. spc' = "sync" /\ ~fw'.table
      BY <1>3 DEF Flush, Flushed
    <2>2. FirewallRight'
      BY <2>1 DEF FirewallRight
    <2> QED  BY <1>a, <1>1, <1>2, <2>2
  (* A sync that ends without a table disturbs; with one, it harms nobody. *)
  <1>c. ASSUME EndWithoutLoad(~fw.table) PROVE FirewallRight'
    BY <1>a, <1>1, <1>c DEF EndWithoutLoad, FirewallRight, Undisturbed, Watched, Agrees, MidOperation
  <1>4. CASE ServiceRead
    <2>1. ASSUME spc' = "load", UNCHANGED <<fw, disturbed>> PROVE FirewallRight'
      BY <1>a, <1>1, <2>1 DEF FirewallRight, Undisturbed, Watched, Agrees, MidOperation
    <2> QED  BY <1>4, <1>a, <1>c, <1>1, <1>2, <2>1 DEF ServiceRead
  <1>5. CASE ServiceLoad
    <2>1. CASE LoadWithoutLock(Service)
      <3> SUFFICES ASSUME Undisturbed'
                   PROVE  fw'.table /\ lock \notin Clients /\ \A p \in Watched' : Agrees(p, db)'
        BY <1>1, <1>2, <1>a DEF FirewallRight
      <3>1. ~disturbed'
        BY DEF Undisturbed
      <3> QED  BY <1>1, <2>1, <3>1, LoadAgrees
    <2> QED  BY <1>5, <1>a, <1>c, <1>1, <1>2, <2>1 DEF ServiceLoad
  <1> QED  BY <1>3, <1>4, <1>5 DEF ServiceGoesOn

LEMMA StepOK == IInv /\ [Next]_vars => IInv'
  <1> SUFFICES ASSUME IInv, [Next]_vars PROVE IInv'
    OBVIOUS
  <1>1. VariablesTyped'
    BY TypeStep DEF IInv
  <1>2. ASSUME UNCHANGED vars
        PROVE  DbOK(db') /\ TransactionRight' /\ MaintainerRight' /\ FirewallRight'
    BY <1>2 DEF IInv, vars, TransactionRight, MaintainerRight, FirewallRight, Undisturbed, Watched,
                Agrees, MidOperation
  <1>3. DbOK(db') /\ TransactionRight' /\ MaintainerRight' /\ FirewallRight'
    BY <1>2, ClientStep, MaintainerStep, ServiceStep DEF Next, Refused
  <1> QED  BY <1>1, <1>3 DEF IInv

-----------------------------------------------------------------------------
(* The theorems.                                                           *)

LEMMA Invariance == Spec => []IInv
  <1> QED  BY InitOK, StepOK, PTL DEF Spec

(* Every variable stays in its type, whatever fails and whoever is killed. *)
THEOREM AccessTypeCorrect == Spec => []TypeOK
  <1>1. IInv => TypeOK
    BY AccessConstants DEF IInv, TypeOK, DbOK, SlotOK
  <1> QED  BY <1>1, Invariance, PTL

(* The operations of users.py and the maintainer keep slots.device_id and  *)
(* devices.slot_id each other's inverse, for any number of each.           *)
THEOREM LinksStayInverse == Spec => []SlotsMatchDevices
  <1>1. ASSUME DbOK(db) PROVE SlotsMatchDevices
    <2>1. ASSUME NEW p \in Ports
          PROVE  DeviceAt(db, p)
                   = IF db.slot[p].status = "assigned" THEN {db.slot[p].device} ELSE {}
      BY <1>1, PermittedOf
    <2>2. \A e \in Devices : db.device[e] # NoDevice => db.user[db.device[e].user] # "absent"
      BY <1>1, OwnerExists DEF NewDevice
    <2> QED  BY <2>1, <2>2 DEF SlotsMatchDevices
  <1>2. IInv => SlotsMatchDevices
    BY <1>1 DEF IInv
  <1> QED  BY <1>2, Invariance, PTL

(* At every moment, between any two calls of an operation, no port is open *)
(* that neither the committed nor the coming database permits; that the    *)
(* table exists is part of the claim, unless the service is about to load  *)
(* it.                                                                     *)
THEOREM NoPortOpenedEarly == Spec => []OpenOnlyIfPermitted
  <1>1. ASSUME IInv PROVE OpenOnlyIfPermitted
    <2>1. /\ DbOK(db) /\ FirewallRight
          /\ \A c \in Clients : lock = c => DbOK(work) /\ SameShards(db, work)
      BY <1>1 DEF IInv, TransactionRight
    <2> SUFFICES ASSUME Undisturbed, fw.table \/ spc = "idle",
                        NEW p \in ActivePorts(db), ~Closed(p)
                 PROVE  p \in Permitted(db) \/ (lock \in Clients /\ p \in Permitted(work))
      BY DEF OpenOnlyIfPermitted, Undisturbed
    <2>0. fw.table /\ p \notin fw.blocked
      BY <2>1 DEF FirewallRight, Closed
    <2>2. p \in Watched /\ p \in InUse(db)
      BY DEF Watched, InUse
    <2>3. p \notin Blocked(db) => p \in Permitted(db)
      BY <2>2, BlockedInUse
    <2>4. CASE lock \notin Clients
      BY <2>0, <2>1, <2>2, <2>3, <2>4 DEF FirewallRight, Agrees
    <2>5. CASE lock \in Clients
      <3>1. p \in InUse(work)
        BY <2>1, <2>2, <2>5, SameWatched DEF InUse
      <3>2. p \notin Blocked(work) => p \in Permitted(work)
        BY <3>1, BlockedInUse
      <3> QED  BY <2>0, <2>1, <2>2, <2>3, <2>5, <3>2 DEF FirewallRight, MidOperation, Agrees
    <2> QED  BY <2>4, <2>5
  <1> QED  BY <1>1, Invariance, PTL

(* Whenever nobody is at work the table is that of the database, whichever *)
(* calls, commits and steps of the maintainer before it have failed, and   *)
(* though nftables has been restarted.  Excluded, as in the property, are  *)
(* the states between a disturbance and the maintainer's next rebuild: a   *)
(* client killed, a client's or the service's rebuild that ended without   *)
(* loading the table, one of theirs that overlapped a change.              *)
THEOREM FirewallIsRight == Spec => []FirewallMatchesDatabase
  <1>1. ASSUME IInv PROVE FirewallMatchesDatabase
    <2> SUFFICES ASSUME Quiet, ~disturbed, NEW p \in ActivePorts(db)
                 PROVE  Closed(p) <=> p \in Blocked(db)
      BY DEF FirewallMatchesDatabase, Matches
    <2>1. Undisturbed /\ spc = "idle" /\ lock \notin Clients
      BY AccessConstants DEF Quiet, Undisturbed
    <2>2. fw.table /\ Agrees(p, db)
      BY <1>1, <2>1 DEF IInv, FirewallRight, Watched
    <2> QED  BY <2>2 DEF Closed, Agrees
  <1> QED  BY <1>1, Invariance, PTL

(* What the maintainer loads is what the committed database asks for, even *)
(* if other rebuilds overlap its own: the write lock keeps what it has     *)
(* read current.                                                           *)
THEOREM LockedRebuildIsExact == Spec => LockedSyncIsExact
  <1>1. ASSUME IInv, Next, mpc \in {"load", "reload"}, mpc' # mpc, faults' = faults
        PROVE  fw' = Rebuilt(Blocked(db'))
    <2>1. LoadAndUnlock
      BY <1>1 DEF Next, Begin, Refused, ClientGoesOn, Call, Commit, ResyncRead, ResyncLoad, Dies,
                  Stage, MaintainerGoesOn, LockAndRead, Activate, Abandon, Flush, ServiceGoesOn,
                  ServiceRead, ServiceLoad, vars
    <2>2. faults \in Nat
      BY <1>1 DEF IInv, VariablesTyped
    <2>3. fw' = Rebuilt(seen[Maintainer]) /\ db' = db
      BY <1>1, <2>1, <2>2 DEF LoadAndUnlock, MayFail
    <2> QED  BY <1>1, <2>3 DEF IInv, MaintainerRight
  <1>2. IInv /\ [Next]_vars =>
          [(mpc \in {"load", "reload"} /\ mpc' # mpc /\ faults' = faults)
             => fw' = Rebuilt(Blocked(db'))]_vars
    BY <1>1
  <1> QED  BY <1>2, Invariance, PTL DEF Spec, LockedSyncIsExact
=============================================================================
