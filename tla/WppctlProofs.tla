---------------------------- MODULE WppctlProofs ----------------------------
(***************************************************************************)
(* Proofs about Wppctl, for any number of clients and ports and any number *)
(* of failures: the invariant, what follows from it, and at the end that   *)
(* the commands implement the calls of FirewallCalls.                      *)
(***************************************************************************)
EXTENDS Wppctl, TLAPS

(* A client inside its transaction holds the write lock, and so does the   *)
(* maintainer inside its rebuild; so what either has read of the database  *)
(* is still committed.                                                     *)
ClientSteps == {"add", "kill", "list", "delete", "commit"}

LocksHeld ==
    /\ \A c \in Clients : pc[c] \in ClientSteps => lock = c /\ port[c] \in Ports
    /\ pc[Maintainer] # "idle" => lock = Maintainer

ReadsCurrent ==
    /\ \A c \in Clients : /\ pc[c] = "add" => port[c] \in allowed
                          /\ pc[c] \in {"list", "delete"} => port[c] \notin allowed
    /\ pc[Maintainer] \in {"before", "load", "cut"} => want[Maintainer] = Ports \ allowed

Healthy == ~missed /\ ~flushed /\ ~overtaken

(* As long as nftables has not been restarted, the table exists, and a     *)
(* rebuild has found it.                                                   *)
TableListed ==
    ~flushed => fw.table /\ \A x \in Processes : pc[x] \in {"load", "cut"} => before[x].table

(* A rebuild is about to kill the connection to p.                         *)
AboutToCut(x, p) == pc[x] = "cut" /\ p \in want[x] /\ p \notin before[x].blocked

(* A connection behind the closed port of a user without access is about   *)
(* to be killed; and the user who is about to lose access has none there.  *)
CutsPending ==
    Healthy =>
      /\ \A p \in (conns \cap fw.blocked) \ allowed : \E x \in Processes : AboutToCut(x, p)
      /\ \A c \in Clients :
           pc[c] = "commit" /\ port[c] \in allowed => port[c] \notin conns \cap fw.blocked

IInv == TypeOK /\ LocksHeld /\ ReadsCurrent /\ TableListed /\ CutsPending

-----------------------------------------------------------------------------

(* What a rollback, and what the end of a process, leaves is typed.        *)
LocalsOK ==
    /\ lock \in Clients \cup {Maintainer, NoOne}
    /\ pc \in [Processes -> ClientSteps \cup SyncSteps \cup {"idle"}]
    /\ port \in [Processes -> Ports \cup {Null}]
    /\ want \in [Processes -> SUBSET Ports]
    /\ before \in [Processes -> [table : BOOLEAN, blocked : SUBSET Ports]]

SharedOK ==
    /\ allowed \subseteq Ports /\ conns \subseteq Ports
    /\ fw \in [table : BOOLEAN, blocked : SUBSET Ports] /\ (~fw.table => fw.blocked = {})
    /\ {overtaken, missed, flushed} \subseteq BOOLEAN
    /\ faults \in 0 .. MaxFaults

LEMMA TypeParts == /\ TypeOK <=> LocalsOK /\ SharedOK
                   /\ TypeOK' <=> LocalsOK' /\ SharedOK'
  BY DEF TypeOK, LocalsOK, SharedOK, ClientSteps

LEMMA TablesTyped ==
    /\ NoTable \in [table : BOOLEAN, blocked : SUBSET Ports]
    /\ \A ports \in SUBSET Ports : Table(ports) \in [table : BOOLEAN, blocked : SUBSET Ports]
  BY DEF NoTable, Table

LEMMA EndTyped ==
    ASSUME LocalsOK, NEW x \in Processes
    PROVE  /\ RollBack(x) => LocalsOK'
           /\ Return(x) => LocalsOK'
  BY TablesTyped DEF LocalsOK, RollBack, Return, Goto, SyncSteps

LEMMA KillsTyped ==
    ASSUME SharedOK, NEW ports, Kills(ports)
    PROVE  conns' \subseteq Ports /\ missed' \in BOOLEAN /\ faults' \in 0 .. MaxFaults
  <1>1. conns' \subseteq Ports
    BY DEF SharedOK, Kills
  <1>2. missed' \in BOOLEAN
    <2>1. missed \in BOOLEAN
      BY DEF SharedOK
    <2>2. missed' = missed \/ missed' = TRUE
      BY DEF Kills
    <2> QED  BY <2>1, <2>2
  <1>3. faults' \in 0 .. MaxFaults
    BY WppctlConstants DEF SharedOK, Kills, Fault
  <1> QED  BY <1>1, <1>2, <1>3

LEMMA Initially == Init => IInv
  <1> SUFFICES ASSUME Init PROVE IInv
    OBVIOUS
  <1> USE WppctlConstants DEF Init
  <1>1. TypeOK
    <2>1. LocalsOK
      BY TablesTyped DEF LocalsOK
    <2>2. SharedOK
      <3>1. fw \in [table : BOOLEAN, blocked : SUBSET Ports] /\ fw.table
        BY TablesTyped DEF Table
      <3>2. {overtaken, missed, flushed} \subseteq BOOLEAN
        BY Zenon
      <3> QED  BY <3>1, <3>2 DEF SharedOK
    <2> QED  BY <2>1, <2>2, TypeParts
  <1>2. LocksHeld /\ ReadsCurrent /\ TableListed /\ CutsPending
    BY DEF LocksHeld, ReadsCurrent, TableListed, CutsPending, Healthy, ClientSteps, Table, Processes
  <1> QED  BY <1>1, <1>2 DEF IInv

(* The steps that only prepare: nothing is written, killed or committed.   *)
LEMMA PreparingKeepsIInv ==
    ASSUME IInv
    PROVE  /\ \A c \in Clients : Begin(c) \/ List(c) => IInv'
           /\ Maintain => IInv'
           /\ \A x \in Processes : ReadDb(x) \/ ListBefore(x) \/ GiveUp(x) => IInv'
  <1> USE WppctlConstants DEF IInv, history, Processes, Goto
  <1>1. ASSUME NEW c \in Clients, Begin(c) PROVE IInv'
    <2>1. TypeOK'
      BY <1>1 DEF Begin, TypeOK
    <2>2. LocksHeld' /\ ReadsCurrent' /\ TableListed'
      BY <1>1 DEF Begin, TypeOK, LocksHeld, ReadsCurrent, TableListed, ClientSteps
    <2>3. CutsPending'
      BY <1>1 DEF Begin, TypeOK, CutsPending, Healthy, AboutToCut
    <2> QED  BY <2>1, <2>2, <2>3
  <1>2. ASSUME NEW c \in Clients, List(c) PROVE IInv'
    <2>1. TypeOK'
      <3>1. LocalsOK /\ SharedOK
        BY TypeParts
      <3>2. SharedOK'
        BY <1>2, <3>1 DEF List, SharedOK
      <3>3. CASE RollBack(c)
        BY <3>1, <3>2, <3>3, EndTyped, TypeParts
      <3>4. CASE ~RollBack(c)
        <4>1. fw \in [table : BOOLEAN, blocked : SUBSET Ports]
          BY <3>1 DEF SharedOK
        <4>2. LocalsOK'
          BY <1>2, <3>1, <3>4, <4>1 DEF List, LocalsOK, ClientSteps
        <4> QED  BY <3>2, <4>2, TypeParts
      <3> QED  BY <3>3, <3>4
    <2>2. LocksHeld' /\ ReadsCurrent' /\ TableListed'
      BY <1>2 DEF List, RollBack, TypeOK, LocksHeld, ReadsCurrent, TableListed, ClientSteps
    <2>3. CutsPending'
      BY <1>2 DEF List, RollBack, TypeOK, CutsPending, Healthy, AboutToCut
    <2> QED  BY <2>1, <2>2, <2>3
  <1>3. ASSUME Maintain PROVE IInv'
    <2>1. TypeOK'
      BY <1>3 DEF Maintain, StartUnderLock, TypeOK, SyncSteps
    <2>2. LocksHeld' /\ ReadsCurrent' /\ TableListed'
      BY <1>3 DEF Maintain, StartUnderLock, TypeOK, LocksHeld, ReadsCurrent, TableListed, ClientSteps
    <2>3. CutsPending'
      BY <1>3 DEF Maintain, StartUnderLock, TypeOK, CutsPending, Healthy, AboutToCut
    <2> QED  BY <2>1, <2>2, <2>3
  <1>4. ASSUME NEW x \in Processes, ReadDb(x) PROVE IInv'
    <2>1. TypeOK'
      BY <1>4 DEF ReadDb, TypeOK, SyncSteps
    <2>2. LocksHeld' /\ ReadsCurrent' /\ TableListed'
      BY <1>4 DEF ReadDb, TypeOK, LocksHeld, ReadsCurrent, TableListed, ClientSteps
    <2>3. CutsPending'
      BY <1>4 DEF ReadDb, TypeOK, CutsPending, Healthy, AboutToCut
    <2> QED  BY <2>1, <2>2, <2>3
  <1>5. ASSUME NEW x \in Processes, ListBefore(x) PROVE IInv'
    <2>1. TypeOK'
      BY <1>5 DEF ListBefore, TypeOK, SyncSteps
    <2>2. LocksHeld' /\ ReadsCurrent' /\ TableListed'
      BY <1>5 DEF ListBefore, TypeOK, LocksHeld, ReadsCurrent, TableListed, ClientSteps
    <2>3. CutsPending'
      BY <1>5 DEF ListBefore, TypeOK, CutsPending, Healthy, AboutToCut
    <2> QED  BY <2>1, <2>2, <2>3
  <1>6. ASSUME NEW x \in Processes, GiveUp(x) PROVE IInv'
    <2>1. TypeOK'
      BY <1>6 DEF GiveUp, Return, Fault, TypeOK, NoTable
    <2>2. LocksHeld' /\ ReadsCurrent' /\ TableListed'
      BY <1>6 DEF GiveUp, Return, TypeOK, LocksHeld, ReadsCurrent, TableListed, ClientSteps
    <2>3. CutsPending'
      BY <1>6 DEF GiveUp, Return, TypeOK, CutsPending, Healthy, AboutToCut
    <2> QED  BY <2>1, <2>2, <2>3
  <1> QED  BY <1>1, <1>2, <1>3, <1>4, <1>5, <1>6

(* The commands of block and unblock.                                      *)
LEMMA CallsKeepIInv ==
    ASSUME IInv, NEW c \in Clients
    PROVE  /\ Add(c) => IInv'
           /\ Kill(c) => IInv'
           /\ Delete(c) => IInv'
  <1> USE WppctlConstants DEF IInv, history, Processes, Goto, Proceed
  <1>1. ASSUME Add(c) PROVE IInv'
    <2>0. port[c] \in allowed /\ port[c] \in Ports
      BY <1>1 DEF Add, LocksHeld, ReadsCurrent, ClientSteps
    <2>1. TypeOK'
      <3>1. LocalsOK /\ SharedOK
        BY TypeParts
      <3>2. SharedOK'
        BY <1>1, <2>0, <3>1 DEF Add, SharedOK, Fault
      <3>3. CASE RollBack(c)
        BY <3>1, <3>2, <3>3, EndTyped, TypeParts
      <3>4. CASE ~RollBack(c)
        <4>1. LocalsOK'
          BY <1>1, <3>1, <3>4 DEF Add, LocalsOK, ClientSteps
        <4> QED  BY <3>2, <4>1, TypeParts
      <3> QED  BY <3>3, <3>4
    <2>2. LocksHeld' /\ ReadsCurrent' /\ TableListed'
      BY <1>1 DEF Add, RollBack, TypeOK, LocksHeld, ReadsCurrent, TableListed, ClientSteps
    <2>3. CutsPending'
      BY <1>1, <2>0 DEF Add, RollBack, TypeOK, LocksHeld, ClientSteps, CutsPending, Healthy, AboutToCut
    <2> QED  BY <2>1, <2>2, <2>3
  <1>2. ASSUME Kill(c) PROVE IInv'
    <2>1. TypeOK'
      <3>1. LocalsOK /\ SharedOK
        BY TypeParts
      <3>2. SharedOK'
        <4>1. CASE Kills({port[c]})
          BY <1>2, <3>1, <4>1, KillsTyped DEF Kill, SharedOK
        <4>2. CASE conns' \in {conns, conns \ {port[c]}} /\ Fault /\ UNCHANGED missed
          BY <1>2, <3>1, <4>2 DEF Kill, SharedOK, Fault
        <4> QED  BY <1>2, <4>1, <4>2 DEF Kill
      <3>3. CASE RollBack(c)
        BY <3>1, <3>2, <3>3, EndTyped, TypeParts
      <3>4. CASE ~RollBack(c)
        <4>1. LocalsOK'
          BY <1>2, <3>1, <3>4 DEF Kill, LocalsOK, ClientSteps
        <4> QED  BY <3>2, <4>1, TypeParts
      <3> QED  BY <3>3, <3>4
    <2>2. LocksHeld' /\ ReadsCurrent' /\ TableListed'
      BY <1>2 DEF Kill, Kills, RollBack, TypeOK, LocksHeld, ReadsCurrent, TableListed, ClientSteps
    <2>3. CutsPending'
      <3>1. /\ pc[c] = "kill" /\ conns' \subseteq conns /\ UNCHANGED <<fw, allowed>>
            /\ Healthy' => Healthy
        BY <1>2 DEF Kill, Kills, Healthy
      <3>2. \A x \in Processes \ {c} :
              pc'[x] = pc[x] /\ want'[x] = want[x] /\ before'[x] = before[x] /\ port'[x] = port[x]
        BY <1>2 DEF Kill, RollBack, TypeOK
      <3>3. Healthy' /\ pc'[c] = "commit" => port'[c] = port[c] /\ port[c] \notin conns'
        BY <1>2 DEF Kill, Kills, RollBack, TypeOK, Healthy
      <3> QED  BY <3>1, <3>2, <3>3 DEF CutsPending, AboutToCut
    <2> QED  BY <2>1, <2>2, <2>3
  <1>3. ASSUME Delete(c) PROVE IInv'
    <2>0. fw' = fw \/ \E R \in SUBSET Ports : fw' = [fw EXCEPT !.blocked = @ \ R]
      BY <1>3 DEF Delete, TypeOK
    <2>1. TypeOK'
      <3>1. LocalsOK /\ SharedOK
        BY TypeParts
      <3>2. SharedOK'
        BY <1>3, <2>0, <3>1 DEF Delete, SharedOK, Fault
      <3>3. CASE RollBack(c)
        BY <3>1, <3>2, <3>3, EndTyped, TypeParts
      <3>4. CASE ~RollBack(c)
        <4>1. LocalsOK'
          BY <1>3, <3>1, <3>4, TablesTyped DEF Delete, LocalsOK, ClientSteps
        <4> QED  BY <3>2, <4>1, TypeParts
      <3> QED  BY <3>3, <3>4
    <2>2. LocksHeld' /\ ReadsCurrent' /\ TableListed'
      BY <1>3 DEF Delete, RollBack, TypeOK, LocksHeld, ReadsCurrent, TableListed, ClientSteps
    <2>3. CutsPending'
      <3>1. fw'.blocked \subseteq fw.blocked
        BY <2>0 DEF TypeOK
      <3>2. \A x \in Processes \ {c} :
              pc'[x] = pc[x] /\ want'[x] = want[x] /\ before'[x] = before[x] /\ port'[x] = port[x]
        BY <1>3 DEF Delete, RollBack, TypeOK
      <3>3. UNCHANGED <<conns, allowed, missed, flushed, overtaken>>
        BY <1>3 DEF Delete
      <3>4. pc[c] = "delete" /\ port[c] \notin allowed
        BY <1>3 DEF Delete, ReadsCurrent
      <3>5. pc'[c] = "commit" => port'[c] = port[c]
        BY <1>3 DEF Delete, RollBack, TypeOK
      <3> QED  BY <3>1, <3>2, <3>3, <3>4, <3>5 DEF CutsPending, Healthy, AboutToCut
    <2> QED  BY <2>1, <2>2, <2>3
  <1> QED  BY <1>1, <1>2, <1>3

(* A commit takes away access only after the connection has been killed.   *)
LEMMA CommitKeepsIInv ==
    ASSUME IInv, NEW c \in Clients, Commit(c)
    PROVE  IInv'
  <1> USE WppctlConstants DEF IInv, history, Processes, Goto
  <1>0. lock = c /\ port[c] \in Ports /\ pc[c] = "commit" /\ pc[Maintainer] = "idle"
    BY DEF Commit, LocksHeld, ClientSteps
  <1>1. \A d \in Clients \ {c} : pc[d] \notin ClientSteps
    BY <1>0 DEF LocksHeld
  <1>2. TypeOK'
    <2>1. LocalsOK /\ SharedOK
      BY TypeParts
    <2>2. SharedOK'
      BY <1>0, <2>1 DEF Commit, SharedOK, Fault
    <2>3. LocalsOK'
      BY <2>1, EndTyped DEF Commit
    <2> QED  BY <2>2, <2>3, TypeParts
  <1>3. LocksHeld' /\ ReadsCurrent' /\ TableListed'
    BY <1>0, <1>1 DEF Commit, Return, RollBack, TypeOK, LocksHeld, ReadsCurrent, TableListed, ClientSteps
  <1>4. CutsPending'
    BY <1>0, <1>1 DEF Commit, Return, RollBack, TypeOK, CutsPending, Healthy, AboutToCut, ClientSteps
  <1> QED  BY <1>2, <1>3, <1>4

(* A rebuild that nothing has overtaken closes the ports of nobody who has *)
(* access, and those it closes for the others are either on its list, or   *)
(* were closed before and somebody else's to cut.                          *)
LEMMA LoadKeepsIInv ==
    ASSUME IInv, NEW x \in Processes, Load(x)
    PROVE  IInv'
  <1> USE WppctlConstants DEF IInv, history, Processes, Goto
  <1>1. TypeOK'
    <2>1. LocalsOK /\ SharedOK
      BY TypeParts
    <2>2. SharedOK'
      BY <2>1 DEF Load, SharedOK, LocalsOK, Table, Overtaken
    <2>3. LocalsOK'
      BY <2>1 DEF Load, LocalsOK, SyncSteps
    <2> QED  BY <2>2, <2>3, TypeParts
  <1>2. LocksHeld' /\ ReadsCurrent' /\ TableListed'
    BY DEF Load, TypeOK, LocksHeld, ReadsCurrent, TableListed, ClientSteps, Table
  <1>3. ASSUME Healthy' PROVE CutsPending'
    <2>1. Healthy /\ want[x] = Ports \ allowed /\ before[x].blocked \cap want[x] \subseteq fw.blocked
      BY <1>3 DEF Load, Healthy, Overtaken
    <2>2. pc' = [pc EXCEPT ![x] = "cut"] /\ fw'.blocked = want[x] /\ pc[x] = "load"
          /\ UNCHANGED <<conns, allowed, port, want, before>>
      BY DEF Load, Table
    <2>3. ASSUME NEW p \in (conns \cap fw'.blocked) \ allowed
          PROVE  \E y \in Processes : AboutToCut(y, p)'
      <3>1. CASE p \notin before[x].blocked
        BY <2>2, <2>3, <3>1 DEF AboutToCut, TypeOK
      <3>2. CASE p \in before[x].blocked
        <4>1. p \in fw.blocked
          BY <2>1, <2>2, <2>3, <3>2
        <4>2. PICK y \in Processes : AboutToCut(y, p)
          BY <2>1, <2>3, <4>1 DEF CutsPending
        <4>3. y # x
          BY <2>2, <4>2 DEF AboutToCut
        <4> QED  BY <2>2, <4>2, <4>3 DEF AboutToCut, TypeOK
      <3> QED  BY <3>1, <3>2
    <2>4. ASSUME NEW c \in Clients, pc'[c] = "commit", port'[c] \in allowed'
          PROVE  port'[c] \notin conns' \cap fw'.blocked
      BY <2>1, <2>2, <2>4
    <2> QED  BY <2>2, <2>3, <2>4 DEF CutsPending
  <1>4. ASSUME ~Healthy' PROVE CutsPending'
    BY <1>4 DEF CutsPending
  <1> QED  BY <1>1, <1>2, <1>3, <1>4

LEMMA CutKeepsIInv ==
    ASSUME IInv, NEW x \in Processes, Cut(x)
    PROVE  IInv'
  <1> USE WppctlConstants DEF IInv, history, Processes, Goto
  <1>1. TypeOK'
    <2>1. LocalsOK /\ SharedOK
      BY TypeParts
    <2>2. SharedOK'
      BY <2>1, KillsTyped DEF Cut, SharedOK
    <2>3. LocalsOK'
      BY <2>1, EndTyped DEF Cut
    <2> QED  BY <2>2, <2>3, TypeParts
  <1>2. LocksHeld' /\ ReadsCurrent' /\ TableListed'
    BY DEF Cut, Return, TypeOK, LocksHeld, ReadsCurrent, TableListed, ClientSteps
  <1>3. ASSUME Healthy' PROVE CutsPending'
    <2>1. Healthy /\ before[x].table
      BY <1>3 DEF Cut, Kills, Healthy, TableListed, TypeOK
    <2>2. conns' = conns \ (want[x] \ before[x].blocked)
      BY <1>3, <2>1 DEF Cut, Kills, Healthy
    <2>3. \A y \in Processes \ {x} : pc'[y] = pc[y] /\ want'[y] = want[y] /\ before'[y] = before[y]
                                     /\ port'[y] = port[y]
      BY DEF Cut, Return, TypeOK
    <2>4. pc'[x] = "idle" /\ UNCHANGED <<allowed, fw>>
      BY DEF Cut, Return, TypeOK
    <2>5. ASSUME NEW p \in (conns' \cap fw'.blocked) \ allowed'
          PROVE  \E y \in Processes : AboutToCut(y, p)'
      <3>1. PICK y \in Processes : AboutToCut(y, p)
        BY <2>1, <2>2, <2>4, <2>5 DEF CutsPending
      <3>2. y # x
        BY <2>2, <2>5, <3>1 DEF AboutToCut
      <3> QED  BY <2>3, <3>1, <3>2 DEF AboutToCut
    <2> QED  BY <2>1, <2>2, <2>3, <2>4, <2>5 DEF CutsPending
  <1>4. ASSUME ~Healthy' PROVE CutsPending'
    BY <1>4 DEF CutsPending
  <1> QED  BY <1>1, <1>2, <1>3, <1>4

(* A restart of nftables, and the clients of the relay.                    *)
LEMMA EnvironmentKeepsIInv ==
    ASSUME IInv
    PROVE  /\ Flush => IInv'
           /\ \A p \in Ports : Connect(p) \/ Disconnect(p) => IInv'
  <1> USE WppctlConstants DEF IInv, history, Processes, Goto
  <1>1. ASSUME Flush PROVE IInv'
    <2>1. TypeOK'
      <3>1. LocalsOK /\ SharedOK
        BY TypeParts
      <3>2. SharedOK'
        BY <1>1, <3>1 DEF Flush, SharedOK, Fault, NoTable
      <3>3. LocalsOK'
        BY <1>1, <3>1 DEF Flush, LocalsOK, SyncSteps
      <3> QED  BY <3>2, <3>3, TypeParts
    <2>2. LocksHeld' /\ ReadsCurrent' /\ TableListed' /\ CutsPending'
      BY <1>1 DEF Flush, TypeOK, LocksHeld, ReadsCurrent, TableListed, ClientSteps, CutsPending, Healthy
    <2> QED  BY <2>1, <2>2
  <1>2. ASSUME NEW p \in Ports, Connect(p) \/ Disconnect(p) PROVE IInv'
    <2>1. TypeOK'
      BY <1>2 DEF Connect, Disconnect, TypeOK
    <2>2. LocksHeld' /\ ReadsCurrent' /\ TableListed'
      BY <1>2 DEF Connect, Disconnect, LocksHeld, ReadsCurrent, TableListed
    <2>3. CutsPending'
      BY <1>2 DEF Connect, Disconnect, Open, TypeOK, CutsPending, Healthy, AboutToCut
    <2> QED  BY <2>1, <2>2, <2>3
  <1> QED  BY <1>1, <1>2

LEMMA StepKeepsIInv == IInv /\ [Next]_vars => IInv'
  <1> SUFFICES ASSUME IInv, [Next]_vars PROVE IInv'
    OBVIOUS
  <1>1. CASE \E c \in Clients : Begin(c) \/ Add(c) \/ Kill(c) \/ List(c) \/ Delete(c) \/ Commit(c)
    BY <1>1, PreparingKeepsIInv, CallsKeepIInv, CommitKeepsIInv
  <1>2. CASE Maintain \/ Flush
    BY <1>2, PreparingKeepsIInv, EnvironmentKeepsIInv
  <1>3. CASE \E x \in Processes : ReadDb(x) \/ ListBefore(x) \/ Load(x) \/ GiveUp(x) \/ Cut(x)
    BY <1>3, PreparingKeepsIInv, LoadKeepsIInv, CutKeepsIInv
  <1>4. CASE \E p \in Ports : Connect(p) \/ Disconnect(p)
    BY <1>4, EnvironmentKeepsIInv
  <1>5. CASE UNCHANGED vars
    BY <1>5 DEF vars, history, IInv, TypeOK, LocksHeld, ReadsCurrent, TableListed, CutsPending,
       Healthy, AboutToCut
  <1> QED  BY <1>1, <1>2, <1>3, <1>4, <1>5 DEF Next

LEMMA InvariantHolds == Spec => []IInv
  BY Initially, StepKeepsIInv, PTL DEF Spec

-----------------------------------------------------------------------------

(* Types, and that a missing table blocks nothing.                         *)
THEOREM WppctlTypeCorrect == Spec => []TypeOK
  BY InvariantHolds, PTL DEF IInv

(* Nobody without access keeps a connection behind a closed port.          *)
THEOREM NoConnectionEverSurvives == Spec => []NoConnectionSurvives
  <1>1. IInv => NoConnectionSurvives
    BY DEF IInv, CutsPending, Healthy, AboutToCut, NoConnectionSurvives, Quiet
  <1> QED  BY <1>1, InvariantHolds, PTL

(* The maintainer's rebuild, under the write lock, cuts off nobody who has *)
(* access: what it has read is committed until it ends.                    *)
THEOREM MaintainerAlwaysSparesUsers == Spec => MaintainerSparesUsers
  <1> DEFINE Spares == pc[Maintainer] = "cut" /\ pc'[Maintainer] = "idle"
                         => conns \cap allowed \subseteq conns'
  <1>1. IInv /\ [Next]_vars => [Spares]_vars
    <2> SUFFICES ASSUME IInv, Next, pc[Maintainer] = "cut", pc'[Maintainer] = "idle"
                 PROVE  conns \cap allowed \subseteq conns'
      BY DEF vars
    <2> USE WppctlConstants DEF IInv, Processes
    <2>1. want[Maintainer] = Ports \ allowed
      BY DEF ReadsCurrent
    <2>2. ASSUME Cut(Maintainer) PROVE conns \cap allowed \subseteq conns'
      BY <2>1, <2>2 DEF Cut, Kills
    <2>3. ASSUME NEW x \in Processes \ {Maintainer}, Cut(x) PROVE FALSE
      BY <2>3 DEF Cut, Return, Goto, TypeOK
    <2>4. \/ Cut(Maintainer) \/ (\E x \in Processes \ {Maintainer} : Cut(x)) \/ UNCHANGED conns
          \/ \E c \in Clients : Kill(c)
          \/ \E p \in Ports : Connect(p) \/ Disconnect(p)
      BY DEF Next, Begin, Add, List, Delete, Commit, Maintain, Flush, ReadDb, ListBefore, Load, GiveUp
    <2>5. ASSUME NEW c \in Clients, Kill(c) PROVE FALSE
      BY <2>5 DEF Kill, Proceed, RollBack, Goto, TypeOK
    <2>6. ASSUME NEW p \in Ports, Connect(p) \/ Disconnect(p) PROVE FALSE
      BY <2>6 DEF Connect, Disconnect
    <2> QED  BY <2>2, <2>3, <2>4, <2>5, <2>6
  <1>2. Spec => [][Spares]_vars
    BY <1>1, InvariantHolds, PTL DEF Spec
  <1> QED  BY <1>2 DEF MaintainerSparesUsers
-----------------------------------------------------------------------------
(* The refinement of FirewallCalls.                                        *)

(* A client that rebuilds the table has let go of the lock.                *)
ClientsLetGo == \A c \in Clients : lock = c => pc[c] \in ClientSteps

LEMMA LetGoInitially == Init => ClientsLetGo
  BY WppctlConstants DEF Init, ClientsLetGo, Processes

LEMMA LetGoStep == IInv /\ ClientsLetGo /\ [Next]_vars => ClientsLetGo'
  <1> SUFFICES ASSUME IInv, ClientsLetGo, [Next]_vars, NEW c \in Clients, lock' = c
               PROVE  pc'[c] \in ClientSteps
    BY DEF ClientsLetGo
  <1> USE WppctlConstants DEF IInv, TypeOK, LocksHeld, ClientsLetGo, ClientSteps, Processes, Goto
  <1>1. ASSUME NEW d \in Clients,
               Begin(d) \/ Add(d) \/ Kill(d) \/ List(d) \/ Delete(d) \/ Commit(d)
        PROVE  pc'[c] \in ClientSteps
    <2>1. lock = NoOne \/ lock = d
      BY <1>1 DEF Begin, Add, Kill, List, Delete, Commit
    <2>2. lock' = lock \/ lock' = d \/ lock' = NoOne
      BY <1>1 DEF Begin, Add, Kill, List, Delete, Commit, Proceed, RollBack, Return
    <2>3. c = d
      BY <2>1, <2>2
    <2> QED
      BY <1>1, <2>3 DEF Begin, Add, Kill, List, Delete, Commit, Proceed, RollBack, Return
  <1>2. CASE Maintain \/ Flush
    BY <1>2 DEF Maintain, StartUnderLock, Flush
  <1>3. ASSUME NEW x \in Processes, ReadDb(x) \/ ListBefore(x) \/ Load(x) \/ GiveUp(x) \/ Cut(x)
        PROVE  pc'[c] \in ClientSteps
    BY <1>3 DEF ReadDb, ListBefore, Load, GiveUp, Cut, Return, SyncSteps
  <1>4. CASE (\E p \in Ports : Connect(p) \/ Disconnect(p)) \/ UNCHANGED vars
    BY <1>4 DEF Connect, Disconnect, vars
  <1> QED  BY <1>1, <1>2, <1>3, <1>4 DEF Next

(* What is seen of a process, by its next command.                         *)
StageTable ==
    \A x \in Processes :
        /\ pc[x] \in {"idle", "cut"} => StageOf(x) = Atomic!Idle
        /\ pc[x] \in {"add", "list"} => StageOf(x) = Atomic!Step("calls", port[x], {})
        /\ pc[x] = "delete" =>
             StageOf(x) = Atomic!Step(IF port[x] \in before[x].blocked THEN "calls" ELSE "called",
                                      port[x], {})
        /\ pc[x] \in {"kill", "commit"} => StageOf(x) = Atomic!Step("called", port[x], {})
        /\ pc[x] = "resync" => StageOf(x) = Atomic!Resync
        /\ pc[x] \in {"before", "load"} => StageOf(x) = Atomic!Step("load", Null, want[x])

LEMMA StagesAre == StageTable /\ StageTable'
  <1>1. StageTable
    <2> SUFFICES ASSUME NEW x \in Processes
                 PROVE  /\ pc[x] \in {"idle", "cut"} => StageOf(x) = Stage("idle", Null, {})
                        /\ pc[x] \in {"add", "list"} => StageOf(x) = Stage("calls", port[x], {})
                        /\ pc[x] = "delete" =>
                             StageOf(x) = Stage(IF StillOpen(x) THEN "called" ELSE "calls",
                                                port[x], {})
                        /\ pc[x] \in {"kill", "commit"} =>
                             StageOf(x) = Stage("called", port[x], {})
                        /\ pc[x] = "resync" => StageOf(x) = Stage("resync", Null, {})
                        /\ pc[x] \in {"before", "load"} =>
                             StageOf(x) = Stage("load", Null, want[x])
      BY DEF StageTable, StillOpen, Stage, Atomic!Step, Atomic!Idle, Atomic!Resync
    <2> QED  BY DEF StageOf
  <1> QED  BY <1>1, PTL

(* A step of one process is seen as a step of this process at most.        *)
LEMMA OneMoves ==
    ASSUME NEW x \in Processes,
           \A y \in Processes \ {x} : /\ pc'[y] = pc[y] /\ port'[y] = port[y]
                                      /\ want'[y] = want[y] /\ before'[y] = before[y]
    PROVE  Seen' = [Seen EXCEPT ![x] = StageOf(x)'] /\ Seen[x] = StageOf(x)
  <1>1. \A y \in Processes \ {x} : StageOf(y)' = StageOf(y)
    BY DEF StageOf, StillOpen
  <1> QED  BY <1>1 DEF Seen
(* What is seen of a step: one of FirewallCalls, or nothing.               *)
Unseen == UNCHANGED <<allowed, fw, LockSeen, Seen>>
SeenStep == Atomic!Next \/ Unseen

(* Of the lock nothing is hidden but the end of the maintainer's rebuild.  *)
LEMMA LockSeenIs ==
    /\ lock # Maintainer \/ pc[Maintainer] # "cut" => LockSeen = lock
    /\ lock' # Maintainer \/ pc'[Maintainer] # "cut" => LockSeen' = lock'
  BY DEF LockSeen

LEMMA CalledIs ==
    \A p : Atomic!Step("called", p, {}).step = "called" /\ Atomic!Step("called", p, {}).port = p
  BY DEF Atomic!Step

LEMMA CallSeen ==
    ASSUME NEW c, NEW blocked,
           Seen[c] = Atomic!Step("calls", port[c], {}),
           Seen' = [Seen EXCEPT ![c] = Atomic!Step("called", port[c], {})],
           fw.table, fw' = Atomic!Table(TRUE, blocked),
           blocked = IF port[c] \in allowed THEN fw.blocked \cup {port[c]}
                     ELSE fw.blocked \ {port[c]},
           UNCHANGED <<allowed, LockSeen>>
    PROVE  Atomic!Call(c)
  <1>1. Seen[c].step = "calls" /\ Seen[c].port = port[c]
    BY DEF Atomic!Step
  <1> QED  BY <1>1 DEF Atomic!Call, Atomic!Goto

(* A process that is seen where it was before has not moved.               *)
LEMMA NotSeen ==
    ASSUME NEW x \in Processes, Seen' = [Seen EXCEPT ![x] = Seen[x]],
           UNCHANGED <<allowed, fw, LockSeen>>
    PROVE  Unseen
  BY DEF Unseen, Seen

LEMMA RollBackSeen ==
    ASSUME IInv, NEW c \in Clients, pc[c] \in ClientSteps, RollBack(c),
           UNCHANGED <<allowed, fw>>
    PROVE  Atomic!Fail(c)
  <1> USE WppctlConstants DEF IInv, TypeOK, Processes
  <1>1. StageOf(c).step \in {"calls", "called"}
    BY StagesAre DEF StageTable, ClientSteps, Atomic!Step
  <1>2. pc'[c] = "resync" /\ lock' = NoOne
    BY DEF RollBack, Goto
  <1>3. StageOf(c)' = Atomic!Resync
    BY <1>2, StagesAre DEF StageTable
  <1>4. Seen' = [Seen EXCEPT ![c] = Atomic!Resync] /\ Seen[c] = StageOf(c)
    BY <1>3, OneMoves DEF RollBack, Goto
  <1>5. LockSeen' = NoOne
    BY <1>2, LockSeenIs
  <1> QED  BY <1>1, <1>4, <1>5 DEF Atomic!Fail, Atomic!Goto

LEMMA ClientSeen ==
    ASSUME IInv, NEW c \in Clients
    PROVE  /\ Begin(c) => Atomic!Begin(c)
           /\ Add(c) => Atomic!Call(c) \/ Atomic!Fail(c)
           /\ Kill(c) => Atomic!Fail(c) \/ Unseen
           /\ List(c) => Atomic!Call(c) \/ Atomic!Fail(c) \/ Unseen
           /\ Delete(c) => Atomic!Call(c) \/ Atomic!Fail(c) \/ Unseen
           /\ Commit(c) => Atomic!Commit(c) \/ Atomic!Fail(c)
  <1> USE WppctlConstants DEF IInv, TypeOK, Processes
  <1>0. c # Maintainer /\ c # NoOne /\ NoOne # Maintainer
    OBVIOUS
  <1>1. ASSUME Begin(c) PROVE Atomic!Begin(c)
    <2>1. PICK p \in Ports : /\ port' = [port EXCEPT ![c] = p]
                             /\ Goto(c, IF p \in allowed THEN "add" ELSE "list")
      BY <1>1 DEF Begin
    <2>2. pc[c] = "idle" /\ pc'[c] \in {"add", "list"} /\ port'[c] = p
      BY <1>1, <2>1 DEF Begin, Goto
    <2>3. StageOf(c) = Atomic!Idle /\ StageOf(c)' = Atomic!Step("calls", p, {})
      BY <2>2, StagesAre DEF StageTable
    <2>4. Seen' = [Seen EXCEPT ![c] = Atomic!Step("calls", p, {})] /\ Seen[c] = Atomic!Idle
      BY <1>1, <2>1, <2>3, OneMoves DEF Begin, Goto
    <2>5. LockSeen = NoOne /\ LockSeen' = c
      BY <1>0, <1>1, LockSeenIs DEF Begin
    <2> QED  BY <1>1, <2>4, <2>5 DEF Begin, Atomic!Begin, Atomic!Goto
  <1>2. ASSUME pc[c] \in ClientSteps
        PROVE  lock = c /\ LockSeen = c /\ port[c] \in Ports
    BY <1>0, <1>2, LockSeenIs DEF LocksHeld
  <1>3. ASSUME NEW step, pc[c] \in ClientSteps, Proceed(c, step),
               step \in {"kill", "commit"}
        PROVE  /\ Seen' = [Seen EXCEPT ![c] = Atomic!Step("called", port[c], {})]
               /\ Seen[c] = StageOf(c) /\ LockSeen' = LockSeen
    <2>1. pc'[c] = step /\ port'[c] = port[c] /\ lock' = lock
      BY <1>3 DEF Proceed, Goto
    <2>2. StageOf(c)' = Atomic!Step("called", port[c], {})
      BY <1>3, <2>1, StagesAre DEF StageTable
    <2>3. LockSeen' = LockSeen
      BY <1>0, <1>2, <1>3, <2>1, LockSeenIs
    <2> QED  BY <1>3, <2>2, <2>3, OneMoves DEF Proceed, Goto
  <1>4. ASSUME Add(c) PROVE Atomic!Call(c) \/ Atomic!Fail(c)
    <2>1. pc[c] = "add" /\ port[c] \in allowed /\ allowed' = allowed
      BY <1>4 DEF Add, ReadsCurrent
    <2>2. CASE fw' = fw /\ RollBack(c)
      BY <2>1, <2>2, RollBackSeen DEF ClientSteps
    <2>3. CASE /\ fw.table /\ fw' = [fw EXCEPT !.blocked = @ \cup {port[c]}]
               /\ Proceed(c, "kill")
      <3>1. StageOf(c) = Atomic!Step("calls", port[c], {})
        BY <2>1, StagesAre DEF StageTable
      <3>2. /\ Seen' = [Seen EXCEPT ![c] = Atomic!Step("called", port[c], {})]
            /\ Seen[c] = Atomic!Step("calls", port[c], {}) /\ LockSeen' = LockSeen
        BY <1>3, <2>1, <2>3, <3>1 DEF ClientSteps
      <3>3. fw' = Atomic!Table(TRUE, fw.blocked \cup {port[c]})
        BY <2>3 DEF Atomic!Table
      <3> QED  BY <2>1, <2>3, <3>2, <3>3, CallSeen
    <2> QED  BY <1>4, <2>2, <2>3 DEF Add
  <1>5. ASSUME Kill(c) PROVE Atomic!Fail(c) \/ Unseen
    <2>1. pc[c] = "kill" /\ UNCHANGED <<allowed, fw>>
      BY <1>5 DEF Kill
    <2>2. CASE RollBack(c)
      BY <2>1, <2>2, RollBackSeen DEF ClientSteps
    <2>3. CASE Proceed(c, "commit")
      <3>1. StageOf(c) = Atomic!Step("called", port[c], {})
        BY <2>1, StagesAre DEF StageTable
      <3>2. /\ Seen' = [Seen EXCEPT ![c] = Seen[c]] /\ LockSeen' = LockSeen
        BY <1>3, <2>1, <2>3, <3>1 DEF ClientSteps
      <3> QED  BY <2>1, <3>2, NotSeen
    <2> QED  BY <1>5, <2>2, <2>3 DEF Kill
  <1>6. ASSUME List(c) PROVE Atomic!Call(c) \/ Atomic!Fail(c) \/ Unseen
    <2>1. pc[c] = "list" /\ port[c] \notin allowed /\ UNCHANGED <<allowed, fw>>
      BY <1>6 DEF List, ReadsCurrent
    <2>2. CASE RollBack(c)
      BY <2>1, <2>2, RollBackSeen DEF ClientSteps
    <2>3. CASE /\ fw.table /\ Goto(c, "delete") /\ before' = [before EXCEPT ![c] = fw]
               /\ UNCHANGED <<lock, port, want>>
      <3>1. pc'[c] = "delete" /\ before'[c] = fw /\ port'[c] = port[c] /\ lock' = lock
        BY <2>3 DEF Goto
      <3>2. StageOf(c) = Atomic!Step("calls", port[c], {})
        BY <2>1, StagesAre DEF StageTable
      <3>3. StageOf(c)' = Atomic!Step(IF port[c] \in fw.blocked THEN "calls" ELSE "called",
                                      port[c], {})
        BY <3>1, StagesAre DEF StageTable
      <3>4. Seen' = [Seen EXCEPT ![c] = StageOf(c)'] /\ Seen[c] = StageOf(c)
        BY <2>3, OneMoves DEF Goto
      <3>5. LockSeen' = LockSeen
        BY <1>0, <1>2, <2>1, <3>1, LockSeenIs DEF ClientSteps
      <3>6. CASE port[c] \in fw.blocked
        <4>1. StageOf(c)' = Seen[c]
          BY <3>2, <3>3, <3>4, <3>6
        <4> QED  BY <2>1, <3>4, <3>5, <4>1, NotSeen
      <3>7. CASE port[c] \notin fw.blocked
        <4>1. fw' = Atomic!Table(TRUE, fw.blocked \ {port[c]})
          <5>1. fw.blocked \ {port[c]} = fw.blocked
            BY <3>7
          <5> QED  BY <2>1, <2>3, <5>1 DEF Atomic!Table
        <4>2. Seen[c] = Atomic!Step("calls", port[c], {})
              /\ Seen' = [Seen EXCEPT ![c] = Atomic!Step("called", port[c], {})]
          BY <3>2, <3>3, <3>4, <3>7
        <4> QED  BY <2>1, <2>3, <3>5, <4>1, <4>2, CallSeen
      <3> QED  BY <3>6, <3>7
    <2> QED  BY <1>6, <2>2, <2>3 DEF List
  <1>7. ASSUME Delete(c) PROVE Atomic!Call(c) \/ Atomic!Fail(c) \/ Unseen
    <2> DEFINE remove == {port[c]} \cap before[c].blocked
    <2>1. pc[c] = "delete" /\ port[c] \notin allowed /\ allowed' = allowed
      BY <1>7 DEF Delete, ReadsCurrent
    <2>2. CASE fw' = fw /\ RollBack(c)
      BY <2>1, <2>2, RollBackSeen DEF ClientSteps
    <2>3. CASE /\ remove = {} \/ fw.table
               /\ fw' = [fw EXCEPT !.blocked = @ \ remove]
               /\ Goto(c, "commit") /\ before' = [before EXCEPT ![c] = NoTable]
               /\ UNCHANGED <<lock, port, want>>
      <3>1. pc'[c] = "commit" /\ port'[c] = port[c] /\ lock' = lock
        BY <2>3 DEF Goto
      <3>2. StageOf(c) = Atomic!Step(IF port[c] \in before[c].blocked THEN "calls" ELSE "called",
                                     port[c], {})
        BY <2>1, StagesAre DEF StageTable
      <3>3. StageOf(c)' = Atomic!Step("called", port[c], {})
        BY <3>1, StagesAre DEF StageTable
      <3>4. Seen' = [Seen EXCEPT ![c] = StageOf(c)'] /\ Seen[c] = StageOf(c)
        BY <2>3, OneMoves DEF Goto
      <3>5. LockSeen' = LockSeen
        BY <1>0, <1>2, <2>1, <3>1, LockSeenIs DEF ClientSteps
      <3>6. CASE port[c] \in before[c].blocked
        <4>1. remove = {port[c]}
          BY <3>6
        <4>2. fw' = Atomic!Table(TRUE, fw.blocked \ {port[c]}) /\ fw.table
          BY <2>3, <4>1 DEF Atomic!Table
        <4>3. Seen[c] = Atomic!Step("calls", port[c], {})
              /\ Seen' = [Seen EXCEPT ![c] = Atomic!Step("called", port[c], {})]
          BY <3>2, <3>3, <3>4, <3>6
        <4> QED  BY <2>1, <3>5, <4>2, <4>3, CallSeen
      <3>7. CASE port[c] \notin before[c].blocked
        <4>1. remove = {} /\ fw.blocked \ {} = fw.blocked
          BY <3>7
        <4>2. fw' = fw
          BY <2>3, <4>1
        <4>3. StageOf(c)' = Seen[c]
          BY <3>2, <3>3, <3>4, <3>7
        <4> QED  BY <2>1, <3>4, <3>5, <4>2, <4>3, NotSeen
      <3> QED  BY <3>6, <3>7
    <2> QED  BY <1>7, <2>2, <2>3 DEF Delete
  <1>8. ASSUME Commit(c) PROVE Atomic!Commit(c) \/ Atomic!Fail(c)
    <2>1. pc[c] = "commit" /\ fw' = fw
      BY <1>8 DEF Commit
    <2>2. CASE allowed' = allowed /\ RollBack(c)
      BY <2>1, <2>2, RollBackSeen DEF ClientSteps
    <2>3. CASE /\ allowed' = IF port[c] \in allowed THEN allowed \ {port[c]}
                             ELSE allowed \cup {port[c]}
               /\ Return(c)
      <3>1. pc'[c] = "idle" /\ lock' = NoOne
        BY <1>2, <2>1, <2>3 DEF Return, Goto, ClientSteps
      <3>2. StageOf(c) = Atomic!Step("called", port[c], {}) /\ StageOf(c)' = Atomic!Idle
        BY <2>1, <3>1, StagesAre DEF StageTable
      <3>3. Seen' = [Seen EXCEPT ![c] = Atomic!Idle] /\ Seen[c] = StageOf(c)
        BY <2>3, <3>2, OneMoves DEF Return, Goto
      <3>4. LockSeen = c /\ LockSeen' = NoOne
        BY <1>0, <1>2, <2>1, <3>1, LockSeenIs DEF ClientSteps
      <3>5. Seen[c].step = "called" /\ Seen[c].port = port[c]
        BY <3>2, <3>3, CalledIs
      <3> QED  BY <2>1, <2>3, <3>3, <3>4, <3>5 DEF Atomic!Commit, Atomic!Leave, Atomic!Goto
    <2> QED  BY <1>8, <2>2, <2>3 DEF Commit
  <1> QED  BY <1>1, <1>4, <1>5, <1>6, <1>7, <1>8
(* Whoever rebuilds the table: nobody but the maintainer has the lock.     *)
LEMMA RebuildSeen ==
    ASSUME IInv, ClientsLetGo, NEW x \in Processes
    PROVE  /\ ReadDb(x) => Atomic!Read(x)
           /\ ListBefore(x) => Unseen
           /\ Load(x) => Atomic!Load(x)
           /\ GiveUp(x) => Atomic!GiveUp(x)
           /\ Cut(x) => Unseen
  <1> USE WppctlConstants DEF IInv, TypeOK, Processes
  <1>0. /\ pc[x] \in SyncSteps => (lock = x <=> x = Maintainer)
        /\ x # NoOne /\ NoOne # Maintainer
    BY DEF LocksHeld, ClientsLetGo, SyncSteps, ClientSteps
  <1>1. ASSUME ReadDb(x) PROVE Atomic!Read(x)
    <2>1. pc[x] = "resync" /\ pc'[x] = "before" /\ want'[x] = Ports \ allowed
      BY <1>1 DEF ReadDb, Goto
    <2>2. StageOf(x) = Atomic!Resync /\ StageOf(x)' = Atomic!Step("load", Null, Ports \ allowed)
      BY <2>1, StagesAre DEF StageTable
    <2>3. /\ Seen' = [Seen EXCEPT ![x] = Atomic!Step("load", Null, Ports \ allowed)]
          /\ Seen[x] = Atomic!Resync
      BY <1>1, <2>2, OneMoves DEF ReadDb, Goto
    <2>4. LockSeen' = LockSeen
      BY <1>1, <2>1 DEF LockSeen, ReadDb, Goto
    <2>5. Seen[x].step = "resync"
      BY <2>3 DEF Atomic!Resync, Atomic!Step
    <2> QED  BY <1>1, <2>3, <2>4, <2>5 DEF ReadDb, Atomic!Read, Atomic!Goto
  <1>2. ASSUME ListBefore(x) PROVE Unseen
    <2>1. pc[x] = "before" /\ pc'[x] = "load" /\ want'[x] = want[x]
      BY <1>2 DEF ListBefore, Goto
    <2>2. StageOf(x)' = StageOf(x)
      BY <2>1, StagesAre DEF StageTable
    <2>3. Seen' = [Seen EXCEPT ![x] = Seen[x]]
      BY <1>2, <2>2, OneMoves DEF ListBefore, Goto
    <2>4. LockSeen' = LockSeen
      BY <1>2, <2>1 DEF LockSeen, ListBefore, Goto
    <2> QED  BY <1>2, <2>3, <2>4, NotSeen DEF ListBefore
  <1>3. ASSUME pc[x] = "load"
        PROVE  Seen[x].step = "load" /\ Seen[x].seen = want[x]
    <2>1. StageOf(x) = Atomic!Step("load", Null, want[x])
      BY <1>3, StagesAre DEF StageTable
    <2> QED  BY <2>1 DEF Seen, Atomic!Step
  <1>4. ASSUME Load(x) PROVE Atomic!Load(x)
    <2>1. pc[x] = "load" /\ pc'[x] = "cut" /\ fw' = Table(want[x]) /\ lock' = lock
      BY <1>4 DEF Load, Goto
    <2>2. StageOf(x)' = Atomic!Idle
      BY <2>1, StagesAre DEF StageTable
    <2>3. Seen' = [Seen EXCEPT ![x] = Atomic!Idle]
      BY <1>4, <2>2, OneMoves DEF Load, Goto
    <2>4. LockSeen' = IF LockSeen = x THEN NoOne ELSE LockSeen
      <3>1. CASE x = Maintainer
        BY <1>0, <2>1, <3>1 DEF LockSeen, SyncSteps
      <3>2. CASE x # Maintainer
        <4>1. pc'[Maintainer] = pc[Maintainer]
          BY <1>4, <3>2 DEF Load, Goto
        <4>2. LockSeen' = LockSeen
          BY <2>1, <4>1 DEF LockSeen
        <4>3. LockSeen # x
          BY <1>0, <2>1, <3>2 DEF LockSeen, SyncSteps
        <4> QED  BY <4>2, <4>3
      <3> QED  BY <3>1, <3>2
    <2>5. fw' = Atomic!Table(TRUE, Seen[x].seen)
      BY <1>3, <2>1 DEF Table, Atomic!Table
    <2> QED  BY <1>3, <1>4, <2>1, <2>3, <2>4, <2>5 DEF Load, Atomic!Load, Atomic!Leave, Atomic!Goto
  <1>5. ASSUME GiveUp(x) PROVE Atomic!GiveUp(x)
    <2>1. /\ pc[x] \in {"resync", "before", "load"} /\ pc'[x] = "idle"
          /\ lock' = IF lock = x THEN NoOne ELSE lock
      BY <1>5 DEF GiveUp, Return, Goto
    <2>2. StageOf(x)' = Atomic!Idle
      BY <2>1, StagesAre DEF StageTable
    <2>3. Seen' = [Seen EXCEPT ![x] = Atomic!Idle] /\ Seen[x] = StageOf(x)
      BY <1>5, <2>2, OneMoves DEF GiveUp, Return, Goto
    <2>4. LockSeen' = IF LockSeen = x THEN NoOne ELSE LockSeen
      <3>1. CASE x = Maintainer
        BY <1>0, <2>1, <3>1 DEF LockSeen, SyncSteps
      <3>2. CASE x # Maintainer
        <4>1. pc'[Maintainer] = pc[Maintainer] /\ lock # x
          BY <1>0, <1>5, <2>1, <3>2 DEF GiveUp, Return, Goto, SyncSteps
        <4> QED  BY <1>0, <2>1, <4>1 DEF LockSeen
      <3> QED  BY <3>1, <3>2
    <2>5. Seen[x].step \in {"resync", "load"}
      BY <2>1, <2>3, StagesAre DEF StageTable, Atomic!Resync, Atomic!Step
    <2> QED  BY <1>5, <2>3, <2>4, <2>5 DEF GiveUp, Atomic!GiveUp, Atomic!Leave, Atomic!Goto
  <1>6. ASSUME Cut(x) PROVE Unseen
    <2>1. /\ pc[x] = "cut" /\ pc'[x] = "idle" /\ UNCHANGED <<allowed, fw>>
          /\ lock' = IF lock = x THEN NoOne ELSE lock
      BY <1>6 DEF Cut, Return, Goto
    <2>2. StageOf(x)' = StageOf(x)
      BY <2>1, StagesAre DEF StageTable
    <2>3. Seen' = [Seen EXCEPT ![x] = Seen[x]]
      BY <1>6, <2>2, OneMoves DEF Cut, Return, Goto
    <2>4. LockSeen' = LockSeen
      <3>1. CASE x = Maintainer
        BY <1>0, <2>1, <3>1 DEF LockSeen, SyncSteps
      <3>2. CASE x # Maintainer
        <4>1. pc'[Maintainer] = pc[Maintainer] /\ lock # x
          BY <1>0, <1>6, <2>1, <3>2 DEF Cut, Return, Goto, SyncSteps
        <4> QED  BY <2>1, <4>1 DEF LockSeen
      <3> QED  BY <3>1, <3>2
    <2> QED  BY <2>1, <2>3, <2>4, NotSeen
  <1> QED  BY <1>1, <1>2, <1>4, <1>5, <1>6

LEMMA OthersSeen ==
    ASSUME IInv
    PROVE  /\ Maintain => Atomic!Maintain
           /\ Flush => Atomic!Flush
           /\ \A p \in Ports : Connect(p) \/ Disconnect(p) => Unseen
  <1> USE WppctlConstants DEF IInv, TypeOK, Processes
  <1>1. ASSUME Maintain PROVE Atomic!Maintain
    <2>1. /\ pc[Maintainer] = "idle" /\ pc'[Maintainer] = "resync"
          /\ lock = NoOne /\ lock' = Maintainer /\ UNCHANGED <<allowed, fw>>
      BY <1>1 DEF Maintain, StartUnderLock, Goto
    <2>2. StageOf(Maintainer) = Atomic!Idle /\ StageOf(Maintainer)' = Atomic!Resync
      BY <2>1, StagesAre DEF StageTable
    <2>3. /\ Seen' = [Seen EXCEPT ![Maintainer] = Atomic!Resync]
          /\ Seen[Maintainer] = Atomic!Idle
      BY <1>1, <2>2, OneMoves DEF Maintain, StartUnderLock, Goto
    <2>4. LockSeen = NoOne /\ LockSeen' = Maintainer
      BY <2>1, LockSeenIs
    <2> QED  BY <2>1, <2>3, <2>4 DEF Atomic!Maintain, Atomic!Goto
  <1>2. ASSUME Flush PROVE Atomic!Flush
    <2>1. /\ pc[Service] = "idle" /\ pc'[Service] = "resync" /\ pc'[Maintainer] = pc[Maintainer]
          /\ fw' = NoTable /\ UNCHANGED <<allowed, lock>>
      BY <1>2 DEF Flush, Goto
    <2>2. StageOf(Service) = Atomic!Idle /\ StageOf(Service)' = Atomic!Resync
      BY <2>1, StagesAre DEF StageTable
    <2>3. Seen' = [Seen EXCEPT ![Service] = Atomic!Resync] /\ Seen[Service] = Atomic!Idle
      BY <1>2, <2>2, OneMoves DEF Flush, Goto
    <2>4. LockSeen' = LockSeen
      BY <2>1 DEF LockSeen
    <2> QED  BY <2>1, <2>3, <2>4 DEF Atomic!Flush, Atomic!Goto, Atomic!Table, NoTable
  <1>3. ASSUME NEW p \in Ports, Connect(p) \/ Disconnect(p) PROVE Unseen
    <2>1. UNCHANGED <<allowed, fw, lock, pc, port, want, before>>
      BY <1>3 DEF Connect, Disconnect
    <2>2. \A x \in Processes : StageOf(x)' = StageOf(x)
      BY <2>1 DEF StageOf, StillOpen
    <2> QED  BY <2>1, <2>2 DEF Unseen, LockSeen, Seen
  <1> QED  BY <1>1, <1>2, <1>3

LEMMA StepSeen == IInv /\ ClientsLetGo /\ [Next]_vars => SeenStep
  <1> SUFFICES ASSUME IInv, ClientsLetGo, [Next]_vars PROVE SeenStep
    OBVIOUS
  <1> USE DEF SeenStep, Atomic!Next, Atomic!Processes, Processes
  <1>1. CASE \E c \in Clients : Begin(c) \/ Add(c) \/ Kill(c) \/ List(c) \/ Delete(c) \/ Commit(c)
    BY <1>1, ClientSeen
  <1>2. CASE Maintain \/ Flush
    BY <1>2, OthersSeen
  <1>3. CASE \E x \in Processes : ReadDb(x) \/ ListBefore(x) \/ Load(x) \/ GiveUp(x) \/ Cut(x)
    BY <1>3, RebuildSeen
  <1>4. CASE \E p \in Ports : Connect(p) \/ Disconnect(p)
    BY <1>4, OthersSeen
  <1>5. CASE UNCHANGED vars
    BY <1>5 DEF vars, Unseen, LockSeen, Seen, StageOf, StillOpen
  <1> QED  BY <1>1, <1>2, <1>3, <1>4, <1>5 DEF Next

LEMMA InitSeen == Init => Atomic!Init
  <1> SUFFICES ASSUME Init PROVE Atomic!Init
    OBVIOUS
  <1>1. \A x \in Processes : StageOf(x) = Atomic!Idle
    BY StagesAre DEF StageTable, Init
  <1>2. Seen = [x \in Atomic!Processes |-> Atomic!Idle]
    BY <1>1 DEF Seen, Processes, Atomic!Processes
  <1>3. LockSeen = NoOne
    BY WppctlConstants DEF Init, LockSeen, Processes
  <1> QED  BY <1>2, <1>3 DEF Init, Atomic!Init, Table, Atomic!Table

(* The nft and ss commands of clients, maintainer and service, however     *)
(* they interleave and whichever fail, amount to atomic calls: no port but *)
(* the caller's is ever touched by block or unblock, none is forgotten by  *)
(* the listing before a deletion, and no change is committed without the   *)
(* effect of its call.                                                     *)
THEOREM CommandsImplementCalls == Spec => ImplementsFirewallCalls
  <1>1. IInv /\ ClientsLetGo /\ [Next]_vars => [Atomic!Next]_<<allowed, fw, LockSeen, Seen>>
    BY StepSeen DEF SeenStep, Unseen
  <1>2. Spec => []ClientsLetGo
    BY LetGoInitially, LetGoStep, InvariantHolds, PTL DEF Spec
  <1> QED
    BY InitSeen, <1>1, <1>2, InvariantHolds, PTL DEF Spec, ImplementsFirewallCalls, Atomic!Spec
=============================================================================
