---------------------------- MODULE FailoverProofs -----------------------------
(***************************************************************************)
(* Proofs about Failover.  Two invariants are proved by induction.         *)
(*                                                                         *)
(* Located holds of every behaviour, overlapping changes included: next to *)
(* the types it says that an index into the list of slaves names a server  *)
(* of that list and that a change past the exchange of the roles has an    *)
(* old master.                                                             *)
(*                                                                         *)
(* Apart holds while changes are kept apart: the roles are distinct, and   *)
(* the slave being moved is not the master it is moved to.  The last part  *)
(* is what an overlapping change would break.                              *)
(***************************************************************************)
EXTENDS Failover, TLAPS

Located ==
  /\ TypeOK
  /\ \A p \in Threads : pc[p] = "promote" => cand[p] \in list[p]
  /\ \A p \in Threads : pc[p] \in Changing => oldMaster \in Servers

RolesDistinct == master \notin slaves /\ oldMaster # master

Apart ==
  /\ OnlyOneFailover
  /\ RolesDistinct
  /\ \A p \in Threads : pc[p] = "change" => cand[p] # master
  /\ NeverReplicatesFromItself

--------------------------------------------------------------------------------
(* What a counter of the environment and a step counter keep. *)
LEMMA SpendType ==
  ASSUME TypeOK, NEW e \in Events, Spend(e)
  PROVE  spent' \in [Events -> Nat]
BY DEF TypeOK, Spend

(* The outcome of a statement keeps the counters' type. *)
LEMMA FailsType ==
  ASSUME TypeOK, NEW s, Fails(s) \/ Succeeds(s)
  PROVE  spent' \in [Events -> Nat]
BY SpendType DEF TypeOK, Fails, Succeeds, Events

(* What a server has received is a set of transactions. *)
LEMMA ReceivedType ==
  ASSUME TypeOK, NEW s \in Servers
  PROVE  Received(s) \in SUBSET Trx
BY DEF TypeOK, Received

(* Candidates are slaves. *)
LEMMA CandidateType ==
  /\ electFailoverCandidate \subseteq slaves
  /\ electSwitchoverCandidate \subseteq slaves
BY DEF electFailoverCandidate, electSwitchoverCandidate

(* The servers an index may name are slaves. *)
LEMMA NamedType ==
  ASSUME Located, NEW p \in Threads, pc[p] = "promote"
  PROVE  Named(p) \subseteq slaves
BY DEF Located, Named

(* Located holds initially. *)
LEMMA InitLocated == Init => Located
PROOF
  <1> SUFFICES ASSUME Init PROVE Located
    OBVIOUS
  <1>1. pc \in [Threads -> {"idle"}]
    BY DEF Init
  <1>2. crash \in [Threads -> Crash]
    BY DEF Init, Crash, NoCrash, Sources
  <1>3. TypeOK
    BY <1>1, <1>2 DEF Init, TypeOK, Sources, Threads, Steps, Events
  <1>4. QED
    BY <1>1, <1>3 DEF Located, Changing

(* Every step keeps Located. *)
LEMMA NextLocated == Located /\ [Next]_vars => Located'
PROOF
  <1> SUFFICES ASSUME Located, [Next]_vars PROVE Located'
    OBVIOUS
  <1> USE DEF dbVars, viewVars, roleVars, runVars, localVars, Goto, Leave
  <1>0. TypeOK
    BY DEF Located
  <1>1. CASE UNCHANGED vars
    BY <1>1 DEF vars, Located, TypeOK
  <1>2. CASE CheckFailed
    BY <1>0, <1>2 DEF CheckFailed, Calls, Located, TypeOK, Threads, Steps, Changing
  <1>3. CASE SwitchoverSignal
    <2>1. spent' \in [Events -> Nat]
      BY <1>0, <1>3, SpendType DEF SwitchoverSignal, Events
    <2>2. QED
      BY <1>0, <1>3, <2>1 DEF SwitchoverSignal, Calls, Located, TypeOK, Threads, Steps, Changing
  <1>4. CASE PingDeclaresFailed
    <2>1. spent' \in [Events -> Nat]
      BY <1>0, <1>4, SpendType DEF PingDeclaresFailed, Events, TypeOK
    <2>2. QED
      BY <1>0, <1>4, <2>1 DEF PingDeclaresFailed, Located, TypeOK
  <1>5. ASSUME NEW p \in Api, handlerMuxFailover(p) \/ handlerMuxSwitchover(p)
        PROVE  Located'
    <2>1. spent' \in [Events -> Nat]
      BY <1>0, <1>5, SpendType DEF handlerMuxFailover, handlerMuxSwitchover, Events
    <2>2. QED
      BY <1>0, <1>5, <2>1 DEF handlerMuxFailover, handlerMuxSwitchover, Calls, Located, TypeOK,
                              Threads, Steps, Changing
  <1>6. ASSUME NEW p \in Api, AddSeededProxy(p) PROVE Located'
    <2>1. spent' \in [Events -> Nat]
      BY <1>0, <1>6, SpendType DEF AddSeededProxy, Events
    <2>2. QED
      BY <1>0, <1>6, <2>1 DEF AddSeededProxy, Located, TypeOK, Threads, Steps, Changing
  <1>7. ASSUME NEW p \in Threads, Thread(p) PROVE Located'
    <2>1. CASE IsInFailover(p) \/ SetFailoverState(p) \/ Cancel(p) \/ CancelElected(p)
      BY <1>0, <1>7, <2>1 DEF IsInFailover, SetFailoverState, Cancel, CancelElected, Located,
                              TypeOK, Steps, Electing, Changing
    <2>2. CASE Elect(p)
      <3>1. PICK c \in slaves : /\ cand' = [cand EXCEPT ![p] = c]
                                /\ crash' = [crash EXCEPT ![p] = [NoCrash EXCEPT !.pos = Received(c)]]
        BY <2>2, CandidateType DEF Elect
      <3>2. c \in Servers /\ Received(c) \in SUBSET Trx
        BY <1>0, ReceivedType DEF TypeOK
      <3>3. crash' \in [Threads -> Crash]
        BY <1>0, <3>1, <3>2 DEF TypeOK, Crash, NoCrash, Sources
      <3>4. TypeOK'
        BY <1>0, <2>2, <3>1, <3>2, <3>3 DEF Elect, TypeOK, Steps, Electing, Sources
      <3>5. QED
        BY <1>0, <2>2, <3>1, <3>4 DEF Elect, Located, TypeOK, Changing
    <2>3. CASE Promote(p)
      <3>1. PICK c \in Named(p) : master' = c /\ slaves' = slaves \ {c} /\ failed' = failed \ {c}
        BY <2>3 DEF Promote
      <3>2. c \in slaves /\ c \in Servers
        BY <1>0, <2>3, <3>1, NamedType DEF Promote, TypeOK
      <3>3. TypeOK'
        BY <1>0, <2>3, <3>1, <3>2 DEF Promote, TypeOK, Steps, Changing, Sources
      <3>4. QED
        BY <1>0, <2>3, <3>3 DEF Promote, Located, TypeOK, Changing
    <2>4. CASE Panic(p)
      BY <1>0, <2>4 DEF Panic, Located, TypeOK, Steps, Changing
    <2>5. CASE freeze(p)
      <3>1. spent' \in [Events -> Nat]
        BY <1>0, <2>5, FailsType DEF freeze
      <3>2. QED
        BY <1>0, <2>5, <3>1 DEF freeze, Succeeds, Located, TypeOK, Steps, Changing, Sources
    <2>6. CASE GetMSlaveStatus(p) \/ ReadAllRelayLogs(p) \/ RefreshReplications(p)
      <3>1. spent' \in [Events -> Nat]
        BY <1>0, <2>6, FailsType, SpendType DEF GetMSlaveStatus, ReadAllRelayLogs, RefreshReplications, Events
      <3>2. crash' \in [Threads -> Crash]
        <4>1. UNCHANGED crash \/ crash' = [crash EXCEPT ![p].pos = Received(master)]
          BY <2>6 DEF GetMSlaveStatus, ReadAllRelayLogs, RefreshReplications
        <4>2. QED
          BY <1>0, <4>1, ReceivedType DEF TypeOK, Crash
      <3>3. io' \in [Threads -> SUBSET Trx]
        BY <1>0, <2>6, ReceivedType DEF GetMSlaveStatus, ReadAllRelayLogs, RefreshReplications, TypeOK
      <3>4. /\ UNCHANGED <<dbVars, viewVars, roleVars, inFailover, failoverCtr, crashes, fail, list, cand>>
            /\ pc[p] \in Changing
            /\ \E l \in {"wait", "cached", "status"} : pc' = [pc EXCEPT ![p] = l]
        BY <2>6 DEF GetMSlaveStatus, ReadAllRelayLogs, RefreshReplications, Changing
      <3>5. QED
        BY <1>0, <3>1, <3>2, <3>3, <3>4 DEF Located, TypeOK, Steps, Changing
    <2>7. CASE SaveCrashInfo(p)
      <3>1. crash' \in [Threads -> Crash]
        <4>1. [url |-> oldMaster, elected |-> master, pos |-> crash[p].pos, failover |-> fail[p]] \in Crash
          BY <1>0 DEF TypeOK, Crash, Sources
        <4>2. QED
          BY <1>0, <2>7, <4>1 DEF SaveCrashInfo, TypeOK
      <3>2. QED
        BY <1>0, <2>7, <3>1 DEF SaveCrashInfo, Located, TypeOK, Steps, Changing
    <2>8. CASE ResetSlave(p)
      <3>1. spent' \in [Events -> Nat]
        BY <1>0, <2>8, FailsType DEF ResetSlave
      <3>2. crashes' \subseteq Crash
        BY <1>0, <2>8 DEF ResetSlave, TypeOK
      <3>3. crash' \in [Threads -> Crash]
        BY <1>0, <2>8 DEF ResetSlave, TypeOK, Crash, NoCrash, Sources
      <3>4. QED
        BY <1>0, <2>8, <3>1, <3>2, <3>3 DEF ResetSlave, Located, TypeOK, Steps, Changing, Sources
    <2>9. CASE SetReadWrite(p)
      <3>1. spent' \in [Events -> Nat]
        BY <1>0, <2>9, FailsType DEF SetReadWrite
      <3>2. QED
        BY <1>0, <2>9, <3>1 DEF SetReadWrite, Located, TypeOK, Steps, Changing
    <2>10. CASE Demote(p)
      <3>1. spent' \in [Events -> Nat]
        BY <1>0, <2>10, FailsType DEF Demote
      <3>2. oldMaster \in Servers
        BY <2>10 DEF Demote, Located, Changing
      <3>3. QED
        BY <1>0, <2>10, <3>1, <3>2 DEF Demote, Located, TypeOK, Steps, Changing, Sources
    <2>11. CASE SwitchSlavesToMaster(p)
      BY <1>0, <2>11 DEF SwitchSlavesToMaster, Located, TypeOK, Steps, Changing
    <2>12. CASE NextSlave(p)
      <3>1. PICK s \in list[p] : /\ list' = [list EXCEPT ![p] = @ \ {s}]
                                 /\ cand' = [cand EXCEPT ![p] = s]
        BY <2>12 DEF NextSlave
      <3>2. s \in Servers
        BY <1>0 DEF TypeOK
      <3>3. QED
        BY <1>0, <2>12, <3>1, <3>2 DEF NextSlave, Located, TypeOK, Steps, Changing, Sources
    <2>13. CASE ChangeMaster(p)
      <3>1. spent' \in [Events -> Nat]
        BY <1>0, <2>13, FailsType DEF ChangeMaster
      <3>2. QED
        BY <1>0, <2>13, <3>1 DEF ChangeMaster, Succeeds, Located, TypeOK, Steps, Changing, Sources
    <2>14. CASE Finish(p) \/ AddSeededProxyEnd(p)
      <3>1. failoverCtr' \in Nat
        BY <1>0, <2>14 DEF Finish, AddSeededProxyEnd, TypeOK
      <3>2. QED
        BY <1>0, <2>14, <3>1 DEF Finish, AddSeededProxyEnd, Located, TypeOK, Steps, Changing
    <2>15. QED
      BY <1>7, <2>1, <2>2, <2>3, <2>4, <2>5, <2>6, <2>7, <2>8, <2>9, <2>10, <2>11, <2>12,
         <2>13, <2>14 DEF Thread
  <1>8. ASSUME NEW s \in Servers, Database(s) PROVE Located'
    <2>1. CASE ClientWrites(s)
      BY <1>0, <2>1 DEF ClientWrites, Least, Located, TypeOK
    <2>2. CASE ReplicaReceives(s)
      BY <1>0, <2>2 DEF ReplicaReceives, Least, Located, TypeOK
    <2>3. CASE ReplicaExecutes(s)
      BY <1>0, <2>3 DEF ReplicaExecutes, Least, Located, TypeOK
    <2>4. CASE ServerStops(s)
      <3>1. spent' \in [Events -> Nat]
        BY <1>0, <2>4, SpendType DEF ServerStops, Events
      <3>2. QED
        BY <1>0, <2>4, <3>1 DEF ServerStops, Located, TypeOK
    <2>5. QED
      BY <1>8, <2>1, <2>2, <2>3, <2>4 DEF Database
  <1>9. ASSUME NEW s \in Servers, PingConnects(s) \/ PingReintroduces(s) PROVE Located'
    <2>1. spent' \in [Events -> Nat]
      BY <1>0, <1>9, FailsType DEF PingConnects, PingReintroduces, TypeOK
    <2>2. QED
      BY <1>0, <1>9, <2>1 DEF PingConnects, PingReintroduces, Located, TypeOK
  <1>10. QED
    BY <1>1, <1>2, <1>3, <1>4, <1>5, <1>6, <1>7, <1>8, <1>9 DEF Next

(* Types: however many goroutines change the roles at once, the fields they *)
(* share keep their types: a server is elected from the list of slaves and  *)
(* only a server is ever demoted, so no change works on a missing master.   *)
THEOREM FailoverTypes == Spec => []TypeOK
PROOF
  <1>1. Init => Located
    BY InitLocated
  <1>2. Located /\ [Next]_vars => Located'
    BY NextLocated
  <1>3. Located => TypeOK
    BY DEF Located
  <1>4. QED
    BY <1>1, <1>2, <1>3, PTL DEF Spec

--------------------------------------------------------------------------------
(* Apart holds initially. *)
LEMMA InitApart == Init => Apart
PROOF
  <1> SUFFICES ASSUME Init PROVE Apart
    OBVIOUS
  <1>1. pc \in [Threads -> {"idle"}]
    BY DEF Init
  <1>2. OnlyOneFailover
    BY <1>1 DEF OnlyOneFailover, Busy, Electing, Changing
  <1>3. RolesDistinct
    BY NoServerAssumption DEF Init, RolesDistinct
  <1>4. NeverReplicatesFromItself
    BY NoServerAssumption DEF Init, NeverReplicatesFromItself
  <1>5. QED
    BY <1>1, <1>2, <1>3, <1>4 DEF Apart

(* The steps that touch neither the roles, nor a replication, nor the slave *)
(* being moved.                                                             *)
LEMMA KeepsApart ==
  ASSUME Located, Apart, OnlyOneFailover',
         UNCHANGED <<roleVars, source, cand>>,
         \A q \in Threads : pc'[q] = "change" => pc[q] = "change"
  PROVE  Apart'
BY DEF Apart, RolesDistinct, NeverReplicatesFromItself, roleVars

(* Every step that leaves at most one change under way keeps Apart. *)
LEMMA NextApart == Located /\ Apart /\ [Next /\ OnlyOneFailover']_vars => Apart'
PROOF
  <1> SUFFICES ASSUME Located, Apart, [Next /\ OnlyOneFailover']_vars PROVE Apart'
    OBVIOUS
  <1> USE DEF dbVars, viewVars, roleVars, runVars, localVars, Goto, Leave
  <1>0. TypeOK
    BY DEF Located
  <1>1. CASE UNCHANGED vars
    BY <1>1 DEF vars, Apart, OnlyOneFailover, Busy, RolesDistinct, NeverReplicatesFromItself
  <1> SUFFICES ASSUME Next, OnlyOneFailover' PROVE Apart'
    BY <1>1
  <1>2. CASE CheckFailed \/ SwitchoverSignal \/ PingDeclaresFailed
    BY <1>0, <1>2, KeepsApart DEF CheckFailed, SwitchoverSignal, PingDeclaresFailed, Calls,
                                  TypeOK, Threads
  <1>3. ASSUME NEW p \in Api, handlerMuxFailover(p) \/ handlerMuxSwitchover(p) \/ AddSeededProxy(p)
        PROVE  Apart'
    BY <1>0, <1>3, KeepsApart DEF handlerMuxFailover, handlerMuxSwitchover, AddSeededProxy, Calls,
                                  TypeOK, Threads
  <1>4. ASSUME NEW p \in Threads, Thread(p) PROVE Apart'
    <2>1. CASE \/ IsInFailover(p) \/ SetFailoverState(p) \/ Cancel(p) \/ CancelElected(p)
               \/ Panic(p) \/ GetMSlaveStatus(p) \/ ReadAllRelayLogs(p) \/ RefreshReplications(p)
               \/ SaveCrashInfo(p) \/ SetReadWrite(p)
               \/ SwitchSlavesToMaster(p) \/ Finish(p) \/ AddSeededProxyEnd(p)
      BY <1>0, <2>1, KeepsApart DEF IsInFailover, SetFailoverState, Cancel, CancelElected, Panic,
            GetMSlaveStatus, ReadAllRelayLogs, RefreshReplications, SaveCrashInfo, SetReadWrite,
            SwitchSlavesToMaster, Finish,
            AddSeededProxyEnd, TypeOK
    <2>2. CASE Elect(p)
      <3>1. \A q \in Threads \ {p} : pc'[q] # "change"
        BY <1>0, <2>2 DEF Elect, TypeOK, Apart, OnlyOneFailover, Busy, Electing, Changing
      <3>2. pc'[p] # "change"
        BY <1>0, <2>2 DEF Elect, TypeOK
      <3>3. QED
        BY <2>2, <3>1, <3>2 DEF Elect, Apart, RolesDistinct, NeverReplicatesFromItself
    <2>3. CASE Promote(p)
      (* Nobody else is moving a slave while the master changes. *)
      <3>1. PICK c \in slaves : master' = c /\ slaves' = slaves \ {c}
        BY <2>3, NamedType DEF Promote
      <3>2. RolesDistinct'
        BY <2>3, <3>1 DEF Promote, Apart, RolesDistinct
      <3>3. \A q \in Threads : pc'[q] # "change"
        BY <1>0, <2>3 DEF Promote, TypeOK, Apart, OnlyOneFailover, Busy, Electing, Changing
      <3>4. QED
        BY <2>3, <3>2, <3>3 DEF Promote, Apart, NeverReplicatesFromItself
    <2>4. CASE freeze(p) \/ ResetSlave(p)
      <3>1. \A s \in Servers : source'[s] \in {source[s], NoServer}
        BY <1>0, <2>4 DEF freeze, ResetSlave, TypeOK
      <3>2. NeverReplicatesFromItself'
        BY <3>1, NoServerAssumption DEF Apart, NeverReplicatesFromItself
      <3>3. \A q \in Threads : pc'[q] = "change" => pc[q] = "change"
        BY <1>0, <2>4 DEF freeze, ResetSlave, TypeOK
      <3>4. QED
        BY <2>4, <3>2, <3>3 DEF freeze, ResetSlave, Apart, RolesDistinct
    <2>5. CASE Demote(p)
      <3>1. oldMaster # master
        BY DEF Apart, RolesDistinct
      <3>2. \A s \in Servers : source'[s] = source[s] \/ (s = oldMaster /\ source'[s] = master)
        BY <1>0, <2>5 DEF Demote, TypeOK
      <3>3. NeverReplicatesFromItself'
        BY <3>1, <3>2 DEF Apart, NeverReplicatesFromItself
      <3>4. RolesDistinct'
        BY <2>5, <3>1 DEF Demote, Apart, RolesDistinct
      <3>5. \A q \in Threads : pc'[q] = "change" => pc[q] = "change"
        BY <1>0, <2>5 DEF Demote, TypeOK
      <3>6. QED
        BY <2>5, <3>3, <3>4, <3>5 DEF Demote, Apart
    <2>6. CASE NextSlave(p)
      <3>1. PICK s \in list[p] : /\ cand' = [cand EXCEPT ![p] = s]
                                 /\ pc' = [pc EXCEPT ![p] = IF s \in {oldMaster, master}
                                                            THEN "slaves" ELSE "change"]
        BY <2>6 DEF NextSlave
      <3>2. \A q \in Threads : pc'[q] = "change" => cand'[q] # master
        BY <1>0, <3>1 DEF TypeOK, Apart
      <3>3. QED
        BY <2>6, <3>2 DEF NextSlave, Apart, RolesDistinct, NeverReplicatesFromItself
    <2>7. CASE ChangeMaster(p)
      <3>1. cand[p] # master
        BY <2>7 DEF ChangeMaster, Apart
      <3>2. \A s \in Servers : source'[s] = source[s] \/ (s = cand[p] /\ source'[s] = master)
        BY <1>0, <2>7 DEF ChangeMaster, TypeOK
      <3>3. NeverReplicatesFromItself'
        BY <3>1, <3>2 DEF Apart, NeverReplicatesFromItself
      <3>4. \A q \in Threads : pc'[q] = "change" => pc[q] = "change"
        BY <1>0, <2>7 DEF ChangeMaster, TypeOK
      <3>5. QED
        BY <2>7, <3>3, <3>4 DEF ChangeMaster, Apart, RolesDistinct
    <2>8. QED
      BY <1>4, <2>1, <2>2, <2>3, <2>4, <2>5, <2>6, <2>7 DEF Thread
  <1>5. ASSUME NEW s \in Servers, Database(s) \/ PingConnects(s) \/ PingReintroduces(s)
        PROVE  Apart'
    BY <1>5, KeepsApart DEF Database, ClientWrites, ReplicaReceives, ReplicaExecutes, ServerStops,
                            PingConnects, PingReintroduces
  <1>6. QED
    BY <1>2, <1>3, <1>4, <1>5 DEF Next

(* While changes are kept apart, no statement of MasterFailover makes a     *)
(* server replicate from itself: Demote and SwitchSlavesToMaster read the   *)
(* shared roles again at each statement, and these stay distinct through    *)
(* any sequence of failovers, switchovers, errors and stopped servers.      *)
THEOREM NoSelfReplication == SerialSpec => []NeverReplicatesFromItself
PROOF
  <1> DEFINE Inv == Located /\ Apart
  <1>1. Init => Inv
    BY InitLocated, InitApart
  <1>2. Inv /\ [Next /\ OnlyOneFailover']_vars => Inv'
    <2> SUFFICES ASSUME Inv, [Next /\ OnlyOneFailover']_vars PROVE Inv'
      OBVIOUS
    <2>1. [Next]_vars
      OBVIOUS
    <2>2. Located'
      BY <2>1, NextLocated
    <2>3. Apart'
      BY NextApart
    <2>4. QED
      BY <2>2, <2>3
  <1>3. Inv => NeverReplicatesFromItself
    BY DEF Apart
  <1>4. QED
    BY <1>1, <1>2, <1>3, PTL DEF SerialSpec

--------------------------------------------------------------------------------
(* A step takes at most one step of the environment. *)
LEMMA SpentSteps ==
  ASSUME Next
  PROVE  UNCHANGED spent \/ \E e \in Events : Spend(e)
<1> USE DEF dbVars, viewVars, roleVars, runVars, localVars
<1> USE DEF Events, Succeeds, Fails
<1>1. ASSUME NEW p \in Threads, Thread(p)
      PROVE  UNCHANGED spent \/ \E e \in Events : Spend(e)
  BY <1>1 DEF Thread, IsInFailover, SetFailoverState, Cancel, Elect, CancelElected, Promote, Panic, freeze, GetMSlaveStatus,
              ReadAllRelayLogs, RefreshReplications, SaveCrashInfo, ResetSlave, SetReadWrite, Demote, SwitchSlavesToMaster, NextSlave, ChangeMaster, Finish,
              AddSeededProxyEnd
<1>2. ASSUME NEW s \in Servers, Database(s) \/ PingConnects(s) \/ PingReintroduces(s)
      PROVE  UNCHANGED spent \/ \E e \in Events : Spend(e)
  BY <1>2 DEF Database, ClientWrites, ReplicaReceives, ReplicaExecutes, ServerStops, PingConnects, PingReintroduces
<1>3. ASSUME NEW p \in Api, handlerMuxFailover(p) \/ handlerMuxSwitchover(p) \/ AddSeededProxy(p)
      PROVE  UNCHANGED spent \/ \E e \in Events : Spend(e)
  BY <1>3 DEF handlerMuxFailover, handlerMuxSwitchover, AddSeededProxy
<1>4. CASE CheckFailed \/ SwitchoverSignal \/ PingDeclaresFailed
  BY <1>4 DEF CheckFailed, SwitchoverSignal, PingDeclaresFailed
<1> QED
  BY <1>1, <1>2, <1>3, <1>4 DEF Next

(* Servers stop and logs grow. *)
LEMMA LogsGrow ==
  ASSUME TypeOK, Next
  PROVE  up' \subseteq up /\ \A s \in Servers : log[s] \subseteq log'[s]
<1> USE DEF dbVars, viewVars, roleVars, runVars, localVars
<1>1. ASSUME NEW p \in Threads, Thread(p)
      PROVE  UNCHANGED <<up, log>>
  BY <1>1 DEF Thread, IsInFailover, SetFailoverState, Cancel, Elect, CancelElected, Promote, Panic, freeze, GetMSlaveStatus,
              ReadAllRelayLogs, RefreshReplications, SaveCrashInfo, ResetSlave, SetReadWrite, Demote, SwitchSlavesToMaster, NextSlave, ChangeMaster, Finish,
              AddSeededProxyEnd
<1>2. ASSUME NEW s \in Servers, ClientWrites(s) \/ ReplicaExecutes(s)
      PROVE  UNCHANGED up /\ \A o \in Servers : log[o] \subseteq log'[o]
  BY <1>2 DEF ClientWrites, ReplicaExecutes, TypeOK
<1>3. ASSUME NEW s \in Servers, ReplicaReceives(s) \/ ServerStops(s) \/ PingConnects(s) \/ PingReintroduces(s)
      PROVE  up' \subseteq up /\ UNCHANGED log
  BY <1>3 DEF ReplicaReceives, ServerStops, PingConnects, PingReintroduces
<1>4. ASSUME NEW p \in Api, handlerMuxFailover(p) \/ handlerMuxSwitchover(p) \/ AddSeededProxy(p)
      PROVE  UNCHANGED <<up, log>>
  BY <1>4 DEF handlerMuxFailover, handlerMuxSwitchover, AddSeededProxy
<1>5. CASE CheckFailed \/ SwitchoverSignal \/ PingDeclaresFailed
  BY <1>5 DEF CheckFailed, SwitchoverSignal, PingDeclaresFailed
<1> QED
  BY <1>1, <1>2, <1>3, <1>4, <1>5 DEF Next, Database
================================================================================
