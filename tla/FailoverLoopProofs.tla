-------------------------- MODULE FailoverLoopProofs ---------------------------
(***************************************************************************)
(* Proofs about Failover for a manager whose loop alone changes the master *)
(* and whose statements fail only on servers that are down.  The changes   *)
(* are then kept apart, so Located and Apart hold of every behaviour, and  *)
(* three more invariants are proved by induction.                          *)
(*                                                                         *)
(* Closed follows the servers that accept writes: no Ping takes the failed *)
(* state back while a change is under way.                                 *)
(*                                                                         *)
(* Kept follows what the servers have received, as long as there was no    *)
(* false alarm, no switchover and no candidate that is not waited for.     *)
(* All servers still there have beginnings of one history, which is why an *)
(* election by length alone finds a slave that has received all that any   *)
(* other has.                                                              *)
(*                                                                         *)
(* Truthful follows a position from the first look at it to the crash      *)
(* record, switchovers allowed: the candidate of a failover is fed by      *)
(* nobody, because all that still replicate did so from the lost master.   *)
(***************************************************************************)
EXTENDS FailoverProofs, FiniteSetTheorems

LoopAlone == Api = {} /\ MaxError = 0

(* The loop waits for the Pings of a tick before it starts a change, and    *)
(* raises the flag only inside one.                                         *)
Waits ==
  /\ pc[Loop] # "idle" => pinging = {}
  /\ inFailover => Busy(Loop)

(* A failover that has not exchanged the roles yet still has a failed       *)
(* master: no Ping is there to take it back.                                *)
Condemned == fail[Loop] /\ pc[Loop] \in {"called", "enter"} \cup Electing => master \in failed

Closed == Waits /\ Condemned /\ OneWriter

--------------------------------------------------------------------------------
(* With one goroutine changes are kept apart. *)
LEMMA OnlyLoop ==
  ASSUME LoopAlone
  PROVE  Threads = {Loop} /\ (OnlyOneFailover /\ OnlyOneFailover')
BY DEF LoopAlone, Threads, OnlyOneFailover

(* A statement fails only on a server that is down. *)
LEMMA FailsDown ==
  ASSUME LoopAlone, TypeOK, NEW s, Fails(s)
  PROVE  s \notin up /\ UNCHANGED spent
BY DEF LoopAlone, TypeOK, Fails, Events

(* Closed holds initially. *)
LEMMA InitClosed ==
  ASSUME Init
  PROVE  Closed
<1>1. pc[Loop] = "idle" /\ up \ readOnly \subseteq {master} /\ ~inFailover
  BY DEF Init, Threads
<1> QED
  BY <1>1 DEF Closed, Waits, Condemned, OneWriter, Electing

(* Every step of the loop, of a Ping and of a database keeps Closed. *)
LEMMA NextClosed ==
  ASSUME LoopAlone, Located, Apart, Closed, [Next]_vars
  PROVE  Closed'
<1> USE DEF dbVars, viewVars, roleVars, runVars, localVars, Goto, Leave, Busy, Electing, Changing
<1>0. TypeOK /\ Threads = {Loop} /\ RolesDistinct /\ Waits /\ Condemned /\ OneWriter
  BY OnlyLoop DEF Located, Apart, Closed
<1>a. pc \in [{Loop} -> Steps] /\ fail \in [{Loop} -> BOOLEAN] /\ readOnly \subseteq Servers /\ failed \subseteq Servers
  BY <1>0 DEF TypeOK
<1>1. CASE UNCHANGED vars
  BY <1>0, <1>1 DEF vars, Closed, Waits, Condemned, OneWriter
<1>2. CASE CheckFailed \/ SwitchoverSignal
  BY <1>0, <1>a, <1>2 DEF CheckFailed, SwitchoverSignal, Calls, Closed, Waits, Condemned, OneWriter
<1>3. CASE PingDeclaresFailed
  BY <1>0, <1>a, <1>3 DEF PingDeclaresFailed, Closed, Waits, Condemned, OneWriter
<1>4. ASSUME Thread(Loop)
      PROVE  Closed'
  <2>1. CASE \/ IsInFailover(Loop) \/ SetFailoverState(Loop) \/ Cancel(Loop) \/ CancelElected(Loop) \/ Elect(Loop)
             \/ GetMSlaveStatus(Loop) \/ ReadAllRelayLogs(Loop) \/ RefreshReplications(Loop)
             \/ SaveCrashInfo(Loop) \/ ResetSlave(Loop)
             \/ SwitchSlavesToMaster(Loop) \/ NextSlave(Loop) \/ Finish(Loop) \/ AddSeededProxyEnd(Loop)
    <3>1. /\ UNCHANGED <<up, readOnly, failed, pinging, master, oldMaster, fail>>
          /\ pc[Loop] \notin {"idle", "freeze"}
      BY <1>a, <2>1 DEF IsInFailover, SetFailoverState, Cancel, CancelElected, Elect, GetMSlaveStatus, ReadAllRelayLogs,
                  RefreshReplications, SaveCrashInfo,
                  ResetSlave, SwitchSlavesToMaster, NextSlave, Finish, AddSeededProxyEnd
    <3>2. OneWriter'
      BY <1>0, <3>1 DEF OneWriter
    <3>3. Waits'
      BY <1>0, <1>a, <2>1, <3>1 DEF IsInFailover, SetFailoverState, Cancel, CancelElected, Elect, GetMSlaveStatus, ReadAllRelayLogs,
                  RefreshReplications, SaveCrashInfo, ResetSlave, SwitchSlavesToMaster, NextSlave, Finish, AddSeededProxyEnd, Waits
    <3>4. Condemned'
      BY <1>0, <1>a, <2>1, <3>1 DEF IsInFailover, SetFailoverState, Cancel, CancelElected, Elect, GetMSlaveStatus, ReadAllRelayLogs,
                  RefreshReplications, SaveCrashInfo, ResetSlave, SwitchSlavesToMaster, NextSlave, Finish, AddSeededProxyEnd, Condemned
    <3> QED
      BY <3>2, <3>3, <3>4 DEF Closed
  <2>2. CASE Promote(Loop)
    <3>1. PICK c \in slaves : master' = c /\ failed' = failed \ {c}
      BY <1>0, <2>2, NamedType DEF Promote
    <3>2. pc[Loop] = "promote" /\ pc'[Loop] = (IF fail[Loop] THEN "sync" ELSE "freeze") /\ oldMaster' = master
          /\ UNCHANGED <<up, readOnly, pinging, inFailover, fail>>
      BY <1>a, <2>2 DEF Promote
    <3>3. OneWriter'
      BY <1>0, <3>1, <3>2 DEF OneWriter, Condemned, RolesDistinct
    <3> QED
      BY <1>0, <3>2, <3>3 DEF Closed, Waits, Condemned
  <2>3. CASE Panic(Loop)
    BY <1>0, <1>a, <2>3 DEF Panic, Closed, Waits, Condemned, OneWriter
  <2>4. CASE freeze(Loop)
    <3>1. (oldMaster \in up => oldMaster \in readOnly') /\ readOnly \subseteq readOnly'
      BY <1>0, <2>4, FailsDown DEF freeze
    <3>2. pc[Loop] = "freeze" /\ pc'[Loop] = "sync"
          /\ UNCHANGED <<up, failed, pinging, master, oldMaster, inFailover, fail>>
      BY <1>a, <2>4 DEF freeze
    <3> QED
      BY <1>0, <3>1, <3>2 DEF Closed, Waits, Condemned, OneWriter
  <2>5. CASE SetReadWrite(Loop)
    <3>1. readOnly \subseteq readOnly' \cup {master}
      BY <2>5 DEF SetReadWrite
    <3>2. pc[Loop] = "open" /\ pc'[Loop] \in {"switch", "demote"}
          /\ UNCHANGED <<up, failed, pinging, master, oldMaster, inFailover, fail>>
      BY <1>a, <2>5 DEF SetReadWrite
    <3> QED
      BY <1>0, <3>1, <3>2 DEF Closed, Waits, Condemned, OneWriter
  <2>6. CASE Demote(Loop)
    <3>1. (oldMaster \in up => oldMaster \in readOnly') /\ readOnly \subseteq readOnly' /\ failed' = failed \ {oldMaster}
      BY <1>0, <2>6, FailsDown DEF Demote
    <3>2. pc[Loop] = "demote" /\ pc'[Loop] = "switch"
          /\ UNCHANGED <<up, pinging, master, oldMaster, inFailover, fail>>
      BY <1>a, <2>6 DEF Demote
    <3> QED
      BY <1>0, <3>1, <3>2 DEF Closed, Waits, Condemned, OneWriter
  <2>7. CASE ChangeMaster(Loop)
    <3>1. readOnly \subseteq readOnly'
      BY <2>7 DEF ChangeMaster
    <3>2. pc[Loop] = "change" /\ pc'[Loop] = "slaves"
          /\ UNCHANGED <<up, failed, pinging, master, oldMaster, inFailover, fail>>
      BY <1>a, <2>7 DEF ChangeMaster
    <3> QED
      BY <1>0, <3>1, <3>2 DEF Closed, Waits, Condemned, OneWriter
  <2> QED
    BY <1>4, <2>1, <2>2, <2>3, <2>4, <2>5, <2>6, <2>7 DEF Thread
<1>5. ASSUME NEW s \in Servers, Database(s) \/ PingConnects(s)
      PROVE  Closed'
  <2>1. UNCHANGED <<readOnly, failed, master, oldMaster, inFailover, pc, fail>> /\ up' \subseteq up
        /\ (UNCHANGED pinging \/ pc[Loop] = "idle")
    BY <1>5 DEF Database, ClientWrites, ReplicaReceives, ReplicaExecutes, ServerStops, PingConnects
  <2> QED
    BY <1>0, <2>1 DEF Closed, Waits, Condemned, OneWriter
<1>6. ASSUME NEW s \in Servers, PingReintroduces(s)
      PROVE  Closed'
  (* A Ping under way means that no change has begun. *)
  <2>1. pc[Loop] = "idle" /\ ~inFailover /\ s \in pinging
    BY <1>0, <1>6 DEF PingReintroduces, Waits
  <2>2. failed' = failed \ {s} /\ UNCHANGED <<up, master, oldMaster, inFailover, pc, fail>> /\ readOnly \subseteq readOnly'
    BY <1>6 DEF PingReintroduces
  <2>3. s # master /\ s \in up => s \in readOnly'
    BY <1>0, <1>6, <2>1, FailsDown DEF PingReintroduces
  <2> QED
    BY <1>0, <2>1, <2>2, <2>3 DEF Closed, Waits, Condemned, OneWriter
<1> QED
  BY <1>0, <1>1, <1>2, <1>3, <1>4, <1>5, <1>6 DEF Next, LoopAlone

(* With the loop alone and no statement failing on a server that is up: for *)
(* any number of servers, false alarms, failovers and switchovers, a server *)
(* that accepts writes is the master, is the old master a switchover is     *)
(* about to freeze, or counts as failed.                                    *)
THEOREM LoopKeepsOneWriter == LoopAlone /\ Spec => []OneWriter
<1> SUFFICES ASSUME LoopAlone
             PROVE  Spec => []OneWriter
  BY DEF LoopAlone
<1> DEFINE Inv == Located /\ Apart /\ Closed
<1>1. Init => Inv
  BY InitLocated, InitApart, InitClosed
<1>2. Inv /\ [Next]_vars => Inv'
  <2> SUFFICES ASSUME Inv, [Next]_vars
               PROVE  Inv'
    OBVIOUS
  <2>1. Located'
    BY NextLocated
  <2>2. Apart'
    BY OnlyLoop, NextApart
  <2>3. Closed'
    BY NextClosed
  <2> QED
    BY <2>1, <2>2, <2>3
<1>3. Inv => OneWriter
  BY DEF Closed
<1> QED
  BY <1>1, <1>2, <1>3, PTL DEF Spec
--------------------------------------------------------------------------------
(* A has the transactions of B up to its own last one. *)
Agrees(A, B) == \A t \in A, u \in B : u <= t => u \in A
Prefix(A, B) == A \subseteq B /\ Agrees(A, B)

(* No false alarm and no switchover yet, and every candidate waited for. *)
Calm == spent["false"] = 0 /\ spent["call"] = 0 /\ spent["unread"] = 0

(* Transactions are numbered in the order of their commits. *)
Numbered == \A s \in Servers : \A t \in Received(s) : \A u \in Trx : u <= t => \E o \in Servers : u \in log[o]

(* A server that counts as failed is down, every change is a failover, and  *)
(* a server that is neither the master nor a slave is gone.                 *)
Genuine ==
  /\ failed \cap up = {}
  /\ pinging = {}
  /\ pc[Loop] \in Steps \ {"idle", "dead"} => fail[Loop]
  /\ pc[Loop] \notin {"freeze", "demote"}
  /\ up \subseteq slaves \cup {master}

(* Slaves replicate from the master or wait for one that is down, and the   *)
(* master receives nothing.                                                 *)
Fed ==
  /\ \A s \in slaves : source[s] # NoServer /\ (source[s] = master \/ source[s] \notin up)
  /\ source[master] \notin up

(* A master that is past ReadAllRelayLogs has executed what it received; it *)
(* is closed before, and receives nothing more than was seen.               *)
Drained ==
  /\ pc[Loop] \in {"sync", "wait"} => master \in readOnly
  /\ pc[Loop] = "wait" => Received(master) = io[Loop]
  /\ pc[Loop] \notin {"sync", "wait"} => (master \in up => relay[master] \subseteq log[master])

(* Each server executes in the order it receives, and what the slaves have  *)
(* received is the beginning of what the master has, or of one another.     *)
OneHistory ==
  /\ \A s \in Servers : Prefix(log[s], Received(s))
  /\ master \in up => \A s \in slaves \cap up : Prefix(Received(s), Received(master))
  /\ \A s, o \in slaves \cap up : Agrees(Received(s), Received(o))

(* The elected slave is still the most advanced one when it is promoted. *)
Chosen ==
  pc[Loop] = "promote" =>
    /\ list[Loop] = slaves
    /\ \A s \in slaves \cap up : Received(s) \subseteq Received(cand[Loop])

Ordered == Genuine /\ Fed /\ Drained /\ OneHistory /\ Chosen

Kept == Numbered /\ (Calm => Ordered)

--------------------------------------------------------------------------------
(* Beginnings of one history agree with each other. *)
LEMMA AgreesCommon ==
  ASSUME NEW A, NEW B, NEW C, Prefix(A, C), B \subseteq C
  PROVE  Agrees(A, B)
BY DEF Prefix, Agrees

(* A beginning of a beginning is a beginning. *)
LEMMA PrefixTransitive ==
  ASSUME NEW A, NEW B, NEW C, Prefix(A, B), Prefix(B, C)
  PROVE  Prefix(A, C)
BY DEF Prefix, Agrees

(* A beginning that takes the next transaction is a beginning. *)
LEMMA PrefixGrows ==
  ASSUME NEW A \in SUBSET Nat, NEW B \in SUBSET Nat, NEW C \in SUBSET Nat,
         Prefix(A, C), Prefix(B, C), NEW t \in Least(B \ A)
  PROVE  Prefix(A \cup {t}, C)
<1>1. t \in B /\ \A u \in B : u \notin A => t <= u
  BY DEF Least
<1>2. ASSUME NEW u \in C, u <= t
      PROVE  u \in A \cup {t}
  <2>1. u \in B
    BY <1>1, <1>2 DEF Prefix, Agrees
  <2> QED
    BY <1>1, <1>2, <2>1
<1> QED
  BY <1>1, <1>2 DEF Prefix, Agrees

(* Of two sets that agree with each other the larger contains the smaller:  *)
(* this is why a position may be compared by its length.                    *)
LEMMA LongestContains ==
  ASSUME NEW A \in SUBSET Trx, NEW B \in SUBSET Trx, Agrees(A, B), Agrees(B, A), Cardinality(A) <= Cardinality(B)
  PROVE  A \subseteq B
<1>1. IsFiniteSet(Trx) /\ Trx \subseteq Nat
  <2>1. MaxTrx \in Nat
    BY BoundAssumption
  <2>2. IsFiniteSet(1..MaxTrx)
    BY <2>1, FS_Interval
  <2> QED
    BY <2>1, <2>2 DEF Trx
<1>2. IsFiniteSet(A) /\ IsFiniteSet(B)
  BY <1>1, FS_Subset
<1> SUFFICES ASSUME NEW a \in A, a \notin B
             PROVE  FALSE
  OBVIOUS
<1>3. B \in SUBSET A
  <2> SUFFICES ASSUME NEW b \in B
               PROVE  b \in A
    OBVIOUS
  <2>1. ~(a <= b)
    BY DEF Agrees
  <2>2. b <= a
    BY <1>1, <2>1
  <2> QED
    BY <2>2 DEF Agrees
<1>4. Cardinality(B) <= Cardinality(A) /\ (Cardinality(A) = Cardinality(B) => A = B)
  BY <1>2, <1>3, FS_Subset
<1>5. Cardinality(A) \in Nat /\ Cardinality(B) \in Nat
  BY <1>2, FS_CardinalityType
<1> QED
  BY <1>4, <1>5

(* A calm state follows calm states. *)
LEMMA Calmed ==
  ASSUME TypeOK, Next, Calm'
  PROVE  Calm /\ ~Spend("call") /\ ~Spend("false") /\ ~Spend("unread")
<1>1. CASE UNCHANGED spent
  BY <1>1 DEF TypeOK, Spend, Events, Calm
<1>2. CASE \E e \in Events : Spend(e)
  BY <1>2 DEF TypeOK, Spend, Events, Calm
<1> QED
  BY <1>1, <1>2, SpentSteps

--------------------------------------------------------------------------------
(* Kept holds initially. *)
LEMMA InitKept ==
  ASSUME LoopAlone, Init
  PROVE  Kept
<1>1. pc[Loop] = "idle" /\ up = Servers /\ master \in Servers /\ slaves = Servers \ {master} /\ failed = {} /\ pinging = {}
      /\ source = [s \in Servers |-> IF s = master THEN NoServer ELSE master]
  BY DEF Init, Threads
<1>2. \A s \in Servers : log[s] = {} /\ relay[s] = {} /\ Received(s) = {}
  BY DEF Init, Received
<1>3. Genuine /\ Fed /\ Chosen
  BY <1>1, NoServerAssumption DEF Genuine, Fed, Chosen
<1>4. Drained /\ OneHistory /\ Numbered
  BY <1>1, <1>2 DEF Drained, OneHistory, Prefix, Agrees, Numbered
<1> QED
  BY <1>3, <1>4 DEF Kept, Ordered

(* A client commits the next number, and a replica only what its source has. *)
LEMMA NextNumbered ==
  ASSUME TypeOK, Numbered, Next
  PROVE  Numbered'
<1> USE DEF dbVars, viewVars, roleVars, runVars, localVars
<1>0. \A s \in Servers : log[s] \subseteq log'[s]
  BY LogsGrow
<1>a. Trx \subseteq Nat
  BY BoundAssumption DEF Trx
<1>1. ASSUME \A s \in Servers : Received(s)' \subseteq Received(s)
      PROVE  Numbered'
  BY <1>0, <1>1 DEF Numbered
<1>2. ASSUME NEW s \in Servers, ClientWrites(s)
      PROVE  Numbered'
  <2>1. PICK t \in Least(Trx \ UNION {log[o] : o \in Servers}) : log' = [log EXCEPT ![s] = @ \cup {t}]
    BY <1>2 DEF ClientWrites
  <2>2. \A o \in Servers : Received(o)' \subseteq Received(o) \cup {t}
    BY <1>2, <2>1 DEF ClientWrites, TypeOK, Received
  <2>3. ASSUME NEW u \in Trx, u <= t
        PROVE  \E o \in Servers : u \in log'[o]
    <3>1. CASE u = t
      BY <2>1, <3>1 DEF TypeOK
    <3>2. CASE u # t
      <4>1. t \in Trx /\ (u \in Trx \ UNION {log[o] : o \in Servers} => t <= u)
        BY <2>1 DEF Least
      <4>2. u \in UNION {log[o] : o \in Servers}
        BY <1>a, <2>3, <3>2, <4>1
      <4> QED
        BY <1>0, <4>2
    <3> QED
      BY <3>1, <3>2
  <2> QED
    BY <1>0, <2>2, <2>3 DEF Numbered
<1>3. ASSUME NEW s \in Servers, ReplicaReceives(s)
      PROVE  Numbered'
  <2>1. PICK t \in log[source[s]] : relay' = [relay EXCEPT ![s] = @ \cup {t}]
    BY <1>3 DEF ReplicaReceives, Least
  <2>2. source[s] \in Servers /\ t \in Received(source[s])
    BY <1>3 DEF ReplicaReceives, TypeOK, Received
  <2>3. \A o \in Servers : Received(o)' \subseteq Received(o) \cup {t}
    BY <1>3, <2>1 DEF ReplicaReceives, TypeOK, Received
  <2> QED
    BY <1>0, <2>2, <2>3 DEF Numbered
<1>4. ASSUME NEW s \in Servers, ReplicaExecutes(s) \/ ServerStops(s) \/ PingConnects(s) \/ PingReintroduces(s)
      PROVE  \A o \in Servers : Received(o)' \subseteq Received(o)
  BY <1>4 DEF ReplicaExecutes, ServerStops, PingConnects, PingReintroduces, Least, TypeOK, Received
<1>5. ASSUME NEW p \in Threads, Thread(p)
      PROVE  \A o \in Servers : Received(o)' \subseteq Received(o)
  <2>1. UNCHANGED log
    BY <1>5 DEF Thread, IsInFailover, SetFailoverState, Cancel, Elect, CancelElected, Promote, Panic, freeze, GetMSlaveStatus,
              ReadAllRelayLogs, RefreshReplications, SaveCrashInfo, ResetSlave, SetReadWrite, Demote, SwitchSlavesToMaster, NextSlave, ChangeMaster, Finish,
              AddSeededProxyEnd
  <2>2. UNCHANGED relay \/ \E s \in Sources : relay' = [relay EXCEPT ![s] = {}]
    BY <1>5 DEF Thread, IsInFailover, SetFailoverState, Cancel, Elect, CancelElected, Promote, Panic, freeze, GetMSlaveStatus,
              ReadAllRelayLogs, RefreshReplications, SaveCrashInfo, ResetSlave, SetReadWrite, Demote, SwitchSlavesToMaster, NextSlave, ChangeMaster, Finish,
              AddSeededProxyEnd, TypeOK, Sources
  <2> QED
    BY <2>1, <2>2 DEF TypeOK, Received
<1>6. ASSUME NEW p \in Api, handlerMuxFailover(p) \/ handlerMuxSwitchover(p) \/ AddSeededProxy(p)
      PROVE  \A o \in Servers : Received(o)' \subseteq Received(o)
  BY <1>6 DEF handlerMuxFailover, handlerMuxSwitchover, AddSeededProxy, Received
<1>7. CASE CheckFailed \/ SwitchoverSignal \/ PingDeclaresFailed
  BY <1>1, <1>7 DEF CheckFailed, SwitchoverSignal, PingDeclaresFailed, Received
<1> QED
  BY <1>1, <1>2, <1>3, <1>4, <1>5, <1>6, <1>7 DEF Next, Database

(* Steps that change neither a database nor the roles. *)
LEMMA KeepsOrdered ==
  ASSUME Ordered, UNCHANGED <<up, source, log, relay, master, slaves>>, Genuine', Drained', pc'[Loop] # "promote"
  PROVE  Ordered'
<1>1. \A s : Received(s)' = Received(s)
  BY DEF Received
<1>2. Fed' /\ OneHistory' /\ Chosen'
  BY <1>1 DEF Ordered, Fed, OneHistory, Chosen
<1> QED
  BY <1>2 DEF Ordered

(* A failed master is down, so the slaves receive nothing between the       *)
(* election and the exchange; the elected one is the longest.               *)
LEMMA ElectOrdered ==
  ASSUME LoopAlone, TypeOK, Closed, Ordered, Elect(Loop)
  PROVE  Ordered'
<1> USE DEF dbVars, viewVars, roleVars, runVars, localVars, Goto
<1>0. pc \in [{Loop} -> Steps] /\ list \in [{Loop} -> SUBSET Servers] /\ cand \in [{Loop} -> Sources]
      /\ slaves \subseteq Servers /\ pc[Loop] = "elect"
  BY OnlyLoop DEF TypeOK, Elect
<1>1. fail[Loop] /\ master \in failed /\ master \notin up
  BY <1>0 DEF Ordered, Genuine, Steps, Electing, Closed, Condemned
<1>2. PICK c \in electFailoverCandidate : cand' = [cand EXCEPT ![Loop] = c]
  BY <1>1 DEF Elect
<1>3. /\ UNCHANGED <<up, readOnly, source, log, relay, failed, pinging, master, slaves, fail>>
      /\ pc'[Loop] = "promote" /\ list'[Loop] = slaves /\ cand'[Loop] = c
  BY <1>0, <1>2 DEF Elect
<1>4. \A s : Received(s)' = Received(s)
  BY <1>3 DEF Received
<1>5. ASSUME NEW s \in slaves \cap up
      PROVE  Received(s) \subseteq Received(c)
  <2>1. c \in slaves \cap up /\ isSlaveElectable(s)
    BY <1>2 DEF electFailoverCandidate, isSlaveElectable, Ordered, Fed
  <2>2. Cardinality(Received(s)) <= Cardinality(Received(c))
    BY <1>1, <1>2, <2>1 DEF electFailoverCandidate, Position
  <2>3. Received(s) \in SUBSET Trx /\ Received(c) \in SUBSET Trx
    BY <1>0, <2>1, ReceivedType
  <2>4. Agrees(Received(s), Received(c)) /\ Agrees(Received(c), Received(s))
    BY <2>1 DEF Ordered, OneHistory
  <2> QED
    BY <2>2, <2>3, <2>4, LongestContains
<1>6. Genuine' /\ Fed' /\ Drained'
  BY <1>0, <1>1, <1>3 DEF Ordered, Genuine, Fed, Drained
<1>7. OneHistory'
  BY <1>3, <1>4 DEF Ordered, OneHistory
<1>8. Chosen'
  BY <1>3, <1>4, <1>5 DEF Chosen
<1> QED
  BY <1>6, <1>7, <1>8 DEF Ordered

(* The exchange makes the longest history that of the master. *)
LEMMA PromoteOrdered ==
  ASSUME LoopAlone, Located, Apart, Closed, Ordered, Promote(Loop)
  PROVE  Ordered'
<1> USE DEF dbVars, viewVars, roleVars, runVars, localVars, Goto
<1>0. pc \in [{Loop} -> Steps] /\ slaves \subseteq Servers /\ up \subseteq Servers /\ pc[Loop] = "promote"
      /\ source \in [Servers -> Sources]
  BY OnlyLoop DEF Located, TypeOK, Promote
<1>1. fail[Loop] /\ master \in failed /\ master \notin up
  BY <1>0 DEF Ordered, Genuine, Steps, Electing, Closed, Condemned
<1> DEFINE c == cand[Loop]
<1>2. Named(Loop) = {c} /\ c \in slaves
  BY <1>0, OnlyLoop DEF Ordered, Chosen, Named, Located
<1>3. /\ UNCHANGED <<up, readOnly, source, log, relay, pinging, fail>>
      /\ pc'[Loop] = "sync" /\ master' = c /\ slaves' = slaves \ {c} /\ failed' = failed \ {c}
      /\ isSlaveElectable(c)
  BY <1>0, <1>1, <1>2 DEF Promote
<1>4. \A s : Received(s)' = Received(s)
  BY <1>3 DEF Received
<1>5. c \in up /\ c \in readOnly
  BY <1>0, <1>2, <1>3 DEF isSlaveElectable, Closed, OneWriter, Apart, RolesDistinct, Ordered, Genuine
<1>6. Genuine'
  BY <1>1, <1>3 DEF Ordered, Genuine
<1>7. Fed'
  (* What still replicates does so from the old master, which is down. *)
  BY <1>1, <1>2, <1>3 DEF Ordered, Fed
<1>8. Drained' /\ Chosen'
  BY <1>3, <1>5 DEF Drained, Chosen
<1>9. ASSUME NEW s \in slaves' \cap up'
      PROVE  Prefix(Received(s), Received(c))
  BY <1>0, <1>2, <1>3, <1>5 DEF Ordered, OneHistory, Chosen, Prefix
<1>10. OneHistory'
  BY <1>3, <1>4, <1>9 DEF Ordered, OneHistory
<1> QED
  BY <1>6, <1>7, <1>8, <1>10 DEF Ordered

(* The relay log that RESET SLAVE drops has been executed. *)
LEMMA ResetSlaveOrdered ==
  ASSUME LoopAlone, Located, Apart, Ordered, ResetSlave(Loop)
  PROVE  Ordered'
<1> USE DEF dbVars, viewVars, roleVars, runVars, localVars, Goto
<1>0. pc \in [{Loop} -> Steps] /\ master \in Servers /\ master \notin slaves /\ pc[Loop] = "stop"
      /\ source \in [Servers -> Sources] /\ relay \in [Servers -> SUBSET Trx] /\ TypeOK
  BY OnlyLoop DEF Located, TypeOK, ResetSlave, Apart, RolesDistinct
<1>1. UNCHANGED <<up, readOnly, log, failed, pinging, master, slaves, fail>> /\ pc'[Loop] = "open"
  BY <1>0 DEF ResetSlave
<1>2. Genuine'
  BY <1>0, <1>1 DEF Ordered, Genuine, Steps, Changing
<1>3. CASE Fails(master) /\ UNCHANGED <<source, relay>>
  <2>1. Drained'
    BY <1>0, <1>1, <1>3, FailsDown DEF Drained
  <2> QED
    BY <1>1, <1>2, <1>3, <2>1, KeepsOrdered
<1>4. CASE Succeeds(master) /\ source' = [source EXCEPT ![master] = NoServer] /\ relay' = [relay EXCEPT ![master] = {}]
  <2>1. relay[master] \subseteq log[master]
    BY <1>0, <1>4 DEF Ordered, Drained, Succeeds
  <2>2. \A s \in Servers : Received(s)' = Received(s)
    BY <1>0, <1>1, <1>4, <2>1 DEF Received
  <2>3. Fed'
    BY <1>0, <1>1, <1>4, NoServerAssumption DEF Ordered, Fed, TypeOK
  <2>4. Drained' /\ Chosen'
    BY <1>0, <1>1, <1>4 DEF Drained, Chosen
  <2>5. OneHistory'
    BY <1>0, <1>1, <2>2 DEF Ordered, OneHistory, TypeOK
  <2> QED
    BY <1>2, <2>3, <2>4, <2>5 DEF Ordered
<1> QED
  BY <1>3, <1>4 DEF ResetSlave

(* A slave that is moved goes back to what it has executed. *)
LEMMA ChangeMasterOrdered ==
  ASSUME LoopAlone, Located, Apart, Ordered, ChangeMaster(Loop)
  PROVE  Ordered'
<1> USE DEF dbVars, viewVars, roleVars, runVars, localVars, Goto
<1>x. PICK x : x = cand[Loop]
  OBVIOUS
<1>0. pc \in [{Loop} -> Steps] /\ master \in Servers /\ slaves \subseteq Servers /\ up \subseteq Servers /\ pc[Loop] = "change"
      /\ source \in [Servers -> Sources] /\ relay \in [Servers -> SUBSET Trx] /\ TypeOK /\ x # master
  BY <1>x, OnlyLoop DEF Located, TypeOK, ChangeMaster, Apart
<1>1. UNCHANGED <<up, log, failed, pinging, master, slaves, fail>> /\ pc'[Loop] = "slaves"
  BY <1>0 DEF ChangeMaster
<1>2. Genuine'
  BY <1>0, <1>1 DEF Ordered, Genuine, Steps, Changing
<1>3. CASE Fails(x) /\ UNCHANGED <<source, relay, readOnly>>
  <2>1. Drained'
    BY <1>0, <1>1, <1>3 DEF Ordered, Drained
  <2> QED
    BY <1>1, <1>2, <1>3, <2>1, KeepsOrdered
<1>4. CASE Succeeds(x) /\ source' = [source EXCEPT ![x] = master] /\ relay' = [relay EXCEPT ![x] = {}]
  <2>1. x \in up /\ x \in slaves
    BY <1>0, <1>4 DEF Succeeds, Ordered, Genuine
  <2>2. \A s \in Servers \ {x} : Received(s)' = Received(s) /\ relay'[s] = relay[s]
    BY <1>0, <1>1, <1>4 DEF Received
  <2>3. Received(x)' = log[x]
    BY <1>0, <1>1, <1>4, <2>1 DEF Received
  <2>4. Fed'
    <3>1. \A s \in slaves' : source'[s] # NoServer /\ (source'[s] = master' \/ source'[s] \notin up')
      BY <1>0, <1>1, <1>4, <2>1, NoServerAssumption DEF Ordered, Fed
    <3>2. source'[master'] \notin up'
      BY <1>0, <1>1, <1>4, <2>1 DEF Ordered, Fed
    <3> QED
      BY <3>1, <3>2 DEF Fed
  <2>5. Drained' /\ Chosen'
    BY <1>0, <1>1, <2>2 DEF Ordered, Drained, Chosen
  <2>6. \A s \in Servers : Prefix(Received(s)', Received(s))
    BY <1>0, <2>1, <2>2, <2>3 DEF Ordered, OneHistory, Prefix, Agrees
  <2>7. \A s \in Servers : Prefix(log[s], Received(s)')
    BY <2>2, <2>3 DEF Ordered, OneHistory, Prefix, Agrees
  <2>8. ASSUME master \in up, NEW s \in slaves \cap up
        PROVE  Prefix(Received(s)', Received(master)')
    BY <1>0, <1>1, <2>2, <2>6, <2>8, PrefixTransitive DEF Ordered, OneHistory
  <2>9. ASSUME NEW s \in slaves \cap up, NEW o \in slaves \cap up
        PROVE  Agrees(Received(s)', Received(o)')
    <3>1. Agrees(Received(s), Received(o)) /\ Prefix(Received(s)', Received(s)) /\ Prefix(Received(o)', Received(o))
      BY <1>0, <2>6 DEF Ordered, OneHistory
    <3> QED
      BY <3>1 DEF Prefix, Agrees
  <2>10. OneHistory'
    BY <1>1, <2>7, <2>8, <2>9 DEF OneHistory
  <2> QED
    BY <1>2, <2>4, <2>5, <2>10 DEF Ordered
<1> QED
  BY <1>x, <1>3, <1>4 DEF ChangeMaster

--------------------------------------------------------------------------------
(* Only the master is written, and it knows every number in use. *)
LEMMA ClientWritesOrdered ==
  ASSUME LoopAlone, Located, Apart, Closed, Numbered, Ordered, NEW s \in Servers, ClientWrites(s)
  PROVE  Ordered'
<1> USE DEF dbVars, viewVars, roleVars, runVars, localVars
<1>0. TypeOK /\ master \in Servers /\ slaves \subseteq Servers /\ master \notin slaves /\ log \in [Servers -> SUBSET Trx]
  BY DEF Located, TypeOK, Apart, RolesDistinct
<1>a. Trx \subseteq Nat
  BY BoundAssumption DEF Trx
<1>1. s = master /\ s \in up \ readOnly
  BY DEF ClientWrites, Closed, OneWriter, Ordered, Genuine
<1>2. pc[Loop] \notin {"sync", "wait"} /\ relay[s] \subseteq log[s]
  BY <1>1 DEF Ordered, Drained
<1>3. PICK t \in Least(Trx \ UNION {log[o] : o \in Servers}) : log' = [log EXCEPT ![s] = @ \cup {t}]
  BY DEF ClientWrites
<1>4. UNCHANGED <<up, readOnly, source, relay, failed, pinging, master, slaves, pc, fail, list, cand, io>>
  BY DEF ClientWrites
<1>5. t \in Trx /\ \A o \in Servers : t \notin log[o]
  BY <1>3 DEF Least
<1>6. \A o \in Servers : \A u \in Received(o) : ~(t <= u)
  BY <1>5 DEF Numbered
<1>7. \A o \in Servers \ {s} : Received(o)' = Received(o) /\ log'[o] = log[o]
  BY <1>0, <1>3, <1>4 DEF Received
<1>8. log'[s] = log[s] \cup {t} /\ Received(s)' = log[s] \cup {t} /\ Received(s) = log[s]
  BY <1>0, <1>2, <1>3, <1>4 DEF Received
<1>9. \A o \in Servers : Prefix(log'[o], Received(o)')
  BY <1>7, <1>8 DEF Ordered, OneHistory, Prefix, Agrees
<1>10. ASSUME NEW o \in slaves \cap up
       PROVE  Prefix(Received(o)', Received(s)')
  <2>1. Received(o)' = Received(o) /\ o \in Servers
    BY <1>0, <1>1, <1>7
  <2>2. Prefix(Received(o), Received(s))
    BY <1>1 DEF Ordered, OneHistory
  <2> QED
    BY <1>6, <1>8, <2>1, <2>2 DEF Prefix, Agrees
<1>11. \A o, q \in slaves \cap up : Agrees(Received(o)', Received(q)')
  BY <1>0, <1>1, <1>7 DEF Ordered, OneHistory
<1>12. OneHistory'
  BY <1>1, <1>4, <1>9, <1>10, <1>11 DEF OneHistory
<1>13. Chosen'
  <2>1. pc[Loop] = "promote" => master \notin up
    BY DEF Ordered, Genuine, Closed, Condemned, Electing, Steps
  <2> QED
    BY <1>1, <1>4, <2>1 DEF Chosen
<1>14. Genuine' /\ Fed' /\ Drained'
  BY <1>1, <1>2, <1>4, <1>8 DEF Ordered, Genuine, Fed, Drained
<1> QED
  BY <1>12, <1>13, <1>14 DEF Ordered

(* A slave receives the next transaction of the master. *)
LEMMA ReplicaReceivesOrdered ==
  ASSUME LoopAlone, Located, Apart, Closed, Ordered, NEW s \in Servers, ReplicaReceives(s)
  PROVE  Ordered'
<1> USE DEF dbVars, viewVars, roleVars, runVars, localVars
<1>0. TypeOK /\ master \in Servers /\ slaves \subseteq Servers /\ master \notin slaves /\ relay \in [Servers -> SUBSET Trx]
  BY DEF Located, TypeOK, Apart, RolesDistinct
<1>a. Trx \subseteq Nat
  BY BoundAssumption DEF Trx
<1>1. s \in slaves \cap up /\ source[s] = master /\ master \in up /\ s # master
  BY <1>0 DEF ReplicaReceives, Ordered, Genuine, Fed
<1>2. PICK t \in Least(log[master] \ Received(s)) : relay' = [relay EXCEPT ![s] = @ \cup {t}]
  BY <1>1 DEF ReplicaReceives
<1>3. UNCHANGED <<up, readOnly, source, log, failed, pinging, master, slaves, pc, fail, list, cand, io>>
  BY DEF ReplicaReceives
<1>4. \A o \in Servers \ {s} : Received(o)' = Received(o) /\ relay'[o] = relay[o]
  BY <1>0, <1>2, <1>3 DEF Received
<1>5. Received(s)' = Received(s) \cup {t}
  BY <1>0, <1>2, <1>3 DEF Received
<1>6. \A o \in Servers : Received(o) \in SUBSET Nat /\ log[o] \in SUBSET Nat
  BY <1>0, <1>a, ReceivedType DEF TypeOK
<1>7. Prefix(Received(s), Received(master)) /\ Prefix(log[master], Received(master)) /\ Prefix(log[s], Received(s))
  BY <1>0, <1>1 DEF Ordered, OneHistory
<1>8. Prefix(Received(s)', Received(master))
  BY <1>0, <1>2, <1>5, <1>6, <1>7, PrefixGrows
<1>9. Prefix(log[s], Received(s)')
  <2>1. log[s] \subseteq Received(s)'
    BY <1>5, <1>7 DEF Prefix
  <2> QED
    BY <1>7, <1>8, <2>1, <1>5 DEF Prefix, Agrees
<1>10. ASSUME NEW o \in slaves \cap up
       PROVE  Prefix(Received(o)', Received(master)')
  BY <1>0, <1>1, <1>3, <1>4, <1>8 DEF Ordered, OneHistory
<1>11. ASSUME NEW o \in slaves \cap up, NEW q \in slaves \cap up
       PROVE  Agrees(Received(o)', Received(q)')
  BY <1>10, AgreesCommon DEF Prefix
<1>12. OneHistory'
  <2>1. \A o \in Servers : Prefix(log[o], Received(o)')
    BY <1>4, <1>9 DEF Ordered, OneHistory
  <2> QED
    BY <1>1, <1>3, <1>10, <1>11, <2>1 DEF OneHistory
<1>13. Chosen'
  <2>1. pc[Loop] = "promote" => master \notin up
    BY DEF Ordered, Genuine, Closed, Condemned, Electing, Steps
  <2> QED
    BY <1>1, <1>3, <2>1 DEF Chosen
<1>14. Genuine' /\ Fed' /\ Drained'
  BY <1>0, <1>1, <1>3, <1>4 DEF Ordered, Genuine, Fed, Drained
<1> QED
  BY <1>12, <1>13, <1>14 DEF Ordered

(* A server executes in the order it received. *)
LEMMA ReplicaExecutesOrdered ==
  ASSUME LoopAlone, Located, Apart, Ordered, NEW s \in Servers, ReplicaExecutes(s)
  PROVE  Ordered'
<1> USE DEF dbVars, viewVars, roleVars, runVars, localVars
<1>0. TypeOK /\ log \in [Servers -> SUBSET Trx] /\ slaves \subseteq Servers /\ master \in Servers
      /\ cand[Loop] \in Sources /\ (pc[Loop] = "promote" => cand[Loop] \in list[Loop])
  BY OnlyLoop DEF Located, TypeOK
<1>a. Trx \subseteq Nat
  BY BoundAssumption DEF Trx
<1>1. PICK t \in Least(relay[s] \ log[s]) : log' = [log EXCEPT ![s] = @ \cup {t}]
  BY DEF ReplicaExecutes
<1>2. UNCHANGED <<up, readOnly, source, relay, failed, pinging, master, slaves, pc, fail, list, cand, io>>
  BY DEF ReplicaExecutes
<1>3. t \in relay[s] /\ t \in Least(Received(s) \ log[s])
  BY <1>1 DEF Least, Received
<1>4. \A o \in Servers : Received(o)' = Received(o)
  BY <1>0, <1>1, <1>2, <1>3 DEF Received
<1>5. Received(s) \in SUBSET Nat /\ log[s] \in SUBSET Nat /\ Prefix(log[s], Received(s)) /\ Prefix(Received(s), Received(s))
  BY <1>0, <1>a, ReceivedType DEF TypeOK, Ordered, OneHistory, Prefix, Agrees
<1>6. Prefix(log[s] \cup {t}, Received(s))
  BY <1>3, <1>5, PrefixGrows
<1>7. \A o \in Servers : Prefix(log'[o], Received(o)')
  BY <1>0, <1>1, <1>4, <1>6 DEF Ordered, OneHistory
<1>8. OneHistory'
  BY <1>0, <1>2, <1>4, <1>7 DEF Ordered, OneHistory
<1>9. Drained'
  BY <1>0, <1>1, <1>2, <1>4 DEF Ordered, Drained
<1>10. Chosen'
  <2>1. pc[Loop] = "promote" => cand[Loop] \in Servers
    BY <1>0 DEF Ordered, Chosen
  <2> QED
    BY <1>0, <1>2, <1>4, <2>1 DEF Ordered, Chosen
<1>11. Genuine' /\ Fed'
  BY <1>2 DEF Ordered, Genuine, Fed
<1> QED
  BY <1>8, <1>9, <1>10, <1>11 DEF Ordered

(* A server that stops leaves the histories as they are. *)
LEMMA ServerStopsOrdered ==
  ASSUME Ordered, NEW s \in Servers, ServerStops(s)
  PROVE  Ordered'
<1> USE DEF dbVars, viewVars, roleVars, runVars, localVars
<1>1. UNCHANGED <<readOnly, source, log, relay, failed, pinging, master, slaves, pc, fail, list, cand, io>> /\ up' \subseteq up
  BY DEF ServerStops
<1>2. \A o : Received(o)' = Received(o)
  BY <1>1 DEF Received
<1>3. Genuine' /\ Fed' /\ Drained'
  BY <1>1, <1>2 DEF Ordered, Genuine, Fed, Drained
<1>4. OneHistory' /\ Chosen'
  BY <1>1, <1>2 DEF Ordered, OneHistory, Chosen
<1> QED
  BY <1>3, <1>4 DEF Ordered

--------------------------------------------------------------------------------
(* Every step of a calm behaviour keeps one history. *)
LEMMA NextOrdered ==
  ASSUME LoopAlone, Located, Apart, Closed, Numbered, Ordered, Next,
         ~Spend("call"), ~Spend("false"), ~Spend("unread")
  PROVE  Ordered'
<1> USE DEF dbVars, viewVars, roleVars, runVars, localVars, Goto, Leave
<1>0. TypeOK /\ Threads = {Loop} /\ Genuine /\ Drained /\ pc \in [{Loop} -> Steps] /\ fail \in [{Loop} -> BOOLEAN]
  BY OnlyLoop DEF Located, TypeOK, Ordered
<1>1. CASE CheckFailed
  <2>1. UNCHANGED <<up, source, log, relay, master, slaves, failed, pinging>> /\ pc[Loop] = "idle" /\ pc'[Loop] = "called" /\ fail'[Loop]
    BY <1>0, <1>1 DEF CheckFailed, Calls
  <2>2. Genuine' /\ Drained'
    BY <1>0, <2>1 DEF Genuine, Drained
  <2> QED
    BY <2>1, <2>2, KeepsOrdered
<1>2. CASE PingDeclaresFailed
  <2>1. UNCHANGED <<up, source, log, relay, master, slaves, pinging, pc, fail, readOnly>> /\ failed' = failed \cup {master}
        /\ pc[Loop] = "idle" /\ master \notin up
    BY <1>0, <1>2 DEF PingDeclaresFailed
  <2>2. Genuine' /\ Drained'
    BY <1>0, <2>1 DEF Genuine, Drained
  <2> QED
    BY <2>1, <2>2, KeepsOrdered
<1>3. ASSUME Thread(Loop)
      PROVE  Ordered'
  <2>1. CASE \/ IsInFailover(Loop) \/ SetFailoverState(Loop) \/ Cancel(Loop) \/ CancelElected(Loop)
             \/ Panic(Loop) \/ SaveCrashInfo(Loop) \/ SwitchSlavesToMaster(Loop) \/ NextSlave(Loop)
             \/ Finish(Loop) \/ AddSeededProxyEnd(Loop)
    <3>1. UNCHANGED <<up, source, log, relay, master, slaves, failed, pinging, fail, readOnly>>
      BY <2>1 DEF IsInFailover, SetFailoverState, Cancel, CancelElected, Panic, SaveCrashInfo, SwitchSlavesToMaster,
                  NextSlave, Finish, AddSeededProxyEnd
    <3>2. pc[Loop] \notin {"idle", "dead", "sync", "wait"}
          /\ pc'[Loop] \in {"idle", "dead", "enter", "elect", "stop", "slaves", "change"}
      BY <1>0, <2>1 DEF IsInFailover, SetFailoverState, Cancel, CancelElected, Panic, SaveCrashInfo,
                  SwitchSlavesToMaster, NextSlave, Finish, AddSeededProxyEnd
    <3>3. Genuine' /\ Drained'
      BY <1>0, <3>1, <3>2 DEF Genuine, Drained
    <3> QED
      BY <3>1, <3>2, <3>3, KeepsOrdered
  <2>2. CASE Elect(Loop)
    BY <1>0, <2>2, ElectOrdered
  <2>3. CASE Promote(Loop)
    BY <2>3, PromoteOrdered
  <2>4. CASE GetMSlaveStatus(Loop) \/ ReadAllRelayLogs(Loop) \/ RefreshReplications(Loop)
    <3>1. /\ UNCHANGED <<up, source, log, relay, master, slaves, failed, pinging, fail, readOnly>>
          /\ pc[Loop] \in {"sync", "wait", "cached"} /\ pc'[Loop] \in {"wait", "cached", "status"}
      BY <1>0, <2>4 DEF GetMSlaveStatus, ReadAllRelayLogs, RefreshReplications
    <3>2. Received(master)' = Received(master)
      BY <3>1 DEF Received
    <3>3. Drained'
      <4>1. CASE GetMSlaveStatus(Loop)
        <5>1. io \in [{Loop} -> SUBSET Trx]
          BY <1>0 DEF TypeOK
        <5>2. \/ pc'[Loop] = "wait" /\ io'[Loop] = Received(master)
              \/ pc'[Loop] = "status" /\ master \notin up
          BY <1>0, <4>1, <5>1, FailsDown DEF GetMSlaveStatus
        <5> QED
          BY <1>0, <3>1, <3>2, <4>1, <5>2 DEF GetMSlaveStatus, Drained
      <4>2. CASE ReadAllRelayLogs(Loop)
        <5>1. master \in up => log[master] = io[Loop] \/ relay[master] \subseteq log[master]
          BY <1>0, <4>2, FailsDown DEF ReadAllRelayLogs, Succeeds, Genuine
        <5>2. pc[Loop] = "wait" /\ pc'[Loop] \in {"cached", "status"}
          BY <1>0, <4>2 DEF ReadAllRelayLogs
        <5>3. master \in up => relay[master] \subseteq log[master]
          BY <1>0, <5>1, <5>2 DEF Drained, Received
        <5> QED
          BY <3>1, <5>2, <5>3 DEF Drained
      <4>3. CASE RefreshReplications(Loop)
        BY <1>0, <3>1, <4>3 DEF RefreshReplications, Drained
      <4> QED
        BY <2>4, <4>1, <4>2, <4>3
    <3>4. Genuine'
      BY <1>0, <3>1 DEF Genuine, Steps, Changing
    <3> QED
      BY <3>1, <3>3, <3>4, KeepsOrdered
  <2>5. CASE ResetSlave(Loop)
    BY <2>5, ResetSlaveOrdered
  <2>6. CASE SetReadWrite(Loop)
    <3>1. UNCHANGED <<up, source, log, relay, master, slaves, failed, pinging, fail>> /\ pc[Loop] = "open"
      BY <2>6 DEF SetReadWrite
    <3>2. pc'[Loop] = "switch"
      BY <1>0, <2>6, <3>1 DEF SetReadWrite, Genuine
    <3>3. Genuine' /\ Drained'
      BY <1>0, <3>1, <3>2 DEF Genuine, Drained
    <3> QED
      BY <3>1, <3>2, <3>3, KeepsOrdered
  <2>7. CASE ChangeMaster(Loop)
    BY <2>7, ChangeMasterOrdered
  <2>8. CASE freeze(Loop) \/ Demote(Loop)
    BY <1>0, <2>8 DEF freeze, Demote, Genuine
  <2> QED
    BY <1>3, <2>1, <2>2, <2>3, <2>4, <2>5, <2>6, <2>7, <2>8 DEF Thread
<1>4. ASSUME NEW s \in Servers, Database(s)
      PROVE  Ordered'
  BY <1>4, ClientWritesOrdered, ReplicaReceivesOrdered, ReplicaExecutesOrdered, ServerStopsOrdered DEF Database
<1>5. ASSUME NEW s \in Servers, PingConnects(s) \/ PingReintroduces(s)
      PROVE  FALSE
  BY <1>0, <1>5 DEF PingConnects, PingReintroduces, Genuine
<1>6. ~SwitchoverSignal
  BY DEF SwitchoverSignal
<1> QED
  BY <1>0, <1>1, <1>2, <1>3, <1>4, <1>5, <1>6 DEF Next, LoopAlone

(* Every step keeps Kept. *)
LEMMA NextKept ==
  ASSUME LoopAlone, Located, Apart, Closed, Kept, [Next]_vars
  PROVE  Kept'
<1>1. CASE UNCHANGED vars
  BY <1>1 DEF vars, Kept, Numbered, Calm, Ordered, Genuine, Fed, Drained, OneHistory, Chosen, Received
<1>2. CASE Next
  <2>1. TypeOK
    BY DEF Located
  <2>2. Numbered'
    BY <1>2, <2>1, NextNumbered DEF Kept
  <2>3. ASSUME Calm'
        PROVE  Ordered'
    BY <1>2, <2>1, <2>3, Calmed, NextOrdered DEF Kept
  <2> QED
    BY <2>2, <2>3 DEF Kept
<1> QED
  BY <1>1, <1>2

(* With the loop alone, no statement failing on a server that is up, no     *)
(* false alarm, no switchover and no candidate with an empty gtid_slave_pos *)
(* (which is not waited for): when a failover has opened the new master for *)
(* writes, that master has executed all that any slave still there had      *)
(* received, for any number of servers, of transactions and of failovers    *)
(* one after the other.                                                     *)
THEOREM LoopLosesNothingReceived == LoopAlone /\ Spec => []NothingReceivedIsLost
<1> SUFFICES ASSUME LoopAlone
             PROVE  Spec => []NothingReceivedIsLost
  BY DEF LoopAlone
<1> DEFINE Inv == Located /\ Apart /\ Closed /\ Kept
<1>1. Init => Inv
  BY InitLocated, InitApart, InitClosed, InitKept
<1>2. Inv /\ [Next]_vars => Inv'
  <2> SUFFICES ASSUME Inv, [Next]_vars
               PROVE  Inv'
    OBVIOUS
  <2>1. Located'
    BY NextLocated
  <2>2. Apart'
    BY OnlyLoop, NextApart
  <2>3. Closed'
    BY NextClosed
  <2>4. Kept'
    BY NextKept
  <2> QED
    BY <2>1, <2>2, <2>3, <2>4
<1>3. Inv => NothingReceivedIsLost
  <2> SUFFICES ASSUME Inv, spent["false"] + spent["call"] + spent["unread"] = 0, NEW p \in Threads, pc[p] = "switch", master \in up,
                      NEW s \in slaves \cap up
               PROVE  Received(s) \subseteq log[master]
    BY DEF NothingReceivedIsLost
  <2>1. Calm
    BY DEF Located, TypeOK, Events, Calm
  <2>2. relay[master] \subseteq log[master] /\ Received(s) \subseteq Received(master)
    BY <2>1, OnlyLoop DEF Kept, Ordered, Drained, OneHistory, Prefix
  <2> QED
    BY <2>2 DEF Received
<1> QED
  BY <1>1, <1>2, <1>3, PTL DEF Spec

--------------------------------------------------------------------------------
(* No false alarm yet, and every candidate waited for. *)
Trusted == spent["false"] = 0 /\ spent["unread"] = 0

(* A switchover up to the demotion of the old master. *)
Replacing == ~fail[Loop] /\ pc[Loop] \in {"freeze", "sync", "wait", "cached", "status", "stop", "open", "demote"}

(* The slaves a switchover has still to move from the old master. *)
Pending(s) ==
  /\ ~fail[Loop] /\ s # oldMaster
  /\ \/ Replacing \/ pc[Loop] = "switch"
     \/ pc[Loop] \in {"slaves", "change"} /\ s \in list[Loop]
     \/ pc[Loop] = "change" /\ s = cand[Loop]

(* What is still there is a slave of the master, of a server that is down,  *)
(* or of an old master it will be moved from.                               *)
Attached(s) ==
  /\ s \in slaves
  /\ source[s] = master \/ source[s] \notin up \/ (Pending(s) /\ source[s] = oldMaster)
Sourced == pc[Loop] # "dead" => \A s \in up \ {master} : Attached(s) \/ (Replacing /\ s = oldMaster)

(* The crash record of a failover whose elected server is still there names *)
(* what that server executed.                                               *)
Executed(c) == c.failover /\ c.elected \in up => c.pos \subseteq log[c.elected]

(* The position on its way to the record of a failover. *)
Seen ==
  fail[Loop] /\ master \in up =>
    /\ pc[Loop] \in {"sync", "wait"} => source[master] \notin up
    /\ pc[Loop] = "cached" => source[master] \notin up /\ relay[master] \subseteq log[master]
    /\ pc[Loop] = "wait" => Received(master) \subseteq io[Loop] \cup log[master]
    /\ pc[Loop] = "status" => crash[Loop].pos \subseteq log[master]

Recorded ==
  /\ \A c \in crashes : Executed(c)
  /\ pc[Loop] = "stop" => Executed(crash[Loop])

Traced ==
  /\ failed \cap up = {}
  /\ pc[Loop] \in {"freeze", "demote"} => ~fail[Loop]
  /\ Sourced /\ Seen /\ Recorded

Truthful == Trusted => Traced

--------------------------------------------------------------------------------
(* Truthful holds initially. *)
LEMMA InitTruthful ==
  ASSUME Init
  PROVE  Truthful
<1>1. pc[Loop] = "idle" /\ crashes = {} /\ failed = {} /\ slaves = Servers \ {master} /\ up = Servers
      /\ source = [s \in Servers |-> IF s = master THEN NoServer ELSE master]
  BY DEF Init, Threads
<1> QED
  BY <1>1 DEF Truthful, Traced, Sourced, Attached, Seen, Recorded

(* A trusted state follows trusted states. *)
LEMMA TrustedBefore ==
  ASSUME TypeOK, Next, Trusted'
  PROVE  Trusted /\ ~Spend("false") /\ ~Spend("unread")
<1>1. CASE UNCHANGED spent
  BY <1>1 DEF TypeOK, Spend, Events, Trusted
<1>2. CASE \E e \in Events : Spend(e)
  BY <1>2 DEF TypeOK, Spend, Events, Trusted
<1> QED
  BY <1>1, <1>2, SpentSteps

(* What the elected server executed it keeps, and once down it stays down. *)
LEMMA ExecutedStays ==
  ASSUME TypeOK, Next, NEW c, Executed(c)
  PROVE  c.failover /\ c.elected \in up' => c.pos \subseteq log'[c.elected]
BY LogsGrow DEF Executed, TypeOK

(* Steps that write no record. *)
LEMMA KeepsRecorded ==
  ASSUME TypeOK, Next, Recorded, UNCHANGED crashes, pc'[Loop] = "stop" => pc[Loop] = "stop" /\ crash'[Loop] = crash[Loop]
  PROVE  Recorded'
<1>1. ASSUME NEW c \in crashes'
      PROVE  c.failover /\ c.elected \in up' => c.pos \subseteq log'[c.elected]
  BY ExecutedStays DEF Recorded
<1>2. ASSUME pc'[Loop] = "stop"
      PROVE  crash'[Loop].failover /\ crash'[Loop].elected \in up' => crash'[Loop].pos \subseteq log'[crash'[Loop].elected]
  <2>1. Executed(crash[Loop]) /\ crash'[Loop] = crash[Loop]
    BY <1>2 DEF Recorded
  <2> QED
    BY <2>1, ExecutedStays
<1> QED
  BY <1>1, <1>2 DEF Recorded, Executed

(* Steps of the loop that touch no database, no role and no failed state. *)
LEMMA KeepsTraced ==
  ASSUME TypeOK, Next, Traced, UNCHANGED <<up, log, relay, source, master, failed>>, Sourced', Recorded',
         pc'[Loop] \notin {"freeze", "demote", "sync", "wait", "cached", "status"}
  PROVE  Traced'
BY DEF Traced, Seen

(* The candidate of a failover replicated from the lost master. *)
LEMMA PromoteTraced ==
  ASSUME LoopAlone, Located, Apart, Closed, Traced, Promote(Loop), Next
  PROVE  Traced'
<1> USE DEF dbVars, viewVars, roleVars, runVars, localVars, Goto
<1>0. TypeOK /\ pc \in [{Loop} -> Steps] /\ pc[Loop] = "promote" /\ master \notin slaves /\ up \subseteq Servers
  BY OnlyLoop DEF Located, TypeOK, Promote, Apart, RolesDistinct
<1>1. PICK c \in slaves : master' = c /\ slaves' = slaves \ {c} /\ failed' = failed \ {c}
  BY OnlyLoop, NamedType DEF Promote
<1>2. /\ UNCHANGED <<up, source, log, relay, crashes, crash, io, fail>> /\ oldMaster' = master
      /\ pc'[Loop] = IF fail[Loop] THEN "sync" ELSE "freeze"
  BY <1>0 DEF Promote
<1>3. \A s \in up \ {master} : s \in slaves /\ (source[s] = master \/ source[s] \notin up)
  BY <1>0 DEF Traced, Sourced, Attached, Pending, Replacing
<1>4. fail[Loop] => master \notin up
  BY <1>0 DEF Closed, Condemned, Electing, Traced
<1>5. Sourced'
  BY <1>0, <1>1, <1>2, <1>3, <1>4 DEF Sourced, Attached, Pending, Replacing
<1>6. Seen'
  BY <1>0, <1>1, <1>2, <1>3, <1>4 DEF Seen
<1>7. Recorded'
  BY <1>0, <1>2, KeepsRecorded DEF Traced
<1> QED
  BY <1>1, <1>2, <1>5, <1>6, <1>7 DEF Traced

(* What ReadAllRelayLogs sees of a candidate that nobody feeds. *)
LEMMA ReadTraced ==
  ASSUME LoopAlone, Located, Traced, Next, ~Spend("unread"),
         GetMSlaveStatus(Loop) \/ ReadAllRelayLogs(Loop) \/ RefreshReplications(Loop)
  PROVE  Traced'
<1> USE DEF dbVars, viewVars, roleVars, runVars, localVars, Goto
<1>0. TypeOK /\ pc \in [{Loop} -> Steps] /\ io \in [{Loop} -> SUBSET Trx] /\ crash \in [{Loop} -> Crash]
  BY OnlyLoop DEF Located, TypeOK
<1>1. /\ UNCHANGED <<up, source, log, relay, master, oldMaster, slaves, failed, crashes, fail, list, cand>>
      /\ pc[Loop] \in {"sync", "wait", "cached"} /\ pc'[Loop] \in {"wait", "cached", "status"}
  BY <1>0 DEF GetMSlaveStatus, ReadAllRelayLogs, RefreshReplications
<1>2. Received(master)' = Received(master)
  BY <1>1 DEF Received
<1>3. Sourced'
  BY <1>1 DEF Traced, Sourced, Attached, Pending, Replacing
<1>4. Recorded'
  BY <1>0, <1>1, KeepsRecorded DEF Traced
<1>5. Seen'
  <2> SUFFICES ASSUME fail[Loop], master \in up
               PROVE  Seen'
    BY <1>1 DEF Seen
  <2>0. source[master] \notin up /\ ~Fails(master) /\ master \notin failed
    BY <1>0, <1>1, FailsDown DEF Traced, Seen
  <2>1. CASE GetMSlaveStatus(Loop)
    <3>1. pc'[Loop] = "wait" /\ io'[Loop] = Received(master)
      BY <1>0, <2>0, <2>1 DEF GetMSlaveStatus
    <3> QED
      BY <1>1, <1>2, <2>0, <3>1 DEF Seen
  <2>2. CASE ReadAllRelayLogs(Loop)
    <3>1. pc[Loop] = "wait" /\ Received(master) \subseteq io[Loop] \cup log[master]
      BY <2>2 DEF ReadAllRelayLogs, Traced, Seen
    <3>2. CASE log[master] = io[Loop] /\ pc'[Loop] = "cached"
      BY <1>1, <2>0, <3>1, <3>2 DEF Seen, Received
    <3>3. CASE relay[master] \subseteq log[master] /\ crash' = [crash EXCEPT ![Loop].pos = Received(master)] /\ pc'[Loop] = "status"
      <4>1. crash'[Loop].pos \subseteq log[master]
        BY <1>0, <3>3 DEF Received, Crash
      <4> QED
        BY <1>1, <3>3, <4>1 DEF Seen
    <3> QED
      BY <1>0, <2>0, <2>2, <3>2, <3>3 DEF ReadAllRelayLogs
  <2>3. CASE RefreshReplications(Loop)
    <3>1. pc'[Loop] = "status" /\ crash' = [crash EXCEPT ![Loop].pos = Received(master)] /\ relay[master] \subseteq log[master]
      BY <1>0, <2>0, <2>3 DEF RefreshReplications, Traced, Seen
    <3>2. crash'[Loop].pos \subseteq log[master]
      BY <1>0, <3>1 DEF Received, Crash
    <3> QED
      BY <1>1, <3>1, <3>2 DEF Seen
  <2> QED
    BY <2>1, <2>2, <2>3
<1> QED
  BY <1>1, <1>3, <1>4, <1>5 DEF Traced

(* The record is made of the position seen, and kept. *)
LEMMA RecordTraced ==
  ASSUME LoopAlone, Located, Traced, Next, SaveCrashInfo(Loop) \/ ResetSlave(Loop)
  PROVE  Traced'
<1> USE DEF dbVars, viewVars, roleVars, runVars, localVars, Goto
<1>0. TypeOK /\ pc \in [{Loop} -> Steps] /\ crash \in [{Loop} -> Crash] /\ source \in [Servers -> Sources] /\ master \in Servers
  BY OnlyLoop DEF Located, TypeOK
<1>1. UNCHANGED <<up, log, master, oldMaster, slaves, failed, fail, list, cand>>
  BY DEF SaveCrashInfo, ResetSlave
<1>2. pc[Loop] \in {"status", "stop"} /\ pc'[Loop] \in {"stop", "open"}
  BY <1>0 DEF SaveCrashInfo, ResetSlave
<1>3. \A s \in Servers \ {master} : source'[s] = source[s]
  BY <1>0 DEF SaveCrashInfo, ResetSlave
<1>4. Sourced'
  BY <1>0, <1>1, <1>2, <1>3 DEF Traced, Sourced, Attached, Pending, Replacing, TypeOK
<1>5. Seen'
  BY <1>2 DEF Seen
<1>6. Recorded'
  <2>1. CASE SaveCrashInfo(Loop)
    <3>1. crash'[Loop] = [url |-> oldMaster, elected |-> master, pos |-> crash[Loop].pos, failover |-> fail[Loop]]
      BY <1>0, <2>1 DEF SaveCrashInfo
    <3>2. fail[Loop] /\ master \in up => crash[Loop].pos \subseteq log[master]
      BY <2>1 DEF SaveCrashInfo, Traced, Seen
    <3>3. crash'[Loop].failover /\ crash'[Loop].elected \in up' => crash'[Loop].pos \subseteq log'[crash'[Loop].elected]
      BY <1>1, <3>1, <3>2
    <3>4. UNCHANGED crashes
      BY <2>1 DEF SaveCrashInfo
    <3> QED
      BY <1>1, <3>3, <3>4 DEF Traced, Recorded, Executed
  <2>2. CASE ResetSlave(Loop)
    <3>1. crashes' = crashes \cup {crash[Loop]} /\ pc[Loop] = "stop" /\ pc'[Loop] = "open"
      BY <1>0, <2>2 DEF ResetSlave
    <3> QED
      BY <1>1, <3>1 DEF Traced, Recorded, Executed
  <2> QED
    BY <2>1, <2>2
<1> QED
  BY <1>1, <1>2, <1>4, <1>5, <1>6 DEF Traced

(* A switchover stops the old master, makes it a slave and moves the others *)
(* one by one; none that is still there is left behind.                     *)
LEMMA MoveTraced ==
  ASSUME LoopAlone, Located, Apart, Traced, Next,
         \/ freeze(Loop) \/ SetReadWrite(Loop) \/ Demote(Loop) \/ SwitchSlavesToMaster(Loop)
         \/ NextSlave(Loop) \/ ChangeMaster(Loop) \/ Finish(Loop)
  PROVE  Traced'
<1> USE DEF dbVars, viewVars, roleVars, runVars, localVars, Goto, Leave
<1>0. /\ TypeOK /\ pc \in [{Loop} -> Steps] /\ list \in [{Loop} -> SUBSET Servers] /\ cand \in [{Loop} -> Sources]
      /\ source \in [Servers -> Sources] /\ up \subseteq Servers /\ master \in Servers /\ oldMaster # master
  BY OnlyLoop DEF Located, TypeOK, Apart, RolesDistinct
<1>1. UNCHANGED <<up, log, crashes, fail, master, oldMaster>> /\ failed' \subseteq failed
  BY DEF freeze, SetReadWrite, Demote, SwitchSlavesToMaster, NextSlave, ChangeMaster, Finish
<1>2. pc'[Loop] # "stop"
  BY <1>0 DEF freeze, SetReadWrite, Demote, SwitchSlavesToMaster, NextSlave, ChangeMaster, Finish
<1>3. Recorded'
  BY <1>0, <1>1, <1>2, KeepsRecorded DEF Traced
<1>4. CASE freeze(Loop)
  <2>1. ~fail[Loop] /\ pc[Loop] = "freeze" /\ pc'[Loop] = "sync" /\ UNCHANGED <<slaves, list, cand>>
        /\ \A s \in Servers \ {oldMaster} : source'[s] = source[s]
    BY <1>0, <1>4 DEF freeze, Traced
  <2>2. Sourced'
    BY <1>0, <1>1, <2>1 DEF Traced, Sourced, Attached, Pending, Replacing
  <2> QED
    BY <1>1, <1>3, <2>1, <2>2 DEF Traced, Seen
<1>5. CASE SetReadWrite(Loop)
  <2>1. pc[Loop] = "open" /\ pc'[Loop] = (IF fail[Loop] THEN "switch" ELSE "demote") /\ UNCHANGED <<source, slaves, list, cand>>
    BY <1>0, <1>5 DEF SetReadWrite
  <2>2. Sourced'
    BY <1>1, <2>1 DEF Traced, Sourced, Attached, Pending, Replacing
  <2> QED
    BY <1>1, <1>3, <2>1, <2>2 DEF Traced, Seen
<1>6. CASE Demote(Loop)
  <2>1. ~fail[Loop] /\ pc[Loop] = "demote" /\ pc'[Loop] = "switch" /\ UNCHANGED <<list, cand>> /\ slaves' = slaves \cup {oldMaster}
        /\ (\A s \in Servers \ {oldMaster} : source'[s] = source[s])
    BY <1>0, <1>6 DEF Demote, Traced
  <2>2. oldMaster \in up => source'[oldMaster] = master
    BY <1>0, <1>6, FailsDown DEF Demote
  <2>3. Sourced'
    BY <1>0, <1>1, <2>1, <2>2 DEF Traced, Sourced, Attached, Pending, Replacing
  <2> QED
    BY <1>1, <1>3, <2>1, <2>3 DEF Traced, Seen
<1>7. CASE SwitchSlavesToMaster(Loop)
  <2>1. pc[Loop] = "switch" /\ pc'[Loop] = "slaves" /\ UNCHANGED <<source, slaves>> /\ list'[Loop] = slaves
    BY <1>0, <1>7 DEF SwitchSlavesToMaster
  <2>2. Sourced'
    BY <1>1, <2>1 DEF Traced, Sourced, Attached, Pending, Replacing
  <2> QED
    BY <1>1, <1>3, <2>1, <2>2 DEF Traced, Seen
<1>8. CASE NextSlave(Loop)
  <2>1. PICK x \in list[Loop] : /\ list' = [list EXCEPT ![Loop] = @ \ {x}] /\ cand' = [cand EXCEPT ![Loop] = x]
                                /\ pc' = [pc EXCEPT ![Loop] = IF x \in {oldMaster, master} THEN "slaves" ELSE "change"]
    BY <1>8 DEF NextSlave
  <2>2. list'[Loop] = list[Loop] \ {x} /\ cand'[Loop] = x /\ pc'[Loop] = (IF x \in {oldMaster, master} THEN "slaves" ELSE "change")
    BY <1>0, <2>1
  <2>3. pc[Loop] = "slaves" /\ UNCHANGED <<source, slaves>>
    BY <1>8 DEF NextSlave
  <2>4. Sourced'
    BY <1>1, <2>2, <2>3 DEF Traced, Sourced, Attached, Pending, Replacing
  <2> QED
    BY <1>1, <1>3, <2>2, <2>4 DEF Traced, Seen
<1>9. CASE ChangeMaster(Loop)
  <2>x. PICK x : x = cand[Loop]
    OBVIOUS
  <2>1. pc[Loop] = "change" /\ pc'[Loop] = "slaves" /\ UNCHANGED <<slaves, list, cand>>
    BY <1>0, <1>9 DEF ChangeMaster
  <2>2. \A s \in Servers \ {x} : source'[s] = source[s]
    BY <1>0, <1>9, <2>x DEF ChangeMaster
  <2>3. x \in up => source'[x] = master
    BY <1>0, <1>9, <2>x, FailsDown DEF ChangeMaster
  <2>4. Sourced'
    BY <1>0, <1>1, <2>x, <2>1, <2>2, <2>3 DEF Traced, Sourced, Attached, Pending, Replacing
  <2> QED
    BY <1>1, <1>3, <2>1, <2>4 DEF Traced, Seen
<1>10. CASE Finish(Loop)
  <2>1. pc[Loop] = "slaves" /\ pc'[Loop] = "idle" /\ UNCHANGED <<source, slaves, list, cand>> /\ list[Loop] = {}
    BY <1>0, <1>10 DEF Finish
  <2>2. Sourced'
    BY <1>1, <2>1 DEF Traced, Sourced, Attached, Pending, Replacing
  <2> QED
    BY <1>1, <1>3, <2>1, <2>2 DEF Traced, Seen
<1> QED
  BY <1>4, <1>5, <1>6, <1>7, <1>8, <1>9, <1>10

(* Every step of a trusted behaviour keeps the trace of the positions. *)
LEMMA NextTraced ==
  ASSUME LoopAlone, Located, Apart, Closed, Traced, Next, ~Spend("false"), ~Spend("unread")
  PROVE  Traced'
<1> USE DEF dbVars, viewVars, roleVars, runVars, localVars, Goto, Leave
<1>0. /\ TypeOK /\ Threads = {Loop} /\ pc \in [{Loop} -> Steps] /\ fail \in [{Loop} -> BOOLEAN]
      /\ source \in [Servers -> Sources] /\ log \in [Servers -> SUBSET Trx] /\ relay \in [Servers -> SUBSET Trx]
      /\ master \in Servers
  BY OnlyLoop DEF Located, TypeOK
<1>1. CASE CheckFailed \/ SwitchoverSignal
  <2>1. UNCHANGED <<up, source, log, relay, master, oldMaster, slaves, failed, crashes>>
        /\ pc[Loop] = "idle" /\ pc'[Loop] = "called"
    BY <1>0, <1>1 DEF CheckFailed, SwitchoverSignal, Calls
  <2>2. Sourced'
    BY <2>1 DEF Traced, Sourced, Attached, Pending, Replacing
  <2> QED
    BY <1>0, <2>1, <2>2, KeepsRecorded, KeepsTraced DEF Traced
<1>2. CASE PingDeclaresFailed
  <2>1. UNCHANGED <<up, source, log, relay, master, oldMaster, slaves, crashes, pc, fail, list, cand, io, crash>>
        /\ failed' = failed \cup {master} /\ master \notin up
    BY <1>2 DEF PingDeclaresFailed
  <2>2. Sourced' /\ Seen' /\ Recorded'
    BY <2>1 DEF Traced, Sourced, Attached, Pending, Replacing, Seen, Recorded, Executed, Received
  <2> QED
    BY <2>1, <2>2 DEF Traced
<1>3. ASSUME Thread(Loop)
      PROVE  Traced'
  <2>1. CASE \/ IsInFailover(Loop) \/ SetFailoverState(Loop) \/ Cancel(Loop) \/ CancelElected(Loop)
             \/ Elect(Loop) \/ AddSeededProxyEnd(Loop)
    <3>1. UNCHANGED <<up, source, log, relay, master, oldMaster, slaves, failed, crashes, fail>>
      BY <2>1 DEF IsInFailover, SetFailoverState, Cancel, CancelElected, Elect, AddSeededProxyEnd
    <3>2. pc[Loop] \in {"called", "enter", "elect", "promote", "proxy"} /\ pc'[Loop] \in {"idle", "enter", "elect", "promote"}
      BY <1>0, <2>1 DEF IsInFailover, SetFailoverState, Cancel, CancelElected, Elect, AddSeededProxyEnd
    <3>3. Sourced'
      BY <3>1, <3>2 DEF Traced, Sourced, Attached, Pending, Replacing
    <3> QED
      BY <1>0, <3>1, <3>2, <3>3, KeepsRecorded, KeepsTraced DEF Traced
  <2>2. CASE Panic(Loop)
    <3>1. UNCHANGED <<up, source, log, relay, master, failed, crashes>> /\ pc'[Loop] = "dead"
      BY <1>0, <2>2 DEF Panic
    <3> QED
      BY <1>0, <3>1, KeepsRecorded, KeepsTraced DEF Traced, Sourced
  <2> QED
    BY <1>3, <2>1, <2>2, PromoteTraced, ReadTraced, RecordTraced, MoveTraced DEF Thread
<1>4. ASSUME NEW s \in Servers, Database(s)
      PROVE  Traced'
  <2>1. UNCHANGED <<source, master, oldMaster, slaves, failed, pc, fail, list, cand, io, crashes, crash>> /\ up' \subseteq up
    BY <1>4 DEF Database, ClientWrites, ReplicaReceives, ReplicaExecutes, ServerStops
  <2>2. Sourced'
    BY <2>1 DEF Traced, Sourced, Attached, Pending, Replacing
  <2>3. Recorded'
    BY <1>0, <2>1, KeepsRecorded DEF Traced
  <2>4. Seen'
    <3>1. CASE ServerStops(s)
      BY <2>1, <3>1 DEF ServerStops, Traced, Seen, Received
    <3>2. CASE ClientWrites(s) \/ ReplicaExecutes(s)
      <4>1. PICK t : log' = [log EXCEPT ![s] = @ \cup {t}] /\ UNCHANGED <<up, relay>>
        BY <3>2 DEF ClientWrites, ReplicaExecutes
      <4>2. log[master] \subseteq log'[master] /\ Received(master)' \subseteq Received(master) \cup log'[master]
        BY <1>0, <2>1, <4>1 DEF Received
      <4> QED
        BY <2>1, <4>1, <4>2 DEF Traced, Seen
    <3>3. CASE ReplicaReceives(s)
      <4>1. UNCHANGED <<up, log>> /\ \E t : relay' = [relay EXCEPT ![s] = @ \cup {t}]
        BY <3>3 DEF ReplicaReceives
      <4>2. s = master => source[master] \in up
        BY <3>3 DEF ReplicaReceives
      <4>3. s # master => relay'[master] = relay[master]
        BY <1>0, <4>1
      <4>4. s # master => Received(master)' = Received(master)
        BY <2>1, <4>1, <4>3 DEF Received
      <4> QED
        BY <2>1, <4>1, <4>2, <4>3, <4>4 DEF Traced, Seen
    <3> QED
      BY <1>4, <3>1, <3>2, <3>3 DEF Database
  <2> QED
    BY <2>1, <2>2, <2>3, <2>4 DEF Traced
<1>5. ASSUME NEW s \in Servers, PingConnects(s) \/ PingReintroduces(s)
      PROVE  Traced'
  <2>1. UNCHANGED <<up, source, log, relay, master, oldMaster, slaves, crashes, pc, fail, list, cand, io, crash>>
        /\ failed' \subseteq failed
    BY <1>5 DEF PingConnects, PingReintroduces
  <2>2. Sourced' /\ Seen' /\ Recorded'
    BY <2>1 DEF Traced, Sourced, Attached, Pending, Replacing, Seen, Recorded, Executed, Received
  <2> QED
    BY <2>1, <2>2 DEF Traced
<1> QED
  BY <1>0, <1>1, <1>2, <1>3, <1>4, <1>5 DEF Next, LoopAlone

(* With the loop alone and no statement failing on a server that is up:     *)
(* without a false alarm, and when every candidate was waited for, the      *)
(* crash record of every failover names only transactions that the elected  *)
(* server executed, for any number of changes before it and of servers that *)
(* stop on the way.  The rejoin of an old master compares its own position  *)
(* with this one.                                                           *)
THEOREM RecordsAreExecuted == LoopAlone /\ Spec => []CrashPositionExecuted
<1> SUFFICES ASSUME LoopAlone
             PROVE  Spec => []CrashPositionExecuted
  BY DEF LoopAlone
<1> DEFINE Inv == Located /\ Apart /\ Closed /\ Truthful
<1>1. Init => Inv
  BY InitLocated, InitApart, InitClosed, InitTruthful
<1>2. Inv /\ [Next]_vars => Inv'
  <2> SUFFICES ASSUME Inv, [Next]_vars
               PROVE  Inv'
    OBVIOUS
  <2>1. Located'
    BY NextLocated
  <2>2. Apart'
    BY OnlyLoop, NextApart
  <2>3. Closed'
    BY NextClosed
  <2>4. Truthful'
    <3>1. CASE UNCHANGED vars
      BY <3>1 DEF vars, Truthful, Trusted, Traced, Sourced, Attached, Pending, Replacing, Seen, Recorded, Executed, Received
    <3>2. CASE Next
      <4>1. ASSUME Trusted'
            PROVE  Traced'
        <5>1. Trusted /\ ~Spend("false") /\ ~Spend("unread")
          BY <3>2, <4>1, TrustedBefore DEF Located
        <5> QED
          BY <3>2, <5>1, NextTraced DEF Truthful
      <4> QED
        BY <4>1 DEF Truthful
    <3> QED
      BY <3>1, <3>2
  <2> QED
    BY <2>1, <2>2, <2>3, <2>4
<1>3. Inv => CrashPositionExecuted
  <2> SUFFICES ASSUME Inv, spent["error"] + spent["false"] + spent["unread"] = 0
               PROVE  \A c \in crashes : Executed(c)
    BY DEF CrashPositionExecuted, Executed
  <2>1. Trusted
    BY DEF Located, TypeOK, Events, Trusted
  <2> QED
    BY <2>1 DEF Truthful, Traced, Recorded
<1> QED
  BY <1>1, <1>2, <1>3, PTL DEF Spec
================================================================================
