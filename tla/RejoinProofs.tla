------------------------------ MODULE RejoinProofs ------------------------------
(***************************************************************************)
(* What holds of a rejoin for every number of servers, every setting and    *)
(* every number of transactions, stops and failing statements.              *)
(***************************************************************************)
EXTENDS Rejoin, WellFoundedInduction, TLAPS

Records == [url : Servers, elected : Servers, FailoverIOGtid : Gtids]

(* A set of natural numbers has a least element. *)
LEMMA LeastNumber ==
  ASSUME NEW S \in SUBSET Nat, S # {}
  PROVE  Min(S) \in S /\ \A n \in S : Min(S) <= n
<1> DEFINE R == {ss \in Nat \X Nat : ss[1] < ss[2]}
<1>1. IsWellFoundedOn(R, Nat)
  BY NatLessThanWellFounded, Zenon DEF OpToRel
<1>2. PICK m \in S : \A n \in S : ~(<<n, m>> \in R)
  BY <1>1, WFMin
<1>3. ASSUME NEW n \in S
      PROVE  m <= n
  <2>1. m \in Nat /\ n \in Nat
    OBVIOUS
  <2>2. n < m => <<n, m>> \in R
    BY <2>1
  <2> QED
    BY <1>2, <2>1, <2>2
<1> QED
  BY <1>3 DEF Min

(* A record that is found is one of the records. *)
LEMMA JoinerType ==
  ASSUME NEW s \in Servers, Crashes \in Seq(Records)
  PROVE  getCrashFromJoiner(s) = NoCrash \/ getCrashFromJoiner(s) \in Records
<1> DEFINE about == {i \in DOMAIN Crashes : Crashes[i].url = s}
<1> about \in SUBSET Nat
  OBVIOUS
<1> QED
  BY LeastNumber DEF getCrashFromJoiner

(* The position of a log is a position. *)
LEMMA GtidType ==
  ASSUME NEW l \in Seq(Trx), Len(l) <= MaxWrite
  PROVE  Gtid(l) \in Gtids
BY BoundAssumption DEF Gtid, Gtids, Trx, Sources, Last

(* The types rest on three facts.  A log is never longer than the number of *)
(* transactions written.  The master replicates from nobody, and neither    *)
(* does a server while it rejoins, so that no failover elects it meanwhile.  *)
(* A server past the first test of RejoinMaster is not the master.          *)
Started(s) == pc[s] \notin {"idle", "rejoin"}

Located ==
  /\ TypeOK
  /\ spent["write"] <= MaxWrite
  /\ \A s \in Servers : Len(log[s]) <= spent["write"]
  /\ source[master] = NoServer
  /\ \A s \in Servers : pc[s] # "idle" => source[s] = NoServer
  /\ \A s \in Servers : Started(s) => s # master

(* Located holds initially. *)
LEMMA InitLocated == Init => Located
<1> SUFFICES ASSUME Init
             PROVE  Located
  OBVIOUS
<1> USE ServersAssumption, BoundAssumption DEF Init
<1>1. source \in [Servers -> Sources] /\ source[master] = NoServer /\ \A s \in Servers : source[s] # s
  BY DEF Sources
<1>2. log \in [Servers -> Seq(Trx)] /\ \A s \in Servers : Len(log[s]) = 0
  OBVIOUS
<1>3. NoCrash \in [url : Sources, elected : Sources, FailoverIOGtid : Gtids]
  BY DEF NoCrash, Crash, Gtids, Sources
<1>4. spent \in [Events -> Nat] /\ spent["write"] = 0 /\ MaxWrite \in Nat
  BY DEF Events
<1>5. Crashes \in Seq([url : Servers, elected : Servers, FailoverIOGtid : Gtids])
  OBVIOUS
<1>6. /\ crash \in [Servers -> [url : Sources, elected : Sources, FailoverIOGtid : Gtids]]
      /\ CurrentGtid \in [Servers -> Gtids]
  BY <1>3 DEF Gtids, Sources
<1>7. pc \in [Servers -> Labels]
  BY DEF Labels
<1>8. TypeOK
  BY <1>1, <1>2, <1>4, <1>5, <1>6, <1>7 DEF TypeOK, Sources
<1> QED
  BY <1>1, <1>2, <1>4, <1>8 DEF Located, Started

(* A counted event raises its own counter only. *)
LEMMA SpendType ==
  ASSUME spent \in [Events -> Nat], NEW e \in Events, Spend(e)
  PROVE  /\ spent' \in [Events -> Nat]
         /\ spent'[e] = spent[e] + 1
         /\ \A o \in Events \ {e} : spent'[o] = spent[o]
BY DEF Spend

(* A server that stops inside its rejoin counts as an error. *)
LEMMA StopSpends ==
  ASSUME spent \in [Events -> Nat], NEW s \in Servers, ServerStops(s)
  PROVE  /\ spent' \in [Events -> Nat]
         /\ spent'["error"] = IF pc[s] = "idle" THEN spent["error"] ELSE spent["error"] + 1
         /\ \A e \in {"write", "overlap", "unstarted", "busy"} : spent'[e] = spent[e]
<1> DEFINE stopped == [spent EXCEPT !["crash"] = @ + 1]
<1>1. stopped \in [Events -> Nat] /\ \A e \in Events \ {"crash"} : stopped[e] = spent[e]
  BY DEF Events
<1>2. spent' = [stopped EXCEPT !["error"] = IF pc[s] = "idle" THEN @ ELSE @ + 1]
  BY DEF ServerStops
<1> HIDE DEF stopped
<1> QED
  BY <1>1, <1>2 DEF Events

(* A commit of a client keeps Located. *)
LEMMA WritesLocated ==
  ASSUME Located, NEW s \in Servers, ClientWrites(s)
  PROVE  Located'
<1> DEFINE t == <<s, spent["write"] + 1>>
<1> USE DEF Located, ClientWrites, roleVars, runVars
<1>1. spent' \in [Events -> Nat] /\ spent'["write"] = spent["write"] + 1 /\ spent'["write"] <= MaxWrite
  BY SpendType, BoundAssumption DEF TypeOK, Events
<1>2. t \in Trx
  BY BoundAssumption DEF Trx, TypeOK, Events
<1>3. log' \in [Servers -> Seq(Trx)] /\ \A o \in Servers : Len(log'[o]) <= spent["write"] + 1
  BY <1>2 DEF TypeOK, Events
<1> QED
  BY <1>1, <1>3 DEF TypeOK, Started

(* The threads of a replica keep Located. *)
LEMMA ReplicatesLocated ==
  ASSUME Located, NEW s \in Servers, Replicates(s)
  PROVE  Located'
<1> USE DEF Located, Replicates, roleVars, runVars
<1>1. source[s] \in Servers
  BY DEF TypeOK
<1>2. log[source[s]][Len(log[s]) + 1] \in Trx
  BY <1>1 DEF TypeOK
<1>3. log' \in [Servers -> Seq(Trx)] /\ \A o \in Servers : Len(log'[o]) <= spent["write"]
  BY <1>1, <1>2 DEF TypeOK, Events
<1> QED
  BY <1>3 DEF TypeOK, Started

(* A failover keeps Located. *)
LEMMA FailoverLocated ==
  ASSUME Located, MasterFailover
  PROVE  Located'
<1> USE DEF Located
<1>1. spent' \in [Events -> Nat] /\ spent'["write"] = spent["write"]
  BY SpendType DEF MasterFailover, TypeOK, Events
<1>2. PICK c \in Elected :
        /\ master' = c /\ oldMaster' = master
        /\ Crashes' = Append(Crashes, Crash(master, c, Gtid(log[c])))
        /\ source' = [s \in Servers |-> IF s = c THEN NoServer ELSE IF s \in Slaves \cap up THEN c ELSE source[s]]
        /\ readOnly' = (readOnly \cup (Slaves \cap up)) \ {c}
  BY DEF MasterFailover
<1>3. c \in Servers /\ source[c] # NoServer /\ c \notin failed
  BY <1>2 DEF Elected, Slaves
<1>4. UNCHANGED <<up, log, failed, runVars>>
  BY DEF MasterFailover
<1>5. Crash(master, c, Gtid(log[c])) \in Records
  BY <1>3, GtidType, BoundAssumption DEF TypeOK, Records, Crash, Events
<1>6. Crashes' \in Seq(Records)
  BY <1>2, <1>5 DEF TypeOK, Records
<1>7. source' \in [Servers -> Sources] /\ \A s \in Servers : source'[s] # s
  BY <1>2, <1>3, ServersAssumption DEF TypeOK, Sources
<1>8. source'[c] = NoServer /\ \A s \in Servers : source[s] = NoServer => source'[s] = NoServer
  BY <1>2, <1>3 DEF Slaves
<1>9. pc[c] = "idle"
  BY <1>3
<1> QED
  BY <1>1, <1>2, <1>3, <1>4, <1>6, <1>7, <1>8, <1>9 DEF TypeOK, Started, runVars, Records, Sources

(* The steps of the rejoin of a server: what the others have is left alone. *)
LEMMA RejoinLocated ==
  ASSUME Located, NEW s \in Servers, Rejoin(s)
  PROVE  Located'
<1> USE DEF Located, dbVars, roleVars
<1>a. ASSUME Succeeds(s) \/ Fails(s) \/ Unstarted \/ Busy \/ Spend("error") \/ Spend("overlap") \/ UNCHANGED spent
      PROVE  spent' \in [Events -> Nat] /\ spent'["write"] = spent["write"]
  BY <1>a, SpendType DEF Succeeds, Fails, Unstarted, Busy, TypeOK, Events
<1>b. Incremental \in {"sst", "refresh"}
  BY DEF Incremental
<1>c. ASSUME source' = [source EXCEPT ![s] = master], s # master, UNCHANGED master
      PROVE  /\ source' \in [Servers -> Sources] /\ \A o \in Servers : source'[o] # o
             /\ source'[master'] = NoServer
             /\ \A o \in Servers \ {s} : source'[o] = source[o]
  BY <1>c DEF TypeOK, Sources
<1>d. ASSUME NEW l \in Labels, Goto(s, l)
      PROVE  pc' \in [Servers -> Labels] /\ pc'[s] = l /\ \A o \in Servers \ {s} : pc'[o] = pc[o]
  BY <1>d DEF Goto, TypeOK
<1>1. CASE RejoinMaster(s)
  <2> DEFINE c == getCrashFromJoiner(s)
  <2>1. c \in [url : Sources, elected : Sources, FailoverIOGtid : Gtids]
    <3>1. NoCrash \in [url : Sources, elected : Sources, FailoverIOGtid : Gtids]
      BY BoundAssumption DEF NoCrash, Crash, Sources, Gtids
    <3>2. \A r \in Records : r \in [url : Sources, elected : Sources, FailoverIOGtid : Gtids]
      BY DEF Records, Sources
    <3>3. Crashes \in Seq(Records)
      BY DEF TypeOK, Records
    <3> QED
      BY <3>1, <3>2, <3>3, JoinerType
  <2>2. WayBack(s, c) \in {"idle", "backup", "sst", "refresh"} /\ (WayBack(s, c) # "idle" => s # master)
    BY <1>b DEF WayBack, Unknown
  <2>3. spent' \in [Events -> Nat] /\ spent'["write"] = spent["write"]
    BY <1>1, <1>a DEF RejoinMaster
  <2>4. pc' \in [Servers -> Labels] /\ pc'[s] \in {WayBack(s, c), "idle"} /\ \A o \in Servers \ {s} : pc'[o] = pc[o]
    <3>1. Goto(s, WayBack(s, c)) \/ Goto(s, "idle")
      BY <1>1 DEF RejoinMaster
    <3>2. WayBack(s, c) \in Labels /\ "idle" \in Labels
      BY <2>2 DEF Labels
    <3> HIDE DEF c
    <3> QED
      BY <1>d, <3>1, <3>2
  <2>5. crash' \in [Servers -> [url : Sources, elected : Sources, FailoverIOGtid : Gtids]]
    BY <1>1, <2>1 DEF RejoinMaster, TypeOK
  <2>6. pc[s] # "idle" /\ canFlashBack' \in BOOLEAN /\ UNCHANGED <<dbVars, roleVars, CurrentGtid, saved>>
    BY <1>1 DEF RejoinMaster, TypeOK
  <2> QED
    BY <2>2, <2>3, <2>4, <2>5, <2>6 DEF TypeOK, Started
<1>2. CASE backupBinlog(s)
  BY <1>2, <1>a, <1>b, <1>d DEF backupBinlog, TypeOK, Started, Labels
<1>3. CASE Refresh(s)
  <2>1. Gtid(log[s]) \in Gtids
    BY GtidType, BoundAssumption DEF TypeOK, Events
  <2>2. CurrentGtid' \in [Servers -> Gtids]
    BY <1>3, <2>1 DEF Refresh, TypeOK
  <2> QED
    BY <1>3, <1>a, <1>d, <2>2 DEF Refresh, TypeOK, Started, Labels
<1>4. CASE SetReadOnly(s)
  BY <1>4, <1>a, <1>d DEF SetReadOnly, Closes, TypeOK, Started, Labels
<1>5. CASE rejoinMasterIncremental(s)
  <2>1. PICK ahead \in BOOLEAN :
          /\ isReplicationAheadOfMasterElection(s, ahead)
          /\ Goto(s, IF ahead THEN "ahead" ELSE "sync")
          /\ canFlashBack' = (canFlashBack /\ (ahead => Recorded(s) # 0))
    BY <1>5 DEF rejoinMasterIncremental
  <2>2. spent' \in [Events -> Nat] /\ spent'["write"] = spent["write"]
    BY <2>1, <1>a DEF isReplicationAheadOfMasterElection
  <2>3. canFlashBack' \in BOOLEAN
    BY <2>1
  <2> QED
    BY <1>5, <1>d, <2>1, <2>2, <2>3 DEF rejoinMasterIncremental, TypeOK, Started, Labels
<1>6. CASE ChooseFlashBack(s)
  BY <1>6, <1>d DEF ChooseFlashBack, TypeOK, Started, Labels
<1>7. CASE rejoinMasterSync(s)
  BY <1>7, <1>a, <1>c, <1>d DEF rejoinMasterSync, TypeOK, Started, Labels
<1>8. CASE rejoinMasterFlashBack(s)
  <2> DEFINE n == crash[s].FailoverIOGtid[2]
  <2>1. n \in Nat
    BY DEF TypeOK, Gtids
  <2>2. Truncated(log[s], n) \in Seq(Trx) /\ Len(Truncated(log[s], n)) <= Len(log[s])
    BY <2>1 DEF Truncated, TypeOK
  <2>3. log' = log \/ log' = [log EXCEPT ![s] = Truncated(log[s], n)]
    <3>1. CASE UNCHANGED log
      BY <3>1
    <3>2. CASE log' = [log EXCEPT ![s] = IF s \in saved THEN Truncated(@, n) ELSE @]
      BY <3>2 DEF TypeOK
    <3> QED
      BY <1>8, <3>1, <3>2 DEF rejoinMasterFlashBack
  <2>4. log' \in [Servers -> Seq(Trx)] /\ \A o \in Servers : Len(log'[o]) <= spent["write"]
    <3> HIDE DEF n
    <3>1. CASE log' = log
      BY <3>1 DEF TypeOK
    <3>2. CASE log' = [log EXCEPT ![s] = Truncated(log[s], n)]
      <4>1. spent["write"] \in Nat /\ \A o \in Servers : Len(log[o]) \in Nat
        BY DEF TypeOK, Events
      <4>2. log' \in [Servers -> Seq(Trx)] /\ log'[s] = Truncated(log[s], n)
        BY <2>2, <3>2 DEF TypeOK
      <4>3. Len(log'[s]) \in Nat
        BY <4>2
      <4>4. \A o \in Servers : o # s => log'[o] = log[o]
        BY <3>2 DEF TypeOK
      <4> QED
        BY <2>2, <4>1, <4>2, <4>3, <4>4
    <3> QED
      BY <2>3, <3>1, <3>2
  <2> QED
    BY <1>8, <1>a, <1>c, <1>d, <2>4 DEF rejoinMasterFlashBack, TypeOK, Started, Labels
<1>9. CASE RejoinMasterSST(s)
  <2>1. log' \in [Servers -> Seq(Trx)] /\ \A o \in Servers : Len(log'[o]) <= spent["write"]
    BY <1>9 DEF RejoinMasterSST, TypeOK, Events
  <2> QED
    BY <1>9, <1>a, <1>c, <1>d, <2>1 DEF RejoinMasterSST, TypeOK, Started, Labels
<1> QED
  BY <1>1, <1>2, <1>3, <1>4, <1>5, <1>6, <1>7, <1>8, <1>9 DEF Rejoin

(* Every step keeps Located. *)
LEMMA NextLocated == Located /\ [Next]_vars => Located'
<1> SUFFICES ASSUME Located, [Next]_vars
             PROVE  Located'
  OBVIOUS
<1> USE DEF Located, dbVars, roleVars, runVars
<1>1. CASE UNCHANGED vars
  BY <1>1 DEF vars, TypeOK, Started
<1>2. CASE MasterFailover
  BY <1>2, FailoverLocated
<1>3. CASE PurgeCrashes
  BY <1>3 DEF PurgeCrashes, TypeOK, Started
<1>4. ASSUME NEW s \in Servers, ClientWrites(s) \/ Replicates(s) \/ Rejoin(s)
      PROVE  Located'
  BY <1>4, WritesLocated, ReplicatesLocated, RejoinLocated
<1>5. ASSUME NEW s \in Servers, ServerStops(s)
      PROVE  Located'
  <2>1. spent' \in [Events -> Nat] /\ spent'["write"] = spent["write"]
    BY <1>5, StopSpends DEF TypeOK
  <2> QED
    BY <1>5, <2>1 DEF ServerStops, TypeOK, Started
<1>6. ASSUME NEW s \in Servers, ServerStarts(s)
      PROVE  Located'
  BY <1>6 DEF ServerStarts, TypeOK, Started
<1>7. ASSUME NEW s \in Servers, PingFails(s)
      PROVE  Located'
  BY <1>7 DEF PingFails, TypeOK, Started
<1>8. ASSUME NEW s \in Servers, PingConnects(s)
      PROVE  Located'
  <2>1. spent' \in [Events -> Nat] /\ spent'["write"] = spent["write"] /\ readOnly' \subseteq Servers
    BY <1>8, SpendType DEF PingConnects, Closes, Succeeds, Fails, Busy, TypeOK, Events
  <2>2. Gtid(log[s]) \in Gtids
    BY GtidType, BoundAssumption DEF TypeOK, Events
  <2>3. CurrentGtid' \in [Servers -> Gtids] /\ pc' \in [Servers -> Labels]
    BY <1>8, <2>2 DEF PingConnects, Goto, TypeOK, Labels
  <2> QED
    BY <1>8, <2>1, <2>3 DEF PingConnects, Goto, TypeOK, Started
<1>9. ASSUME NEW s \in Servers, rejoinSlave(s)
      PROVE  Located'
  <2>1. spent' \in [Events -> Nat] /\ spent'["write"] = spent["write"] /\ readOnly' \subseteq Servers
    BY <1>9, SpendType DEF rejoinSlave, Succeeds, Fails, TypeOK, Events
  <2>2. source' = source \/ (s # master /\ source' = [source EXCEPT ![s] = master])
    BY <1>9 DEF rejoinSlave
  <2>3. /\ source' \in [Servers -> Sources] /\ \A o \in Servers : source'[o] # o
        /\ source'[master] = NoServer
        /\ \A o \in Servers : o # s => source'[o] = source[o]
    <3>1. CASE source' = source
      BY <3>1 DEF TypeOK
    <3>2. CASE s # master /\ source' = [source EXCEPT ![s] = master]
      BY <3>2 DEF TypeOK, Sources
    <3> QED
      BY <2>2, <3>1, <3>2
  <2>4. pc[s] = "idle" /\ failed' \subseteq Servers /\ UNCHANGED <<up, log, master, oldMaster, Crashes, runVars>>
    BY <1>9 DEF rejoinSlave, TypeOK
  <2> QED
    BY <2>1, <2>3, <2>4 DEF TypeOK, Started
<1> QED
  BY <1>1, <1>2, <1>3, <1>4, <1>5, <1>6, <1>7, <1>8, <1>9 DEF Next

(* Located holds in every reachable state. *)
LEMMA SpecLocated == Spec => []Located
BY InitLocated, NextLocated, PTL DEF Spec

(* Every variable of a rejoin keeps its type: in particular a server never  *)
(* replicates from itself, whatever failover runs between the choice of a   *)
(* way back and the CHANGE MASTER of the rejoin.                            *)
THEOREM RejoinTypes == Spec => []TypeOK
<1>1. Located => TypeOK
  BY DEF Located
<1> QED
  BY <1>1, SpecLocated, PTL

--------------------------------------------------------------------------------
(* Closed servers.  While nothing fails and no failover runs beside it, a   *)
(* server that rejoins is up and, unless it is the master, was closed by    *)
(* the Ping that found it; so every way back leaves it closed.              *)
Quiet == spent["error"] + spent["overlap"] + spent["busy"] = 0
Closed == Quiet => \A s \in Servers : pc[s] # "idle" => s \in up /\ (s # master => s \in readOnly)

(* One rejoin at a time is past the start, so the flag of the cluster tells *)
(* of the file of that server.                                              *)
Alone ==
  spent["overlap"] + spent["unstarted"] = 0 =>
    /\ \A s, o \in Servers : Started(s) /\ Started(o) => s = o
    /\ \A s \in Servers :
         /\ pc[s] \in {"refresh", "close", "compare", "ahead"} /\ canFlashBack /\ BackupBinlog => s \in saved
         /\ pc[s] = "flash" => s \in saved

(* What the comparison relies on: the position that was read is still that  *)
(* of the server, and the last record is about the master, whose log has    *)
(* only grown since the election.                                           *)
Behind(s) ==
  IF UsedGtidAtElection(crash[s])
  THEN Recorded(s) # 0 /\ GetSeqServerIdNos(CurrentGtid[s], s) <= Recorded(s)
  ELSE log[s] = <<>>

Compared ==
  /\ Crashes # <<>> => Last(Crashes).FailoverIOGtid[2] <= Len(log[master])
  /\ Undisturbed => \A s \in Servers :
       /\ pc[s] \in {"close", "compare", "ahead", "sync", "flash"} => CurrentGtid[s] = Gtid(log[s])
       /\ pc[s] = "sync" => Behind(s)

(* The counters only grow, and a step that fails, or runs beside a rejoin,  *)
(* is counted.                                                              *)
LEMMA Counters ==
  ASSUME Located, [Next]_vars
  PROVE  \A e \in Events : spent[e] \in Nat /\ spent'[e] \in Nat /\ spent[e] <= spent'[e]
<1> DEFINE grow == \A e \in Events : spent[e] \in Nat /\ spent'[e] \in Nat /\ spent[e] <= spent'[e]
<1> USE DEF Located
<1>1. spent \in [Events -> Nat]
  BY DEF TypeOK
<1>2. ASSUME UNCHANGED spent
      PROVE  grow
  BY <1>1, <1>2
<1>3. ASSUME NEW e \in Events, Spend(e)
      PROVE  grow
  BY <1>1, <1>3 DEF Spend
<1>4. ASSUME NEW s, Succeeds(s) \/ Fails(s) \/ Unstarted \/ Busy \/ Closes(s)
      PROVE  grow
  BY <1>2, <1>3, <1>4 DEF Succeeds, Fails, Unstarted, Busy, Closes, Events
<1>5. ASSUME NEW s \in Servers, ServerStops(s)
      PROVE  grow
  <2> DEFINE stopped == [spent EXCEPT !["crash"] = @ + 1]
  <2>1. stopped \in [Events -> Nat] /\ \A e \in Events : spent[e] <= stopped[e]
    BY <1>1 DEF Events
  <2>2. spent' = [stopped EXCEPT !["error"] = IF pc[s] = "idle" THEN @ ELSE @ + 1]
    BY <1>5 DEF ServerStops
  <2> HIDE DEF stopped
  <2> QED
    BY <1>1, <2>1, <2>2 DEF Events
<1>6. ASSUME NEW s \in Servers, Rejoin(s)
      PROVE  grow
  <2> USE <1>6 DEF Rejoin
  <2>1. CASE rejoinMasterIncremental(s)
    BY <1>2, <1>4, <2>1 DEF rejoinMasterIncremental, isReplicationAheadOfMasterElection
  <2>2. CASE RejoinMaster(s)
    BY <1>2, <1>3, <1>4, <2>2 DEF RejoinMaster, Events
  <2>3. CASE RejoinMasterSST(s)
    BY <1>3, <1>4, <2>3 DEF RejoinMasterSST, Events
  <2>4. CASE backupBinlog(s) \/ Refresh(s) \/ SetReadOnly(s) \/ ChooseFlashBack(s) \/ rejoinMasterSync(s)
             \/ rejoinMasterFlashBack(s)
    BY <1>2, <1>4, <2>4
       DEF backupBinlog, Refresh, SetReadOnly, ChooseFlashBack, rejoinMasterSync, rejoinMasterFlashBack
  <2> QED
    BY <2>1, <2>2, <2>3, <2>4
<1>7. ASSUME NEW s \in Servers, ClientWrites(s) \/ Replicates(s) \/ ServerStarts(s) \/ PingFails(s) \/ PingConnects(s)
                                \/ rejoinSlave(s)
      PROVE  grow
  BY <1>2, <1>3, <1>4, <1>7 DEF ClientWrites, Replicates, ServerStarts, PingFails, PingConnects, rejoinSlave, Events
<1>8. ASSUME MasterFailover \/ PurgeCrashes \/ UNCHANGED vars
      PROVE  grow
  BY <1>2, <1>3, <1>8 DEF MasterFailover, PurgeCrashes, vars, Events
<1> QED
  BY <1>5, <1>6, <1>7, <1>8 DEF Next

(* A failing statement or another event leaves its count. *)
LEMMA Uncounted ==
  ASSUME spent \in [Events -> Nat]
  PROVE  /\ \A s : Fails(s) => spent'["error"] > 0
         /\ \A e \in Events : Spend(e) => spent'[e] > 0
BY DEF Fails, Spend, Events

(* In a quiet step nothing failed, ran beside a rejoin or met a change. *)
LEMMA QuietStep ==
  ASSUME Located, [Next]_vars, Quiet'
  PROVE  /\ Quiet /\ spent'["error"] = 0 /\ spent["error"] = 0
         /\ (\A s : ~Fails(s)) /\ ~Spend("error") /\ ~Spend("overlap") /\ ~Busy
<1>1. /\ spent["error"] \in Nat /\ spent'["error"] \in Nat /\ spent["error"] <= spent'["error"]
      /\ spent["overlap"] \in Nat /\ spent'["overlap"] \in Nat /\ spent["overlap"] <= spent'["overlap"]
      /\ spent["busy"] \in Nat /\ spent'["busy"] \in Nat /\ spent["busy"] <= spent'["busy"]
  BY Counters DEF Events
<1>2. spent'["error"] = 0 /\ spent'["overlap"] = 0 /\ spent'["busy"] = 0
  <2>1. spent'["error"] + spent'["overlap"] + spent'["busy"] = 0
    BY DEF Quiet
  <2>2. \A a, b, c \in Nat : a + b + c = 0 => a = 0 /\ b = 0 /\ c = 0
    OBVIOUS
  <2> QED
    BY <1>1, <2>1, <2>2, Zenon
<1>3. spent["error"] = 0 /\ spent["overlap"] = 0 /\ spent["busy"] = 0
  BY <1>1, <1>2
<1>4. (\A s : ~Fails(s)) /\ ~Spend("error") /\ ~Spend("overlap") /\ ~Busy
  BY <1>2, Uncounted DEF Located, TypeOK, Events, Busy
<1> QED
  BY <1>2, <1>3, <1>4 DEF Quiet

(* Every step keeps Closed. *)
LEMMA NextClosed == Located /\ Closed /\ [Next]_vars => Closed'
<1> DEFINE closed == \A s \in Servers : pc'[s] # "idle" => s \in up' /\ (s # master' => s \in readOnly')
<1> SUFFICES ASSUME Located, Closed, [Next]_vars, Quiet'
             PROVE  closed
  BY DEF Closed
<1>1. spent'["error"] = 0 /\ spent["error"] = 0
  BY QuietStep
<1>2. \A s \in Servers : pc[s] # "idle" => s \in up /\ (s # master => s \in readOnly)
  BY QuietStep DEF Closed
<1>3. (\A s : ~Fails(s)) /\ ~Spend("error") /\ ~Spend("overlap") /\ ~Busy
  BY QuietStep
<1>4. TypeOK
  BY DEF Located
<1> USE DEF dbVars, roleVars, runVars
<1>5. CASE UNCHANGED vars
  BY <1>2, <1>5 DEF vars
<1>6. CASE MasterFailover
  BY <1>3, <1>6 DEF MasterFailover, Idle
<1>7. CASE PurgeCrashes
  BY <1>2, <1>7 DEF PurgeCrashes
<1>8. ASSUME NEW s \in Servers, ClientWrites(s) \/ Replicates(s) \/ PingFails(s)
      PROVE  closed
  BY <1>2, <1>8 DEF ClientWrites, Replicates, PingFails
<1>9. ASSUME NEW s \in Servers, ServerStops(s)
      PROVE  closed
  <2>1. pc[s] = "idle"
    BY <1>1, <1>4, <1>9, StopSpends DEF TypeOK
  <2> QED
    BY <1>2, <1>9, <2>1 DEF ServerStops
<1>10. ASSUME NEW s \in Servers, ServerStarts(s)
       PROVE  closed
  <2>1. pc[s] = "idle"
    BY <1>2, <1>10 DEF ServerStarts
  <2>2. readOnly' = readOnly \cup {s} \/ readOnly' = readOnly \ {s}
    BY <1>10 DEF ServerStarts
  <2> QED
    BY <1>2, <1>10, <2>1, <2>2 DEF ServerStarts
<1>11. ASSUME NEW s \in Servers, PingConnects(s)
       PROVE  closed
  <2>1. s \in up /\ (s # master => s \in readOnly') /\ readOnly \subseteq readOnly'
    BY <1>3, <1>11 DEF PingConnects, Closes
  <2> QED
    BY <1>2, <1>4, <1>11, <2>1 DEF PingConnects, Goto, TypeOK
<1>12. ASSUME NEW s \in Servers, rejoinSlave(s)
       PROVE  closed
  <2>1. readOnly \subseteq readOnly'
    BY <1>12 DEF rejoinSlave
  <2> QED
    BY <1>2, <1>12, <2>1 DEF rejoinSlave
<1>13. ASSUME NEW s \in Servers, Rejoin(s)
       PROVE  closed
  <2>1. \A o \in Servers \ {s} : pc'[o] = pc[o]
    BY <1>4, <1>13
       DEF Rejoin, RejoinMaster, backupBinlog, Refresh, SetReadOnly, rejoinMasterIncremental, ChooseFlashBack,
           rejoinMasterSync, rejoinMasterFlashBack, RejoinMasterSST, Goto, TypeOK
  <2>2. pc[s] # "idle" /\ s \in up /\ up' = up /\ master' = master /\ readOnly \subseteq readOnly'
    BY <1>2, <1>13
       DEF Rejoin, RejoinMaster, backupBinlog, Refresh, SetReadOnly, rejoinMasterIncremental, ChooseFlashBack,
           rejoinMasterSync, rejoinMasterFlashBack, RejoinMasterSST, Closes
  <2> QED
    BY <1>2, <2>1, <2>2
<1> QED
  BY <1>5, <1>6, <1>7, <1>8, <1>9, <1>10, <1>11, <1>12, <1>13 DEF Next

(* Closed holds in every reachable state. *)
LEMMA SpecClosed == Spec => []Closed
<1>1. Init => Closed
  BY DEF Init, Closed
<1> QED
  BY <1>1, NextClosed, SpecLocated, PTL DEF Spec

(* One step that makes a server a replica. *)
LEMMA MadeReplica ==
  ASSUME Located, Closed, [Next]_vars, Quiet', NEW s \in Servers,
         source'[s] \notin {NoServer, source[s]}, source[s] = NoServer \/ s \in failed \/ master' # master
  PROVE  s \in readOnly'
<1>1. TypeOK /\ \A o : ~Fails(o)
  BY QuietStep DEF Located
<1> USE DEF dbVars, roleVars, runVars
<1>2. CASE MasterFailover
  <2>1. PICK c \in Elected :
          /\ source' = [o \in Servers |-> IF o = c THEN NoServer ELSE IF o \in Slaves \cap up THEN c ELSE source[o]]
          /\ readOnly' = (readOnly \cup (Slaves \cap up)) \ {c}
    BY <1>2 DEF MasterFailover
  <2> QED
    BY <2>1
<1>3. ASSUME NEW o \in Servers, rejoinSlave(o)
      PROVE  s \in readOnly'
  <2>1. s = o /\ s \in failed
    BY <1>1, <1>3 DEF rejoinSlave, TypeOK
  <2> QED
    BY <1>1, <1>3, <2>1 DEF rejoinSlave
<1>4. ASSUME NEW o \in Servers, Rejoin(o)
      PROVE  s \in readOnly'
  <2>1. CASE rejoinMasterSync(o) \/ rejoinMasterFlashBack(o) \/ RejoinMasterSST(o)
    <3>1. s = o /\ Started(s) /\ readOnly' = readOnly
      BY <1>1, <2>1 DEF rejoinMasterSync, rejoinMasterFlashBack, RejoinMasterSST, TypeOK, Started
    <3> QED
      BY <3>1, QuietStep DEF Located, Closed, Started
  <2>2. CASE RejoinMaster(o) \/ backupBinlog(o) \/ Refresh(o) \/ SetReadOnly(o) \/ rejoinMasterIncremental(o)
             \/ ChooseFlashBack(o)
    BY <2>2 DEF RejoinMaster, backupBinlog, Refresh, SetReadOnly, rejoinMasterIncremental, ChooseFlashBack
  <2> QED
    BY <1>4, <2>1, <2>2 DEF Rejoin
<1>5. \A o \in Servers : ClientWrites(o) \/ Replicates(o) \/ ServerStops(o) \/ ServerStarts(o) \/ PingFails(o)
                         \/ PingConnects(o) => UNCHANGED source
  BY DEF ClientWrites, Replicates, ServerStops, ServerStarts, PingFails, PingConnects
<1>6. PurgeCrashes \/ UNCHANGED vars => UNCHANGED source
  BY DEF PurgeCrashes, vars
<1> QED
  BY <1>2, <1>3, <1>4, <1>5, <1>6 DEF Next

(* A server that is made a replica is closed for writes by then, whichever  *)
(* way it takes: the rejoin by record closes it itself, a restore relies on *)
(* the Ping that found the server, rejoinSlave sets read_only for a server  *)
(* that was failed and a failover for the replicas it moves.  Nothing is    *)
(* said of a replica that was restarted writable and already points at the  *)
(* master: rejoinSlave returns without a look at it.                        *)
THEOREM ReplicasAreClosed == Spec => ReplicaClosed
<1>1. Located /\ Closed /\ [Next]_vars =>
        [\A s \in Servers :
           /\ source'[s] \notin {NoServer, source[s]} /\ (source[s] = NoServer \/ s \in failed \/ master' # master)
           /\ spent'["error"] + spent'["overlap"] + spent'["busy"] = 0
           => s \in readOnly']_vars
  BY MadeReplica DEF Quiet
<1> QED
  BY <1>1, SpecLocated, SpecClosed, PTL DEF Spec, ReplicaClosed

--------------------------------------------------------------------------------
(* The backup file. *)

(* Every step keeps Alone. *)
LEMMA NextAlone == Located /\ Alone /\ [Next]_vars => Alone'
<1> DEFINE alone == /\ \A s, o \in Servers : Started(s) /\ Started(o) => s = o
                    /\ \A s \in Servers :
                         /\ /\ pc[s] \in {"refresh", "close", "compare", "ahead"} /\ canFlashBack /\ BackupBinlog
                            => s \in saved
                         /\ pc[s] = "flash" => s \in saved
<1> SUFFICES ASSUME Located, Alone, [Next]_vars, (spent["overlap"] + spent["unstarted"] = 0)'
             PROVE  alone'
  BY DEF Alone
<1>1. spent'["overlap"] = 0 /\ spent'["unstarted"] = 0 /\ spent["overlap"] = 0 /\ spent["unstarted"] = 0
  BY Counters DEF Events
<1>2. alone
  BY <1>1 DEF Alone
<1>3. ~Spend("overlap") /\ ~Unstarted
  BY <1>1, Uncounted DEF Located, TypeOK, Events, Unstarted
<1>4. TypeOK
  BY DEF Located
<1>5. CASE UNCHANGED <<pc, saved, canFlashBack>>
  BY <1>2, <1>5 DEF Started
<1>6. ASSUME NEW s \in Servers, PingConnects(s)
      PROVE  alone'
  BY <1>2, <1>4, <1>6 DEF PingConnects, Goto, Started, TypeOK
<1>7. ASSUME NEW s \in Servers, Rejoin(s)
      PROVE  alone'
  <2>1. CASE RejoinMaster(s)
    <3>1. CASE Busy /\ Goto(s, "idle") /\ UNCHANGED <<canFlashBack, crash>>
      <4>1. pc'[s] = "idle" /\ (\A o \in Servers \ {s} : pc'[o] = pc[o]) /\ UNCHANGED <<canFlashBack, saved>>
        BY <1>4, <2>1, <3>1 DEF RejoinMaster, Goto, TypeOK
      <4> QED
        BY <1>2, <4>1 DEF Started
    <3>2. CASE ~(Busy /\ Goto(s, "idle") /\ UNCHANGED <<canFlashBack, crash>>)
      <4>1. \A o \in Servers \ {s} : pc'[o] = "idle"
        BY <1>3, <1>4, <2>1, <3>2 DEF RejoinMaster, Goto, TypeOK
      <4>2. pc'[s] \in {"idle", "sst", "backup"} \/ (~BackupBinlog /\ pc'[s] = "refresh")
        BY <1>4, <2>1 DEF RejoinMaster, Goto, TypeOK, WayBack, Unknown, Incremental
      <4> QED
        BY <4>1, <4>2 DEF Started
    <3> QED
      BY <3>1, <3>2
  <2>2. ASSUME Started(s), \A o \in Servers \ {s} : pc'[o] = pc[o],
               /\ pc'[s] \in {"refresh", "close", "compare", "ahead"} /\ canFlashBack' /\ BackupBinlog => s \in saved',
               pc'[s] = "flash" => s \in saved'
        PROVE  alone'
    BY <1>2, <2>2 DEF Started
  <2>3. CASE backupBinlog(s)
    <3>1. Started(s) /\ pc' = [pc EXCEPT ![s] = Incremental]
      BY <2>3 DEF backupBinlog, Started, Goto
    <3>2. pc'[s] # "flash" /\ \A o \in Servers \ {s} : pc'[o] = pc[o]
      BY <1>4, <3>1 DEF TypeOK, Incremental
    <3>3. canFlashBack' => s \in saved'
      BY <1>3, <2>3 DEF backupBinlog
    <3> QED
      BY <2>2, <3>1, <3>2, <3>3
  <2>4. CASE Refresh(s)
    BY <1>2, <1>4, <2>2, <2>4 DEF Refresh, Goto, TypeOK, Started
  <2>5. CASE SetReadOnly(s)
    BY <1>2, <1>4, <2>2, <2>5 DEF SetReadOnly, Goto, TypeOK, Started
  <2>6. CASE rejoinMasterIncremental(s)
    BY <1>2, <1>4, <2>2, <2>6 DEF rejoinMasterIncremental, Goto, TypeOK, Started
  <2>7. CASE ChooseFlashBack(s)
    <3>1. Started(s) /\ UNCHANGED saved /\ (pc'[s] = "flash" => s \in saved) /\ pc'[s] \in {"flash", "sst"}
      BY <1>2, <1>4, <2>7 DEF ChooseFlashBack, Goto, TypeOK, Started
    <3>2. \A o \in Servers \ {s} : pc'[o] = pc[o]
      BY <1>4, <2>7 DEF ChooseFlashBack, Goto, TypeOK
    <3> QED
      BY <2>2, <3>1, <3>2
  <2>8. CASE rejoinMasterSync(s) \/ rejoinMasterFlashBack(s) \/ RejoinMasterSST(s)
    BY <1>4, <2>2, <2>8 DEF rejoinMasterSync, rejoinMasterFlashBack, RejoinMasterSST, Goto, TypeOK, Started
  <2> QED
    BY <1>7, <2>1, <2>3, <2>4, <2>5, <2>6, <2>7, <2>8 DEF Rejoin
<1>8. ASSUME NEW s \in Servers, ClientWrites(s) \/ Replicates(s) \/ ServerStops(s) \/ ServerStarts(s) \/ PingFails(s)
                                \/ rejoinSlave(s)
      PROVE  UNCHANGED <<pc, saved, canFlashBack>>
  BY <1>8 DEF ClientWrites, Replicates, ServerStops, ServerStarts, PingFails, rejoinSlave, runVars
<1>9. CASE MasterFailover \/ PurgeCrashes \/ UNCHANGED vars
  BY <1>5, <1>9 DEF MasterFailover, PurgeCrashes, vars, runVars
<1> QED
  BY <1>5, <1>6, <1>7, <1>8, <1>9 DEF Next

(* Alone holds in every reachable state. *)
LEMMA SpecAlone == Spec => []Alone
<1>1. Init => Alone
  BY DEF Init, Alone, Started
<1> QED
  BY <1>1, NextAlone, SpecLocated, PTL DEF Spec

(* Transactions are undone only when they are in a backup file: one         *)
(* canFlashBack of the cluster is enough for all servers as long as one     *)
(* server rejoins at a time and the backup command can be started.          *)
THEOREM UndoneIsSaved == Spec => []FlashbackSaved
<1>1. Alone => FlashbackSaved
  BY DEF Alone, FlashbackSaved
<1> QED
  BY <1>1, SpecAlone, PTL

--------------------------------------------------------------------------------
(* The comparison. *)

(* A log that agrees with m up to n, cut at n, is a prefix of m. *)
LEMMA PrefixOfTruncated ==
  ASSUME NEW l \in Seq(Trx), NEW m \in Seq(Trx), NEW n \in Nat, n <= Len(m),
         IsPrefix(l, Truncated(m, n)) \/ IsPrefix(Truncated(m, n), l)
  PROVE  /\ IsPrefix(Truncated(l, n), m)
         /\ Len(l) <= n => IsPrefix(l, m)
<1> DEFINE at == Truncated(m, n)
<1>1. at \in Seq(Trx) /\ Len(at) = n /\ \A i \in 1..n : at[i] = m[i]
  BY DEF Truncated
<1>2. \A i \in 1..n : i <= Len(l) => l[i] = m[i]
  <2>1. CASE IsPrefix(l, at)
    <3>1. \A i \in 1..Len(l) : SubSeq(l, 1, Len(l))[i] = l[i] /\ SubSeq(at, 1, Len(l))[i] = at[i]
      BY <1>1, <2>1 DEF IsPrefix
    <3> HIDE DEF at
    <3> QED
      BY <1>1, <2>1, <3>1 DEF IsPrefix
  <2>2. CASE IsPrefix(at, l)
    <3>1. \A i \in 1..n : SubSeq(at, 1, n)[i] = at[i] /\ SubSeq(l, 1, n)[i] = l[i]
      BY <1>1, <2>2 DEF IsPrefix
    <3> HIDE DEF at
    <3> QED
      BY <1>1, <2>2, <3>1 DEF IsPrefix
  <2> QED
    BY <2>1, <2>2
<1>3. ASSUME NEW k \in Seq(Trx), Len(k) <= n, \A i \in 1..Len(k) : k[i] = m[i]
      PROVE  IsPrefix(k, m)
  <2>1. SubSeq(k, 1, Len(k)) = SubSeq(m, 1, Len(k))
    BY <1>3
  <2> QED
    BY <1>3, <2>1 DEF IsPrefix
<1>4. /\ Truncated(l, n) \in Seq(Trx) /\ Len(Truncated(l, n)) <= n /\ Len(Truncated(l, n)) <= Len(l)
      /\ \A i \in 1..Len(Truncated(l, n)) : Truncated(l, n)[i] = l[i]
  BY DEF Truncated
<1>5. IsPrefix(Truncated(l, n), m)
  <2>1. \A i \in 1..Len(Truncated(l, n)) : Truncated(l, n)[i] = m[i]
    BY <1>2, <1>4
  <2> QED
    BY <1>3, <1>4, <2>1
<1>6. Len(l) <= n => IsPrefix(l, m)
  BY <1>2, <1>3
<1> QED
  BY <1>5, <1>6

(* The log of the master grows, and the record of a new failover is made of *)
(* the log of the new master.                                               *)
LEMMA LastRecord ==
  ASSUME Located, [Next]_vars, Crashes # <<>> => Last(Crashes).FailoverIOGtid[2] <= Len(log[master])
  PROVE  (Crashes # <<>> => Last(Crashes).FailoverIOGtid[2] <= Len(log[master]))'
<1> USE DEF Located, dbVars, roleVars, runVars
<1>1. CASE MasterFailover
  <2>1. PICK c \in Elected : master' = c /\ Crashes' = Append(Crashes, Crash(master, c, Gtid(log[c])))
    BY <1>1 DEF MasterFailover
  <2>2. c \in Servers /\ log' = log
    BY <1>1 DEF Elected, Slaves, MasterFailover
  <2>3. Crash(master, c, Gtid(log[c])) \in Records
    BY <2>2, GtidType, BoundAssumption DEF TypeOK, Records, Crash, Events
  <2>4. Last(Crashes') = Crash(master, c, Gtid(log[c]))
    BY <2>1, <2>3 DEF Last, TypeOK, Records
  <2>5. Gtid(log[c])[2] <= Len(log[c])
    BY <2>2 DEF Gtid, TypeOK
  <2> QED
    BY <2>1, <2>2, <2>4, <2>5 DEF Crash
<1>2. CASE PurgeCrashes
  BY <1>2 DEF PurgeCrashes
<1>3. ASSUME UNCHANGED <<Crashes, master>>, Len(log[master]) <= Len(log'[master])
      PROVE  (Crashes # <<>> => Last(Crashes).FailoverIOGtid[2] <= Len(log[master]))'
  <2>1. CASE Crashes = <<>>
    BY <1>3, <2>1
  <2>2. CASE Crashes # <<>>
    <3>1. Last(Crashes) \in Records
      <4>1. Crashes \in Seq(Records)
        BY DEF TypeOK, Records
      <4> QED
        BY <2>2, <4>1 DEF Last
    <3>2. Last(Crashes).FailoverIOGtid[2] \in Nat
      BY <3>1 DEF Records, Gtids
    <3>3. log[master] \in Seq(Trx) /\ log'[master] \in Seq(Trx)
      BY NextLocated DEF TypeOK
    <3>4. Len(log[master]) \in Nat /\ Len(log'[master]) \in Nat
      BY <3>3
    <3>5. Last(Crashes).FailoverIOGtid[2] <= Len(log'[master])
      BY <1>3, <2>2, <3>2, <3>4
    <3> QED
      BY <1>3, <3>5 DEF Last
  <2> QED
    BY <2>1, <2>2
<1>4. log[master] \in Seq(Trx)
  BY DEF TypeOK
<1>5. ASSUME NEW s \in Servers, ClientWrites(s) \/ Replicates(s)
      PROVE  UNCHANGED <<Crashes, master>> /\ Len(log[master]) <= Len(log'[master])
  <2>1. UNCHANGED <<Crashes, master>> /\ \E t : log' = [log EXCEPT ![s] = Append(@, t)]
    BY <1>5 DEF ClientWrites, Replicates
  <2>2. log \in [Servers -> Seq(Trx)] /\ log' \in [Servers -> Seq(Trx)]
    BY NextLocated DEF TypeOK
  <2>3. PICK t : log' = [log EXCEPT ![s] = Append(@, t)]
    BY <2>1
  <2>4. log'[master] = log[master] \/ log'[master] = Append(log[master], t)
    BY <2>2, <2>3
  <2>5. Len(Append(log[master], t)) = Len(log[master]) + 1 /\ Len(log[master]) \in Nat
    BY <1>4
  <2> QED
    BY <2>1, <2>4, <2>5
<1>6. ASSUME NEW s \in Servers, Rejoin(s)
      PROVE  UNCHANGED <<Crashes, master>> /\ log'[master] = log[master]
  BY <1>6
     DEF Rejoin, RejoinMaster, backupBinlog, Refresh, SetReadOnly, rejoinMasterIncremental, ChooseFlashBack,
         rejoinMasterSync, rejoinMasterFlashBack, RejoinMasterSST, TypeOK, Started
<1>7. ASSUME NEW s \in Servers, ServerStops(s) \/ ServerStarts(s) \/ PingFails(s) \/ PingConnects(s) \/ rejoinSlave(s)
      PROVE  UNCHANGED <<Crashes, master, log>>
  BY <1>7 DEF ServerStops, ServerStarts, PingFails, PingConnects, rejoinSlave
<1>8. CASE UNCHANGED vars
  BY <1>3, <1>4, <1>8 DEF vars
<1> QED
  BY <1>1, <1>2, <1>3, <1>4, <1>5, <1>6, <1>7, <1>8 DEF Next

(* Every step keeps Compared. *)
LEMMA NextCompared == Located /\ Closed /\ Compared /\ [Next]_vars => Compared'
<1> DEFINE known == \A s \in Servers :
                      /\ pc[s] \in {"close", "compare", "ahead", "sync", "flash"} => CurrentGtid[s] = Gtid(log[s])
                      /\ pc[s] = "sync" => Behind(s)
<1> SUFFICES ASSUME Located, Closed, Compared, [Next]_vars, Undisturbed'
             PROVE  known'
  BY LastRecord DEF Compared
<1>1. /\ spent'["error"] = 0 /\ spent'["overlap"] = 0
      /\ spent["error"] = 0 /\ spent["overlap"] = 0 /\ spent["unstarted"] = 0 /\ spent["busy"] = 0
  <2>1. /\ spent["error"] \in Nat /\ spent'["error"] \in Nat /\ spent["error"] <= spent'["error"]
        /\ spent["overlap"] \in Nat /\ spent'["overlap"] \in Nat /\ spent["overlap"] <= spent'["overlap"]
        /\ spent["unstarted"] \in Nat /\ spent'["unstarted"] \in Nat /\ spent["unstarted"] <= spent'["unstarted"]
        /\ spent["busy"] \in Nat /\ spent'["busy"] \in Nat /\ spent["busy"] <= spent'["busy"]
    BY Counters DEF Events
  <2>2. spent'["error"] + spent'["overlap"] + spent'["unstarted"] + spent'["busy"] = 0
    BY DEF Undisturbed
  <2>3. \A a, b, c, d \in Nat : a + b + c + d = 0 => a = 0 /\ b = 0 /\ c = 0 /\ d = 0
    OBVIOUS
  <2>4. spent'["error"] = 0 /\ spent'["overlap"] = 0 /\ spent'["unstarted"] = 0 /\ spent'["busy"] = 0
    BY <2>1, <2>2, <2>3, Zenon
  <2> QED
    BY <2>1, <2>4
<1>2. known
  BY <1>1 DEF Compared, Undisturbed
<1>3. (\A s : ~Fails(s)) /\ ~Spend("error") /\ ~Spend("overlap")
  BY <1>1, Uncounted DEF Located, TypeOK, Events
<1>4. TypeOK
  BY DEF Located
<1>5. \A s \in Servers : Started(s) => s \in readOnly /\ source[s] = NoServer /\ s # master
  BY <1>1 DEF Closed, Quiet, Located, Started
<1>6. ASSUME UNCHANGED <<pc, CurrentGtid, crash>>, \A s \in Servers : Started(s) => log'[s] = log[s]
      PROVE  known'
  BY <1>2, <1>6 DEF Started, Behind, Recorded
<1> USE DEF dbVars, roleVars, runVars
<1>7. ASSUME NEW s \in Servers, ClientWrites(s) \/ Replicates(s)
      PROVE  known'
  <2>1. ~Started(s)
    BY <1>4, <1>5, <1>7, ServersAssumption DEF ClientWrites, Replicates, TypeOK
  <2>2. \A o \in Servers \ {s} : log'[o] = log[o]
    BY <1>4, <1>7 DEF ClientWrites, Replicates, TypeOK
  <2> QED
    BY <1>6, <1>7, <2>1, <2>2 DEF ClientWrites, Replicates
<1>8. ASSUME NEW s \in Servers, ServerStops(s) \/ ServerStarts(s) \/ PingFails(s) \/ rejoinSlave(s)
      PROVE  known'
  BY <1>6, <1>8 DEF ServerStops, ServerStarts, PingFails, rejoinSlave
<1>9. CASE MasterFailover \/ PurgeCrashes \/ UNCHANGED vars
  BY <1>6, <1>9 DEF MasterFailover, PurgeCrashes, vars
<1>10. ASSUME NEW s \in Servers,
              \A o \in Servers \ {s} : /\ pc'[o] = pc[o] /\ CurrentGtid'[o] = CurrentGtid[o]
                                       /\ crash'[o] = crash[o] /\ log'[o] = log[o],
              pc'[s] \in {"close", "compare", "ahead", "sync", "flash"} => CurrentGtid'[s] = Gtid(log'[s]),
              pc'[s] = "sync" => Behind(s)'
       PROVE  known'
  BY <1>2, <1>10 DEF Behind, Recorded
<1>11. ASSUME NEW s \in Servers, PingConnects(s)
       PROVE  known'
  BY <1>4, <1>10, <1>11 DEF PingConnects, Goto, TypeOK
<1>12. ASSUME NEW s \in Servers, Rejoin(s)
       PROVE  known'
  <2>1. CASE RejoinMaster(s)
    <3>1. pc'[s] \in {"idle", "sst", "backup", "refresh"}
      BY <1>4, <2>1 DEF RejoinMaster, Goto, TypeOK, WayBack, Unknown, Incremental
    <3>2. \A o \in Servers \ {s} : /\ pc'[o] = pc[o] /\ CurrentGtid'[o] = CurrentGtid[o]
                                   /\ crash'[o] = crash[o] /\ log'[o] = log[o]
      BY <1>4, <2>1 DEF RejoinMaster, Goto, TypeOK
    <3> QED
      BY <1>10, <3>1, <3>2
  <2>2. CASE backupBinlog(s)
    BY <1>4, <1>10, <2>2 DEF backupBinlog, Goto, TypeOK, Incremental
  <2>3. CASE Refresh(s)
    BY <1>3, <1>4, <1>10, <2>3 DEF Refresh, Goto, TypeOK
  <2>4. CASE SetReadOnly(s)
    BY <1>2, <1>4, <1>10, <2>4 DEF SetReadOnly, Goto, TypeOK
  <2>5. CASE rejoinMasterIncremental(s)
    <3>1. PICK ahead \in BOOLEAN :
            isReplicationAheadOfMasterElection(s, ahead) /\ Goto(s, IF ahead THEN "ahead" ELSE "sync")
      BY <2>5 DEF rejoinMasterIncremental
    <3>2. UNCHANGED <<log, crash, CurrentGtid>> /\ CurrentGtid[s] = Gtid(log[s])
      BY <1>2, <2>5 DEF rejoinMasterIncremental
    <3>3. ~ahead => Behind(s)
      <4>1. GetSeqServerIdNos(CurrentGtid[s], s) \in Nat /\ Recorded(s) \in Nat
        BY <1>4 DEF GetSeqServerIdNos, Recorded, TypeOK, Gtids
      <4> QED
        BY <1>3, <3>1, <4>1 DEF isReplicationAheadOfMasterElection, Behind
    <3>4. pc'[s] \in {"ahead", "sync"} /\ (pc'[s] = "sync" => ~ahead) /\ \A o \in Servers \ {s} : pc'[o] = pc[o]
      BY <1>4, <3>1 DEF Goto, TypeOK
    <3>5. Behind(s) => Behind(s)'
      BY <3>2 DEF Behind, Recorded
    <3> QED
      BY <1>10, <3>2, <3>3, <3>4, <3>5
  <2>6. CASE ChooseFlashBack(s)
    BY <1>2, <1>4, <1>10, <2>6 DEF ChooseFlashBack, Goto, TypeOK
  <2>7. CASE rejoinMasterSync(s) \/ rejoinMasterFlashBack(s) \/ RejoinMasterSST(s)
    <3>1. pc'[s] \in {"idle", "sst"} /\ \A o \in Servers \ {s} : pc'[o] = pc[o] /\ log'[o] = log[o]
      BY <1>4, <2>7 DEF rejoinMasterSync, rejoinMasterFlashBack, RejoinMasterSST, Goto, TypeOK
    <3>2. UNCHANGED <<crash, CurrentGtid>>
      BY <2>7 DEF rejoinMasterSync, rejoinMasterFlashBack, RejoinMasterSST
    <3> QED
      BY <1>10, <3>1, <3>2
  <2> QED
    BY <1>12, <2>1, <2>2, <2>3, <2>4, <2>5, <2>6, <2>7 DEF Rejoin
<1> QED
  BY <1>7, <1>8, <1>9, <1>11, <1>12 DEF Next

(* Compared holds in every reachable state. *)
LEMMA SpecCompared == Spec => []Compared
<1>1. Init => Compared
  BY DEF Init, Compared
<1> QED
  BY <1>1, NextCompared, SpecLocated, SpecClosed, PTL DEF Spec

(* One step of a server that comes back without a restore. *)
LEMMA ReturnsInPlace ==
  ASSUME Located, Alone, Compared, Undisturbed, [Next]_vars,
         NEW s \in Servers, pc[s] \in {"sync", "flash"}, source'[s] # source[s],
         Crashes # <<>>, crash[s] = Last(Crashes), OneHistory(s, crash[s]), log[s] # <<>>, Last(log[s])[1] = s
  PROVE  IsPrefix(log'[s], log[master])
<1> DEFINE n == crash[s].FailoverIOGtid[2]
<1> USE DEF dbVars, roleVars, runVars
<1>1. TypeOK /\ s # master /\ source[s] = NoServer
  BY DEF Located, Started
<1>2. log[s] \in Seq(Trx) /\ log[master] \in Seq(Trx) /\ n \in Nat /\ n <= Len(log[master])
  BY <1>1 DEF Compared, TypeOK, Gtids
<1>3. IsPrefix(log[s], Truncated(log[master], n)) \/ IsPrefix(Truncated(log[master], n), log[s])
  BY DEF OneHistory
<1>4. /\ IsPrefix(Truncated(log[s], n), log[master])
      /\ Len(log[s]) <= n => IsPrefix(log[s], log[master])
  <2> HIDE DEF n
  <2> QED
    BY <1>2, <1>3, PrefixOfTruncated
<1>5. rejoinMasterSync(s) \/ rejoinMasterFlashBack(s)
  <2>1. ~MasterFailover
    BY <1>1 DEF MasterFailover, Elected, Slaves, TypeOK
  <2>2. \A o \in Servers : ClientWrites(o) \/ Replicates(o) \/ ServerStops(o) \/ ServerStarts(o) \/ PingFails(o)
                           \/ PingConnects(o) => UNCHANGED source
    BY DEF ClientWrites, Replicates, ServerStops, ServerStarts, PingFails, PingConnects
  <2>3. \A o \in Servers : rejoinSlave(o) => source'[s] = source[s]
    BY <1>1 DEF rejoinSlave, TypeOK
  <2>4. \A o \in Servers \ {s} : Rejoin(o) => source'[s] = source[s]
    BY <1>1 DEF Rejoin, RejoinMaster, backupBinlog, Refresh, SetReadOnly, rejoinMasterIncremental, ChooseFlashBack,
                rejoinMasterSync, rejoinMasterFlashBack, RejoinMasterSST, TypeOK
  <2>5. Rejoin(s) => rejoinMasterSync(s) \/ rejoinMasterFlashBack(s)
    BY DEF Rejoin, RejoinMaster, backupBinlog, Refresh, SetReadOnly, rejoinMasterIncremental, ChooseFlashBack,
           RejoinMasterSST
  <2> QED
    BY <2>1, <2>2, <2>3, <2>4, <2>5 DEF Next, PurgeCrashes, vars
<1>6. CASE rejoinMasterSync(s)
  <2>1. pc[s] = "sync" /\ log' = log
    BY <1>6 DEF rejoinMasterSync
  <2>2. Behind(s) /\ CurrentGtid[s] = Gtid(log[s])
    BY <2>1 DEF Compared
  <2>3. GetSeqServerIdNos(CurrentGtid[s], s) = Len(log[s])
    BY <2>2 DEF Gtid, GetSeqServerIdNos
  <2>4. Recorded(s) # 0 /\ Len(log[s]) <= Recorded(s)
    BY <2>2, <2>3 DEF Behind
  <2>5. Len(log[s]) <= n
    BY <2>4 DEF Recorded, GetSeqServerIdNos
  <2> QED
    BY <1>4, <2>1, <2>5
<1>7. CASE rejoinMasterFlashBack(s)
  <2>1. pc[s] = "flash"
    BY <1>7 DEF rejoinMasterFlashBack
  <2>2. s \in saved
    BY <1>1, <2>1 DEF Alone, Undisturbed, TypeOK, Events
  <2>3. log' = [log EXCEPT ![s] = Truncated(@, n)]
    BY <1>7, <2>2 DEF rejoinMasterFlashBack
  <2> QED
    BY <1>1, <1>4, <2>3 DEF TypeOK
<1> QED
  BY <1>5, <1>6, <1>7

(* A server let back without a restore has no transaction that the master   *)
(* lacks.  RejoinMaster knows it from one sequence number of one server id; *)
(* the argument needs that the server was closed before its position was    *)
(* read, that nobody wrote into it since, that its file was saved, and that *)
(* the log of the elected master has only grown.                            *)
THEOREM ComesBackInPlace == Spec => InPlace
<1>1. Located /\ Alone /\ Compared /\ [Next]_vars =>
        [\A s \in Servers :
           /\ pc[s] \in {"sync", "flash"} /\ source'[s] # source[s] /\ Undisturbed
           /\ Crashes # <<>> /\ crash[s] = Last(Crashes) /\ OneHistory(s, crash[s])
           /\ log[s] # <<>> /\ Last(log[s])[1] = s
           => IsPrefix(log'[s], log[master])]_vars
  BY ReturnsInPlace
<1> QED
  BY <1>1, SpecLocated, SpecAlone, SpecCompared, PTL DEF Spec, InPlace

=================================================================================
