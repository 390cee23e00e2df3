------------------------------- MODULE Failover --------------------------------
(***************************************************************************)
(* The change of the master of a master-slave cluster under one manager.   *)
(* MasterFailover runs in several goroutines: the cluster loop starts it   *)
(* after CheckFailed or on a signal, API handlers call it directly, and    *)
(* nothing but the InFailover flag of the state machine keeps them apart.  *)
(* One step here is one statement on a remote database or one stretch of   *)
(* code between two such statements.  The shared fields cluster.master,    *)
(* cluster.oldMaster and cluster.slaves are read again by each step, as    *)
(* the code does.                                                          *)
(*                                                                         *)
(* The configuration is a MariaDB cluster with GTID and two or more        *)
(* servers, failover-readonly-state on, autorejoin, arbitration, relay and *)
(* multi-master options off, and no minimum time between failovers.  The   *)
(* topology has been discovered; the discovery itself and the failure of a *)
(* slave belong to another module.                                         *)
(*                                                                         *)
(* The database servers are modelled as far as the code relies on them:    *)
(* read_only, the server they replicate from, the transactions they have   *)
(* executed and those waiting in their relay log, and whether their        *)
(* gtid_slave_pos is still empty.                                          *)
(***************************************************************************)
EXTENDS Naturals, FiniteSets

CONSTANTS
  Servers,     \* the database servers
  NoServer,    \* nil
  Loop,        \* the goroutine of Cluster.Run
  Api,         \* goroutines of API handlers
  FailLimit,   \* failover-limit, 0 for no limit
  MaxTrx,      \* bound: transactions written by clients
  MaxCall,     \* bound: calls of the API and signals to the loop
  MaxFalse,    \* bound: a master that is up is declared failed
  MaxCrash,    \* bound: servers that stop
  MaxError     \* bound: SQL statements that fail on a server that is up

ASSUME NoServerAssumption == NoServer \notin Servers
ASSUME LoopAssumption == Loop \notin Api
ASSUME FiniteAssumption == IsFiniteSet(Servers)
ASSUME BoundAssumption == {FailLimit, MaxTrx, MaxCall, MaxFalse, MaxCrash, MaxError} \subseteq Nat

VARIABLES
  up,          \* servers that run
  readOnly,    \* servers with read_only=1
  source,      \* the server a running replication reads from
  log,         \* transactions a server has executed
  relay,       \* transactions in its relay log, executed or not
  applied,     \* servers with a gtid_slave_pos that is not empty
  failed,      \* servers in state Failed
  pinging,     \* servers whose Ping is past its test of the flag
  master,      \* cluster.master
  oldMaster,   \* cluster.oldMaster
  slaves,      \* cluster.slaves
  inFailover,  \* StateMachine.InFailover
  failoverCtr, \* cluster.FailoverCtr
  crashes,     \* cluster.Crashes
  pc,          \* where a goroutine is
  fail,        \* argument of its MasterFailover
  list,        \* the slaves its index or its range loop refers to
  cand,        \* the slave it has elected, or is moving
  io,          \* the received position it compares with in ReadAllRelayLogs
  crash,       \* its crash record
  spent        \* environment steps taken, against the bounds

dbVars   == <<up, readOnly, source, log, relay, applied>>
viewVars == <<failed, pinging>>
roleVars == <<master, oldMaster, slaves>>
localVars == <<fail, list, cand, io, crash>>
runVars  == <<inFailover, failoverCtr, crashes, pc, fail, list, cand, io, crash>>
vars == <<up, readOnly, source, log, relay, applied, failed, pinging, master, oldMaster, slaves,
          inFailover, failoverCtr, crashes, pc, fail, list, cand, io, crash, spent>>

Threads == {Loop} \cup Api
Trx == 1..MaxTrx
Sources == Servers \cup {NoServer}

(* What getCrashFromJoiner and the rejoin of url read later: the position   *)
(* the elected server had received when the roles changed.                  *)
Crash == [url : Sources, elected : Sources, pos : SUBSET Trx, failover : BOOLEAN]
NoCrash == [url |-> NoServer, elected |-> NoServer, pos |-> {}, failover |-> FALSE]

(* Where a goroutine is in MasterFailover: before the exchange of the roles *)
(* and after it.                                                            *)
Electing == {"elect", "promote"}
Changing == {"freeze", "sync", "wait", "cached", "status", "stop", "open", "demote", "switch",
             "slaves", "change"}
Steps == {"idle", "called", "enter", "proxy", "dead"} \cup Electing \cup Changing

(* The last kind is not bounded: ReadAllRelayLogs did not wait.             *)
Events == {"call", "false", "crash", "error", "unread"}
Spend(e) == spent' = [spent EXCEPT ![e] = @ + 1]
Goto(p, l) == pc' = [pc EXCEPT ![p] = l]

(* The statements of one step on s succeed together or fail together: s is  *)
(* down, or its connection breaks.                                          *)
Succeeds(s) == s \in up /\ UNCHANGED spent
Fails(s) == \/ s \notin up /\ UNCHANGED spent
            \/ s \in up /\ spent["error"] < MaxError /\ Spend("error")

--------------------------------------------------------------------------------
(* The callers of MasterFailover. *)

Received(s) == log[s] \cup relay[s]

(* isSlaveElectable: the server answers and replicates.  A switchover also  *)
(* needs a valid Seconds_Behind_Master, which the loss of the source voids. *)
isSlaveElectable(s) == s \in up /\ source[s] # NoServer
isSlaveElectableForSwitchover(s) == isSlaveElectable(s) /\ source[s] \in up

(* The position of a slave: received when the master is failed, executed    *)
(* otherwise.                                                               *)
Position(s) == Cardinality(IF master \in failed THEN Received(s) ELSE log[s])

(* Mutant: any electable slave will do. *)
electFailoverCandidateAny == {s \in slaves : isSlaveElectable(s)}
(* electFailoverCandidate: an electable slave at the highest position.      *)
electFailoverCandidate ==
  {s \in slaves : /\ isSlaveElectable(s)
                  /\ \A o \in slaves : isSlaveElectable(o) => Position(o) <= Position(s)}

(* The last status of a slave that does not answer any more still counts    *)
(* for the highest position: when it is ahead nobody is elected.            *)
LastStatusAhead(c) == \E o \in slaves \ up : Position(o) > Position(c)

(* electSwitchoverCandidate: the preferred host, which the caller may name, *)
(* or the one with the highest position.                                    *)
electSwitchoverCandidate == {s \in slaves : isSlaveElectableForSwitchover(s)}

isMaxClusterFailoverCountNotReached == FailLimit = 0 \/ failoverCtr # FailLimit

Calls(p, f) == fail' = [fail EXCEPT ![p] = f] /\ Goto(p, "called")

(* CheckFailed in the loop, once the Pings of the tick are over. *)
CheckFailed ==
  /\ pc[Loop] = "idle" /\ pinging = {}
  /\ ~inFailover
  /\ electFailoverCandidate # {}
  /\ isMaxClusterFailoverCountNotReached
  /\ master \in failed
  /\ Calls(Loop, TRUE)
  /\ UNCHANGED <<dbVars, viewVars, roleVars, inFailover, failoverCtr, crashes, list, cand, io, crash, spent>>

(* Run receives from switchoverChan. *)
SwitchoverSignal ==
  /\ pc[Loop] = "idle" /\ pinging = {}
  /\ spent["call"] < MaxCall /\ Spend("call")
  /\ Calls(Loop, FALSE)
  /\ UNCHANGED <<dbVars, viewVars, roleVars, inFailover, failoverCtr, crashes, list, cand, io, crash>>

handlerMuxFailover(p) ==
  /\ pc[p] = "idle"
  /\ spent["call"] < MaxCall /\ Spend("call")
  /\ Calls(p, TRUE)
  /\ UNCHANGED <<dbVars, viewVars, roleVars, inFailover, failoverCtr, crashes, list, cand, io, crash>>

handlerMuxSwitchover(p) ==
  /\ pc[p] = "idle"
  /\ spent["call"] < MaxCall /\ Spend("call")
  /\ master \notin failed
  /\ Calls(p, FALSE)
  /\ UNCHANGED <<dbVars, viewVars, roleVars, inFailover, failoverCtr, crashes, list, cand, io, crash>>

(* AddSeededProxy and RemoveProxyMonitor raise the flag while they change   *)
(* the proxy list.                                                          *)
AddSeededProxy(p) ==
  /\ pc[p] = "idle"
  /\ spent["call"] < MaxCall /\ Spend("call")
  /\ inFailover' = TRUE
  /\ Goto(p, "proxy")
  /\ UNCHANGED <<dbVars, viewVars, roleVars, failoverCtr, crashes, localVars>>

AddSeededProxyEnd(p) ==
  /\ pc[p] = "proxy"
  /\ inFailover' = FALSE
  /\ Goto(p, "idle")
  /\ UNCHANGED <<dbVars, viewVars, roleVars, failoverCtr, crashes, localVars, spent>>

--------------------------------------------------------------------------------
(* MasterFailover. *)

(* The test of the flag, and the assignment: two critical sections. *)
IsInFailover(p) ==
  /\ pc[p] = "called"
  /\ Goto(p, IF inFailover THEN "idle" ELSE "enter")
  /\ UNCHANGED <<dbVars, viewVars, roleVars, inFailover, failoverCtr, crashes, localVars, spent>>

SetFailoverState(p) ==
  /\ pc[p] = "enter"
  /\ inFailover' = TRUE
  /\ Goto(p, "elect")
  /\ UNCHANGED <<dbVars, viewVars, roleVars, failoverCtr, crashes, localVars, spent>>

Leave(p) == inFailover' = FALSE /\ Goto(p, "idle")

(* Mutant: an early return that skips the deferred RemoveFailoverState. *)
CancelKeepsFlag(p) ==
  /\ pc[p] = "elect"
  /\ \/ ~fail[p]
     \/ \A c \in electFailoverCandidate : LastStatusAhead(c)
  /\ Goto(p, "idle")
  /\ UNCHANGED <<dbVars, viewVars, roleVars, inFailover, failoverCtr, crashes, localVars, spent>>

(* A switchover is given up: no connection, long writes, the tables cannot  *)
(* be flushed in time, no candidate.  A failover is given up without one.   *)
Cancel(p) ==
  /\ pc[p] = "elect"
  /\ \/ ~fail[p]
     \/ \A c \in electFailoverCandidate : LastStatusAhead(c)
  /\ Leave(p)
  /\ UNCHANGED <<dbVars, viewVars, roleVars, failoverCtr, crashes, localVars, spent>>

(* The slaves are refreshed and one is elected: an index in cluster.slaves. *)
(* The refresh is the last look at its position if the next one fails.      *)
Elect(p) ==
  /\ pc[p] = "elect"
  /\ \E c \in IF fail[p] THEN electFailoverCandidate ELSE electSwitchoverCandidate :
       /\ cand' = [cand EXCEPT ![p] = c]
       /\ crash' = [crash EXCEPT ![p] = [NoCrash EXCEPT !.pos = Received(c)]]
  /\ list' = [list EXCEPT ![p] = slaves]
  /\ Goto(p, "promote")
  /\ UNCHANGED <<dbVars, viewVars, roleVars, inFailover, failoverCtr, crashes, fail, io, spent>>

(* The servers cluster.slaves[key] may name: the elected one, or any when   *)
(* the list has changed since.                                              *)
Named(p) == IF slaves = list[p] THEN {cand[p]} ELSE slaves

CancelElected(p) ==
  /\ pc[p] = "promote"
  /\ fail[p] /\ \E c \in Named(p) : ~isSlaveElectable(c)
  /\ Leave(p)
  /\ UNCHANGED <<dbVars, viewVars, roleVars, failoverCtr, crashes, localVars, spent>>

(* Mutant: the elected server stays in the list of slaves. *)
PromoteKeeps(p) ==
  /\ pc[p] = "promote"
  /\ \E c \in Named(p) :
       /\ fail[p] => isSlaveElectable(c)
       /\ master' = c
       /\ failed' = failed \ {c}
  /\ oldMaster' = master
  /\ Goto(p, IF fail[p] THEN "sync" ELSE "freeze")
  /\ UNCHANGED <<dbVars, pinging, slaves, inFailover, failoverCtr, crashes, localVars, spent>>

(* Mutant: the old master is not remembered. *)
PromoteForgets(p) ==
  /\ pc[p] = "promote"
  /\ \E c \in Named(p) :
       /\ fail[p] => isSlaveElectable(c)
       /\ master' = c
       /\ slaves' = slaves \ {c}
       /\ failed' = failed \ {c}
  /\ Goto(p, IF fail[p] THEN "sync" ELSE "freeze")
  /\ UNCHANGED <<dbVars, pinging, oldMaster, inFailover, failoverCtr, crashes, localVars, spent>>

(* The exchange of the roles. *)
Promote(p) ==
  /\ pc[p] = "promote"
  /\ \E c \in Named(p) :
       /\ fail[p] => isSlaveElectable(c)
       /\ master' = c
       /\ slaves' = slaves \ {c}
       /\ failed' = failed \ {c}
  /\ oldMaster' = master
  /\ Goto(p, IF fail[p] THEN "sync" ELSE "freeze")
  /\ UNCHANGED <<dbVars, pinging, inFailover, failoverCtr, crashes, localVars, spent>>

(* A panic: the index is out of the shortened list, or the new master has   *)
(* no replication status.  The HTTP server recovers that of a handler; that *)
(* of the loop ends the process.  The deferred RemoveFailoverState runs.    *)
Panic(p) ==
  /\ \/ pc[p] = "promote" /\ slaves # list[p]
     \/ pc[p] = "status" /\ source[master] = NoServer
  /\ inFailover' = FALSE
  /\ pc' = IF p = Loop THEN [q \in Threads |-> "dead"] ELSE [pc EXCEPT ![p] = "idle"]
  /\ UNCHANGED <<dbVars, viewVars, roleVars, failoverCtr, crashes, localVars, spent>>

(* Mutant: read_only is left to the demotion at the end. *)
freezeNothing(p) ==
  /\ pc[p] = "freeze"
  /\ Goto(p, "sync")
  /\ UNCHANGED <<dbVars, viewVars, roleVars, inFailover, failoverCtr, crashes, localVars, spent>>

(* freeze on the old master; MasterFailover ignores its result. *)
freeze(p) ==
  /\ pc[p] = "freeze"
  /\ \/ /\ Succeeds(oldMaster)
        /\ readOnly' = readOnly \cup {oldMaster}
        /\ source' = [source EXCEPT ![oldMaster] = NoServer]
     \/ Fails(oldMaster) /\ UNCHANGED <<readOnly, source>>
  /\ Goto(p, "sync")
  /\ UNCHANGED <<up, log, relay, applied, viewVars, roleVars, inFailover, failoverCtr, crashes, localVars>>

(* ReadAllRelayLogs: SHOW SLAVE STATUS gives the received position to wait  *)
(* for.  It is not waited for when gtid_slave_pos is empty: a replica that  *)
(* has executed nothing yet may have a relay log all the same.              *)
GetMSlaveStatus(p) ==
  /\ pc[p] = "sync"
  /\ \/ /\ Succeeds(master) /\ master \in applied
        /\ io' = [io EXCEPT ![p] = Received(master)]
        /\ Goto(p, "wait")
     \/ /\ master \in up \ applied /\ Spend("unread")
        /\ Goto(p, "cached")
        /\ UNCHANGED io
     \/ Fails(master) /\ Goto(p, "status") /\ UNCHANGED io
  /\ UNCHANGED <<dbVars, viewVars, roleVars, inFailover, failoverCtr, crashes, fail, list, cand, crash>>

(* Mutant: the relay log is not waited for. *)
ReadAllRelayLogsNot(p) ==
  /\ pc[p] = "wait"
  /\ Goto(p, "cached")
  /\ UNCHANGED <<dbVars, viewVars, roleVars, inFailover, failoverCtr, crashes, localVars, spent>>

(* The first comparison is of gtid_slave_pos with a received position that  *)
(* was read before it, and the replications are fetched after both.  In the *)
(* loop the status comes last: it ends when all that is received has been   *)
(* executed, or when the server is in state Failed.  An error is only       *)
(* logged.                                                                  *)
ReadAllRelayLogs(p) ==
  /\ pc[p] = "wait"
  /\ \/ /\ Succeeds(master) /\ log[master] = io[p]
        /\ Goto(p, "cached")
        /\ UNCHANGED crash
     \/ /\ Succeeds(master)
        /\ relay[master] \subseteq log[master] \/ master \in failed
        /\ crash' = [crash EXCEPT ![p].pos = Received(master)]
        /\ Goto(p, "status")
     \/ Fails(master) /\ Goto(p, "status") /\ UNCHANGED crash
  /\ io' = [io EXCEPT ![p] = {}]
  /\ UNCHANGED <<dbVars, viewVars, roleVars, inFailover, failoverCtr, crashes, fail, list, cand>>

(* The rest of the first Refresh: the received position of this moment, the *)
(* one the crash record takes, is cached in Replications.                   *)
RefreshReplications(p) ==
  /\ pc[p] = "cached"
  /\ \/ Succeeds(master) /\ crash' = [crash EXCEPT ![p].pos = Received(master)]
     \/ Fails(master) /\ UNCHANGED crash
  /\ Goto(p, "status")
  /\ UNCHANGED <<dbVars, viewVars, roleVars, inFailover, failoverCtr, crashes, fail, list, cand, io>>

(* The crash record: the roles of this moment, the position last seen. *)
SaveCrashInfo(p) ==
  /\ pc[p] = "status"
  /\ crash' = [crash EXCEPT ![p] = [url |-> oldMaster, elected |-> master,
                                    pos |-> @.pos, failover |-> fail[p]]]
  /\ Goto(p, "stop")
  /\ UNCHANGED <<dbVars, viewVars, roleVars, inFailover, failoverCtr, crashes, fail, list, cand, io, spent>>

(* STOP SLAVE, the crash record is kept, RESET SLAVE drops the relay log.   *)
ResetSlave(p) ==
  /\ pc[p] = "stop"
  /\ crashes' = crashes \cup {crash[p]}
  /\ crash' = [crash EXCEPT ![p] = NoCrash]
  /\ \/ /\ Succeeds(master)
        /\ source' = [source EXCEPT ![master] = NoServer]
        /\ relay' = [relay EXCEPT ![master] = {}]
     \/ Fails(master) /\ UNCHANGED <<source, relay>>
  /\ Goto(p, "open")
  /\ UNCHANGED <<up, readOnly, log, applied, viewVars, roleVars, inFailover, failoverCtr, fail, list, cand, io>>

SetReadWrite(p) ==
  /\ pc[p] = "open"
  /\ \/ Succeeds(master) /\ readOnly' = readOnly \ {master}
     \/ Fails(master) /\ UNCHANGED readOnly
  /\ Goto(p, IF fail[p] THEN "switch" ELSE "demote")
  /\ UNCHANGED <<up, source, log, relay, applied, viewVars, roleVars, inFailover, failoverCtr, crashes, localVars>>

(* The old master becomes a slave, in the list even when a statement fails. *)
Demote(p) ==
  /\ pc[p] = "demote"
  /\ \/ /\ Succeeds(oldMaster)
        /\ source' = [source EXCEPT ![oldMaster] = master]
        /\ readOnly' = readOnly \cup {oldMaster}
     \/ Fails(oldMaster) /\ UNCHANGED <<source, readOnly>>
  /\ slaves' = slaves \cup {oldMaster}
  /\ failed' = failed \ {oldMaster}
  /\ Goto(p, "switch")
  /\ UNCHANGED <<up, log, relay, applied, pinging, master, oldMaster, inFailover, failoverCtr, crashes, localVars>>

(* SwitchSlavesToMaster: the range over the slaves is taken once. *)
SwitchSlavesToMaster(p) ==
  /\ pc[p] = "switch"
  /\ list' = [list EXCEPT ![p] = slaves]
  /\ Goto(p, "slaves")
  /\ UNCHANGED <<dbVars, viewVars, roleVars, inFailover, failoverCtr, crashes, fail, cand, io, crash, spent>>

(* The old master and a master are passed over. *)
NextSlave(p) ==
  /\ pc[p] = "slaves"
  /\ \E s \in list[p] :
       /\ list' = [list EXCEPT ![p] = @ \ {s}]
       /\ cand' = [cand EXCEPT ![p] = s]
       /\ Goto(p, IF s \in {oldMaster, master} THEN "slaves" ELSE "change")
  /\ UNCHANGED <<dbVars, viewVars, roleVars, inFailover, failoverCtr, crashes, fail, io, crash, spent>>

(* STOP SLAVE, CHANGE MASTER to the master of this moment, START SLAVE,     *)
(* read_only.  An error is logged and the slave is left as it is.           *)
ChangeMaster(p) ==
  /\ pc[p] = "change"
  /\ \/ /\ Succeeds(cand[p])
        /\ source' = [source EXCEPT ![cand[p]] = master]
        /\ relay' = [relay EXCEPT ![cand[p]] = {}]
        /\ readOnly' = readOnly \cup {cand[p]}
     \/ Fails(cand[p]) /\ UNCHANGED <<source, relay, readOnly>>
  /\ Goto(p, "slaves")
  /\ UNCHANGED <<up, log, applied, viewVars, roleVars, inFailover, failoverCtr, crashes, localVars>>

Finish(p) ==
  /\ pc[p] = "slaves" /\ list[p] = {}
  /\ failoverCtr' = IF fail[p] THEN failoverCtr + 1 ELSE failoverCtr
  /\ Leave(p)
  /\ UNCHANGED <<dbVars, viewVars, roleVars, crashes, localVars, spent>>

--------------------------------------------------------------------------------
(* Monitoring, as far as it concerns a failed master. *)

(* Ping could not connect to the master failover-max-fail times in a row.   *)
PingDeclaresFailed ==
  /\ pc[Loop] = "idle"
  /\ master \in Servers \ failed
  /\ \/ master \notin up /\ UNCHANGED spent
     \/ master \in up /\ spent["false"] < MaxFalse /\ Spend("false")
  /\ failed' = failed \cup {master}
  /\ UNCHANGED <<dbVars, pinging, roleVars, runVars>>

(* Ping connects to a failed server again; it leaves when in failover. *)
PingConnects(s) ==
  /\ pc[Loop] = "idle"
  /\ s \in (failed \cap up) \ pinging
  /\ source[s] = NoServer
  /\ ~inFailover
  /\ pinging' = pinging \cup {s}
  /\ UNCHANGED <<dbVars, failed, roleVars, runVars, spent>>

(* The server has no replication: it is made read only as an unconnected    *)
(* server unless it is the master or a failover has begun meanwhile.        *)
(* autorejoin is off.                                                       *)
PingReintroduces(s) ==
  /\ s \in pinging
  /\ pinging' = pinging \ {s}
  /\ failed' = failed \ {s}
  /\ IF s # master /\ ~inFailover
     THEN \/ Succeeds(s) /\ readOnly' = readOnly \cup {s}
          \/ Fails(s) /\ UNCHANGED readOnly
     ELSE UNCHANGED <<readOnly, spent>>
  /\ UNCHANGED <<up, source, log, relay, applied, roleVars, runVars>>

--------------------------------------------------------------------------------
(* The database servers: external. *)

Least(S) == {t \in S : \A u \in S : t <= u}

(* A client commits on any server that accepts writes. *)
ClientWrites(s) ==
  /\ s \in up \ readOnly
  /\ \E t \in Least(Trx \ UNION {log[o] : o \in Servers}) :
       log' = [log EXCEPT ![s] = @ \cup {t}]
  /\ UNCHANGED <<up, readOnly, source, relay, applied, viewVars, roleVars, runVars, spent>>

(* The IO thread of s. *)
ReplicaReceives(s) ==
  /\ s \in up /\ source[s] \in up
  /\ \E t \in Least(log[source[s]] \ Received(s)) :
       relay' = [relay EXCEPT ![s] = @ \cup {t}]
  /\ UNCHANGED <<up, readOnly, source, log, applied, viewVars, roleVars, runVars, spent>>

(* The SQL thread of s. *)
ReplicaExecutes(s) ==
  /\ s \in up /\ source[s] # NoServer
  /\ \E t \in Least(relay[s] \ log[s]) : log' = [log EXCEPT ![s] = @ \cup {t}]
  /\ applied' = applied \cup {s}
  /\ UNCHANGED <<up, readOnly, source, relay, viewVars, roleVars, runVars, spent>>

ServerStops(s) ==
  /\ s \in up
  /\ spent["crash"] < MaxCrash /\ Spend("crash")
  /\ up' = up \ {s}
  /\ UNCHANGED <<readOnly, source, log, relay, applied, viewVars, roleVars, runVars>>

--------------------------------------------------------------------------------
(* A discovered topology: all slaves replicate from the master and are read *)
(* only.  Nothing of what clients write from now on is there yet; a server  *)
(* may or may not have replicated before.                                   *)
Init ==
  /\ up = Servers
  /\ master \in Servers
  /\ oldMaster = NoServer
  /\ slaves = Servers \ {master}
  /\ readOnly = slaves
  /\ source = [s \in Servers |-> IF s = master THEN NoServer ELSE master]
  /\ log = [s \in Servers |-> {}]
  /\ relay = [s \in Servers |-> {}]
  /\ applied \in SUBSET Servers
  /\ failed = {}
  /\ pinging = {}
  /\ inFailover = FALSE
  /\ failoverCtr = 0
  /\ crashes = {}
  /\ pc = [p \in Threads |-> "idle"]
  /\ fail = [p \in Threads |-> FALSE]
  /\ list = [p \in Threads |-> {}]
  /\ cand = [p \in Threads |-> NoServer]
  /\ io = [p \in Threads |-> {}]
  /\ crash = [p \in Threads |-> NoCrash]
  /\ spent = [e \in Events |-> 0]

(* The steps of a goroutine inside a call. *)
Thread(p) ==
  \/ IsInFailover(p) \/ SetFailoverState(p) \/ Cancel(p) \/ Elect(p)
  \/ CancelElected(p) \/ Promote(p) \/ Panic(p)
  \/ freeze(p) \/ GetMSlaveStatus(p) \/ ReadAllRelayLogs(p) \/ RefreshReplications(p)
  \/ SaveCrashInfo(p) \/ ResetSlave(p) \/ SetReadWrite(p) \/ Demote(p)
  \/ SwitchSlavesToMaster(p) \/ NextSlave(p) \/ ChangeMaster(p) \/ Finish(p)
  \/ AddSeededProxyEnd(p)

Database(s) ==
  \/ ClientWrites(s) \/ ReplicaReceives(s) \/ ReplicaExecutes(s) \/ ServerStops(s)

Next ==
  \/ CheckFailed \/ SwitchoverSignal \/ PingDeclaresFailed
  \/ \E p \in Api : handlerMuxFailover(p) \/ handlerMuxSwitchover(p) \/ AddSeededProxy(p)
  \/ \E p \in Threads : Thread(p)
  \/ \E s \in Servers : Database(s) \/ PingConnects(s) \/ PingReintroduces(s)

Spec == Init /\ [][Next]_vars

(* Claim: CheckFailed does not trigger a failover while a switchover is     *)
(* happening, and MasterFailover cancels when one is already running.  At   *)
(* most one goroutine is between the election and the end of a change.      *)
Busy(p) == pc[p] \in Electing \cup Changing
OnlyOneFailover == \A p, q \in Threads : Busy(p) /\ Busy(q) => p = q

(* The behaviours in which the InFailover flag does keep changes apart, as  *)
(* an atomic test-and-set with no other user would.                         *)
SerialSpec == Init /\ [][Next /\ OnlyOneFailover']_vars

(* A goroutine keeps running, and so does the SQL thread of a replica. *)
FairSpec ==
  /\ Spec
  /\ \A p \in Threads : WF_vars(Thread(p))
  /\ \A s \in Servers : WF_vars(ReplicaExecutes(s))

--------------------------------------------------------------------------------
(* Properties. *)

TypeOK ==
  /\ up \subseteq Servers /\ readOnly \subseteq Servers /\ applied \subseteq Servers
  /\ source \in [Servers -> Sources]
  /\ log \in [Servers -> SUBSET Trx] /\ relay \in [Servers -> SUBSET Trx]
  /\ failed \subseteq Servers /\ pinging \subseteq Servers
  /\ master \in Servers /\ oldMaster \in Sources /\ slaves \subseteq Servers
  /\ inFailover \in BOOLEAN /\ failoverCtr \in Nat
  /\ crashes \subseteq Crash
  /\ pc \in [Threads -> Steps]
  /\ fail \in [Threads -> BOOLEAN]
  /\ list \in [Threads -> SUBSET Servers] /\ cand \in [Threads -> Sources]
  /\ io \in [Threads -> SUBSET Trx] /\ crash \in [Threads -> Crash]
  /\ spent \in [Events -> Nat]

(* While changes are kept apart, no server is ever made to replicate from   *)
(* itself: the fields that Demote and SwitchSlavesToMaster read again never *)
(* name the same server twice, whatever the callers, the failures and the   *)
(* earlier changes were.                                                    *)
NeverReplicatesFromItself == \A s \in Servers : source[s] # s

(* With the loop alone and no failing statement: a server that accepts      *)
(* writes is the master, or is still to be frozen, or is regarded as failed. *)
(* A master wrongly declared failed is closed before it counts as healthy.  *)
OneWriter ==
  \A s \in up \ readOnly :
    \/ s = master \/ s \in failed
    \/ s = oldMaster /\ pc[Loop] = "freeze"

(* Once a failover after the loss of the master opens the new master for    *)
(* writes, this one has executed all that any slave still there had         *)
(* received.  There was no false alarm, after which the old master goes on  *)
(* feeding the slaves, no switchover, after which histories may differ, and *)
(* no candidate with an empty gtid_slave_pos, which is not waited for.      *)
NothingReceivedIsLost ==
  spent["false"] + spent["call"] + spent["unread"] = 0 =>
    \A p \in Threads : pc[p] = "switch" /\ fail[p] /\ master \in up /\ oldMaster \notin up
      => \A s \in slaves \cap up : Received(s) \subseteq log[master]

(* With the loop alone: the crash record of a failover never names a        *)
(* transaction the elected server did not execute, although the received    *)
(* position is fetched after the executed one it was compared with: the     *)
(* rejoin of the old master trusts it.  No statement has failed, there was  *)
(* no false alarm and every candidate was waited for; earlier switchovers   *)
(* do not matter.                                                           *)
CrashPositionExecuted ==
  spent["error"] + spent["false"] + spent["unread"] = 0 =>
    \A c \in crashes : c.failover /\ c.elected \in up => c.pos \subseteq log[c.elected]

(* The flag that stops monitoring is taken down again by the changes of the *)
(* master and of the proxy list, whatever fails on their way and however    *)
(* they overlap.                                                            *)
MonitoringResumes == inFailover ~> ~inFailover
================================================================================
