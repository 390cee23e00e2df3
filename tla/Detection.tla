------------------------------- MODULE Detection -------------------------------
(***************************************************************************)
(* How a manager sees its database servers.  Every tick of Cluster.Run     *)
(* starts one Ping per server, each in a goroutine, waits for all of them, *)
(* rebuilds the topology (TopologyDiscover) from what the Pings have       *)
(* cached, and lets CheckFailed start a failover.  Handlers of the API     *)
(* start switchovers in goroutines of their own.                           *)
(*                                                                         *)
(* The configuration is a MariaDB master-slave cluster with GTID, two or   *)
(* more servers, autorejoin, failover-readonly-state and                   *)
(* replication-no-relay on, multi-master, relay, arbitration, maintenance  *)
(* and ignored servers off.  Replication threads run wherever replication  *)
(* is configured.  The first connection to each server has been made.      *)
(* Failover models a change of the master statement by statement, Rejoin   *)
(* what a rejoin does to the data.  Here a rejoin and the failover of the  *)
(* loop are single steps, a switchover is cut where it reads or writes the *)
(* list of slaves.  An append to that list is one step.  read_only, which  *)
(* nothing here looks at, is left to those two modules.                    *)
(***************************************************************************)
EXTENDS Naturals, Sequences, FiniteSets

CONSTANTS
  N,                 \* number of servers
  MaxFail,           \* failover-falsepositive-ping-counter
  FailRestartUnsafe, \* failover-restart-unsafe
  MaxDown,           \* bound: servers out of reach, or back and not yet seen
                     \* by a Ping, at the same time
  MaxOutage,         \* bound: outages
  MaxSwitch,         \* bound: switchovers asked for
  MaxDeny,           \* bound: connections refused with error 1045
  MaxError,          \* bound: statements of a rejoin or a failover that fail
  MaxEvent           \* bound: all of these together

ASSUME NAssumption == N \in Nat /\ N >= 2
ASSUME MaxFailAssumption == MaxFail \in Nat \ {0}
ASSUME UnsafeAssumption == FailRestartUnsafe \in BOOLEAN
ASSUME BoundAssumption == {MaxDown, MaxOutage, MaxSwitch, MaxDeny, MaxError, MaxEvent} \subseteq Nat

VARIABLES
  up, source,                \* the databases: in reach, replicate from
  State, PrevState, FailCount, \* fields of ServerMonitor
  isSlave, replication, dumps, \* what the last Refresh has cached: IsSlave,
                             \* Replications, BinlogDumpThreads > 0
  master, lastmaster,        \* cluster.master, cluster.lastmaster
  slaves, slots,             \* cluster.slaves: its length, its backing array
  orphans,                   \* servers with HaveNoMasterOnStart
  topology, target,          \* whether Topology, TopologyTarget are master-slave
  discovered, inFailover,    \* fields of the state machine
  crashes,                   \* cluster.Crashes: crashed master, elected master
  missed,                    \* servers whose last Ping got no connection
  unread,                    \* servers whose last Ping was connected and could not read them
  pc, mark,                  \* where a Ping is; the slice header and the index it holds
  tick,                      \* where the cluster loop is
  handler,                   \* the switchover of an API handler: its step, the index it
                             \* elected, its slice header and index, cluster.oldMaster
  spent                      \* environment steps taken, against the bounds

dbVars   == <<up, source>>
viewVars == <<State, PrevState, FailCount>>
cacheVars == <<isSlave, replication, dumps>>
roleVars == <<master, lastmaster, orphans>>
listVars == <<slaves, slots>>
smVars   == <<topology, target, discovered, inFailover, crashes, missed, unread, handler>>
vars == <<up, source, State, PrevState, FailCount, isSlave, replication, dumps, master, lastmaster,
          slaves, slots, orphans, topology, target, discovered, inFailover, crashes, missed, unread, pc, mark, tick,
          handler, spent>>

Servers == 1..N
nil == 0
None == Servers \cup {nil}

Suspect == "Suspect"
Failed == "Failed"
ErrorAuth == "ErrorAuth"
Unconn == "StandAlone"
Slave == "Slave"
Master == "Master"
States == {Suspect, Failed, ErrorAuth, Unconn, Slave, Master}

IsFailed(s) == State[s] \in {Failed, ErrorAuth}
IsDown(s) == IsFailed(s) \/ State[s] = Suspect

First(S) == CHOOSE s \in S : \A o \in S : s <= o
Last(S) == CHOOSE s \in S : \A o \in S : s >= o

(* A nil pointer in a goroutine ends the manager. *)
Panic == tick' = "panic" /\ pc' = [s \in Servers |-> "dead"]

NoMark == [len |-> 0, at |-> 0]
NoSwitchover == [step |-> "off", key |-> 0, len |-> 0, at |-> 0, old |-> nil]

Events == {"outage", "switch", "deny", "error"}
Spend(e, max) ==
  /\ spent[e] < max /\ spent["outage"] + spent["switch"] + spent["deny"] + spent["error"] < MaxEvent
  /\ spent' = [spent EXCEPT ![e] = @ + 1]
Goto(s, l) == pc' = [pc EXCEPT ![s] = l]
Succeeds(s) == s \in up /\ UNCHANGED spent
Fails(s) == \/ s \notin up /\ UNCHANGED spent
            \/ s \in up /\ Spend("error", MaxError)

--------------------------------------------------------------------------------
(* A Ping that gets no connection. *)

(* Run starts TopologyDiscover, which starts the Pings. *)
StartPings ==
  /\ tick = "idle"
  /\ tick' = "pings" /\ pc' = [s \in Servers |-> "connect"]
  /\ UNCHANGED <<dbVars, viewVars, cacheVars, roleVars, listVars, smVars, mark, spent>>

GetNewDBConn(s) ==
  /\ pc[s] = "connect"
  /\ Goto(s, IF s \in up THEN "connected" ELSE "missed")
  /\ missed' = IF s \in up THEN missed \ {s} ELSE missed \cup {s}
  /\ unread' = unread \ {s}
  /\ UNCHANGED <<dbVars, viewVars, cacheVars, roleVars, listVars, topology, target, discovered, inFailover, crashes,
                 handler, mark, tick, spent>>

(* Error 1045: neither the count nor PrevState follows. *)
AccessDenied(s) ==
  /\ pc[s] = "connect" /\ s \in up
  /\ Spend("deny", MaxDeny)
  /\ State' = [State EXCEPT ![s] = ErrorAuth]
  /\ Goto(s, "done")
  /\ UNCHANGED <<dbVars, PrevState, FailCount, cacheVars, roleVars, listVars, smVars, mark, tick>>

(* The count is compared with MaxFail only, so it stops one above it. *)
Count(s) == IF FailCount[s] <= MaxFail THEN FailCount[s] + 1 ELSE FailCount[s]

Ends(s, st) ==
  /\ State' = [State EXCEPT ![s] = st]
  /\ PrevState' = [PrevState EXCEPT ![s] = st]

(* Mutant: whoever cannot be reached, the master is blamed. *)
PingMissedBlames(s) ==
  /\ pc[s] = "missed"
  /\ FailCount' = [FailCount EXCEPT ![s] = Count(s)]
  /\ IF master # nil THEN Goto(s, "blame") /\ UNCHANGED <<State, PrevState>>
                     ELSE Goto(s, "done") /\ Ends(s, Suspect)
  /\ UNCHANGED <<dbVars, cacheVars, roleVars, listVars, smVars, mark, tick, spent>>

(* The master is blamed in a step of its own; a replica is declared failed  *)
(* when its count meets the limit, and then leaves the list of slaves.      *)
PingMissed(s) ==
  /\ pc[s] = "missed"
  /\ FailCount' = [FailCount EXCEPT ![s] = Count(s)]
  /\ IF s = master /\ topology
     THEN Goto(s, "blame") /\ UNCHANGED <<State, PrevState, replication>>
     ELSE IF Count(s) >= MaxFail /\ topology
     THEN /\ Ends(s, IF Count(s) = MaxFail THEN Failed ELSE State[s])
          /\ replication' = [replication EXCEPT ![s] = IF Count(s) = MaxFail THEN nil ELSE @]
          /\ Goto(s, IF Count(s) = MaxFail /\ replication[s] # nil /\ slots # <<>> THEN "find" ELSE "done")
     ELSE Ends(s, Suspect) /\ UNCHANGED replication /\ Goto(s, "done")
  /\ UNCHANGED <<dbVars, isSlave, dumps, roleVars, listVars, smVars, mark, tick, spent>>

(* GetMaster() is called again: the state set is that of the master of now. *)
BlameMaster(s) ==
  /\ pc[s] = "blame"
  /\ LET set == [State EXCEPT ![master] = IF FailCount[s] >= MaxFail THEN Failed ELSE Suspect]
     IN State' = set /\ PrevState' = [PrevState EXCEPT ![s] = set[s]]
  /\ Goto(s, "done")
  /\ UNCHANGED <<dbVars, FailCount, cacheVars, roleVars, listVars, smVars, mark, tick, spent>>

(* serverList.delete, unlocked: take the header and find the index, move   *)
(* the last element there, clear the last slot and store the new header.   *)
DeleteFind(s) ==
  /\ pc[s] = "find"
  /\ LET at == {k \in 1..slaves : slots[k] \in {s, nil}}
     IN \/ at = {} /\ Goto(s, "done") /\ UNCHANGED <<mark, tick>>
        \/ at # {} /\ slots[First(at)] = s /\ Goto(s, "move")
           /\ mark' = [mark EXCEPT ![s] = [len |-> slaves, at |-> First(at)]] /\ UNCHANGED tick
        \/ at # {} /\ slots[First(at)] = nil /\ Panic /\ UNCHANGED mark
  /\ UNCHANGED <<dbVars, viewVars, cacheVars, roleVars, listVars, smVars, spent>>

DeleteMove(s) ==
  /\ pc[s] = "move"
  /\ slots' = [slots EXCEPT ![mark[s].at] = slots[mark[s].len]]
  /\ Goto(s, "cut")
  /\ UNCHANGED <<dbVars, viewVars, cacheVars, roleVars, slaves, smVars, mark, tick, spent>>

(* Mutant: the slot is cleared, the length kept. *)
DeleteCutKeeps(s) ==
  /\ pc[s] = "cut"
  /\ slots' = [slots EXCEPT ![mark[s].len] = nil]
  /\ slaves' = mark[s].len
  /\ mark' = [mark EXCEPT ![s] = NoMark]
  /\ Goto(s, "done")
  /\ UNCHANGED <<dbVars, viewVars, cacheVars, roleVars, smVars, tick, spent>>

DeleteCut(s) ==
  /\ pc[s] = "cut"
  /\ slots' = [slots EXCEPT ![mark[s].len] = nil]
  /\ slaves' = mark[s].len - 1
  /\ mark' = [mark EXCEPT ![s] = NoMark]
  /\ Goto(s, "done")
  /\ UNCHANGED <<dbVars, viewVars, cacheVars, roleVars, smVars, tick, spent>>

--------------------------------------------------------------------------------
(* A Ping that gets a connection. *)

(* Mutant: a failed replica that is back stays failed. *)
CheckReplicationSuspect(s, st) == IF source[s] # nil /\ s # master /\ st = Suspect THEN Slave ELSE st

(* CheckReplication: a replica that is not the master is a Slave again. *)
CheckReplication(s, st) == IF source[s] # nil /\ s # master THEN Slave ELSE st

(* What Refresh has cached of the servers of S. *)
BinlogDumpThreads(S) == dumps' = (dumps \ S) \cup {s \in S : \E r \in up : source[r] = s}
Refreshed(S) ==
  /\ isSlave' = (isSlave \ S) \cup {s \in S : source[s] # nil}
  /\ replication' = [s \in Servers |-> IF s \in S THEN source[s] ELSE replication[s]]
  /\ BinlogDumpThreads(S)

(* Without topology a failed server becomes suspect first. *)
Seen(s) == IF IsFailed(s) /\ ~topology /\ PrevState[s] # Suspect THEN Suspect ELSE State[s]

Reset(s, st) == FailCount' = [FailCount EXCEPT ![s] = IF st \in {Failed, ErrorAuth, Suspect} THEN @ ELSE 0]

(* Up to the end of Refresh.  During a change of the master Ping leaves.    *)
Refresh(s) ==
  /\ pc[s] = "connected"
  /\ IF inFailover
     THEN /\ State' = [State EXCEPT ![s] = Seen(s)]
          /\ Goto(s, "done") /\ UNCHANGED <<FailCount, cacheVars, spent>>
     ELSE /\ Succeeds(s) /\ Refreshed({s})
          /\ LET st == CheckReplication(s, Seen(s)) IN State' = [State EXCEPT ![s] = st] /\ Reset(s, st)
          /\ Goto(s, "status")
  /\ UNCHANGED <<dbVars, PrevState, roleVars, listVars, smVars, mark, tick>>

(* The connection is there and a statement of Refresh fails: the first one, *)
(* and Ping leaves with the state and the count as they were; a later one,  *)
(* and Ping goes on with what is cached, or without a replication when the  *)
(* list of replications could not be read; GetSlaveStatus, and there is     *)
(* neither a rejoin nor another state.                                      *)
RefreshFails(s) ==
  /\ Fails(s)
  /\ \/ /\ pc[s] = "connected" /\ ~inFailover
        /\ State' = [State EXCEPT ![s] = Seen(s)]
        /\ \/ Goto(s, "done") /\ UNCHANGED <<FailCount, cacheVars>>
           \/ Goto(s, "status") /\ Reset(s, Seen(s)) /\ UNCHANGED cacheVars
           \/ /\ Goto(s, "status") /\ Reset(s, Seen(s)) /\ BinlogDumpThreads({s})
              /\ isSlave' = isSlave \ {s} /\ replication' = [replication EXCEPT ![s] = nil]
        /\ UNCHANGED PrevState
     \/ pc[s] = "status" /\ Ends(s, State[s]) /\ Goto(s, "done") /\ UNCHANGED <<FailCount, cacheVars>>
  /\ unread' = unread \cup {s}
  /\ UNCHANGED <<dbVars, roleVars, listVars, topology, target, discovered, inFailover, crashes, missed,
                 handler, mark, tick>>

(* Mutant: only a refused server counts as returned. *)
ReturnedRefused(s) == PrevState[s] = ErrorAuth

Returned(s) == PrevState[s] \in {Failed, ErrorAuth}
OtherMaster(s) == master \notin {nil, s}

(* From GetSlaveStatus to the end, or to the rejoin.  A server that was     *)
(* failed and does not replicate is unconnected and rejoins as an old       *)
(* master; one that replicates rejoins as a slave.                          *)
AfterRefresh(s) ==
  /\ pc[s] = "status" /\ s \in up
  /\ \/ /\ source[s] = nil /\ Returned(s)
        /\ State' = [State EXCEPT ![s] = Unconn]
        /\ FailCount' = [FailCount EXCEPT ![s] = 0]
        /\ UNCHANGED PrevState
        /\ Goto(s, "rejoin")
     \/ /\ source[s] = nil /\ ~Returned(s)
        /\ LET new == State[s] = Unconn /\ PrevState[s] # Unconn
           IN Ends(s, IF ~new /\ OtherMaster(s) /\ PrevState[s] = Suspect /\ discovered /\ ~inFailover
                      THEN Unconn ELSE State[s])
        /\ UNCHANGED FailCount
        /\ Goto(s, "done")
     \/ /\ source[s] # nil
        /\ IF PrevState[s] = Failed
           THEN Goto(s, "rejoinSlave") /\ UNCHANGED <<State, PrevState>>
           ELSE Goto(s, "done") /\ Ends(s, State[s])
        /\ UNCHANGED FailCount
  /\ UNCHANGED <<dbVars, cacheVars, roleVars, listVars, smVars, mark, tick, spent>>

(* RejoinMaster: to the known master, after an outage of the whole cluster  *)
(* to the last one, which becomes the master again when it is this server.  *)
Rejoined(s) == Goto(s, "done") /\ UNCHANGED <<up, FailCount, cacheVars, listVars, smVars, mark, tick>>

RejoinMaster(s) ==
  /\ pc[s] = "rejoin"
  /\ \/ /\ inFailover \/ master = s \/ (master = nil /\ lastmaster = nil)
        /\ Ends(s, State[s])
        /\ UNCHANGED <<source, roleVars, spent>>
     \/ /\ ~inFailover /\ OtherMaster(s)
        /\ Ends(s, State[s])
        /\ \/ Succeeds(s) /\ source' = [source EXCEPT ![s] = master]
           \/ Fails(s) /\ UNCHANGED source
        /\ UNCHANGED roleVars
     \/ /\ ~inFailover /\ master = nil /\ lastmaster = s
        /\ Ends(s, Master)
        /\ master' = s /\ lastmaster' = nil /\ orphans' = {}
        /\ Succeeds(s) \/ Fails(s)
        /\ UNCHANGED source
     \/ /\ ~inFailover /\ master = nil /\ lastmaster \notin {nil, s}
        /\ Ends(s, State[s])
        /\ IF FailRestartUnsafe
           THEN master' = s /\ UNCHANGED <<source, spent>>
           ELSE /\ \/ Succeeds(s) /\ source' = [source EXCEPT ![s] = lastmaster]
                   \/ Fails(s) /\ UNCHANGED source
                /\ UNCHANGED master
        /\ UNCHANGED <<lastmaster, orphans>>
  /\ Rejoined(s)

(* rejoinSlave compares the replication the Refresh has cached with the     *)
(* master, moves the server when a crash record names that master as        *)
(* elected, and appends it to the list.                                     *)
Elected == {c[2] : c \in crashes}

(* Mutant: the new length is stored, the element is not. *)
Append1Lost(s) == slaves' = slaves + 1 /\ UNCHANGED slots

(* append: the slot behind the last one, if the array has one, is reused. *)
Append1(s) == /\ slots' = IF slaves < Len(slots) THEN [slots EXCEPT ![slaves + 1] = s] ELSE Append(slots, s)
              /\ slaves' = slaves + 1

rejoinSlave(s) ==
  /\ pc[s] = "rejoinSlave"
  /\ IF OtherMaster(s) /\ (master = replication[s] \/ master \notin Elected)
     THEN Ends(s, State[s]) /\ UNCHANGED <<source, FailCount, listVars, spent>>
     ELSE /\ \/ /\ Succeeds(s)
                /\ source' = [source EXCEPT ![s] = IF OtherMaster(s) THEN master ELSE @]
             \/ Fails(s) /\ UNCHANGED source
          /\ Ends(s, Slave)
          /\ FailCount' = [FailCount EXCEPT ![s] = 0]
          /\ Append1(s)
  /\ orphans' = IF OtherMaster(s) /\ master # replication[s] /\ IsDown(master) /\ ~FailRestartUnsafe
                 THEN orphans \cup {s} ELSE orphans
  /\ Goto(s, "done")
  /\ UNCHANGED <<up, cacheVars, master, lastmaster, smVars, mark, tick>>

--------------------------------------------------------------------------------
(* TopologyDiscover, once the Pings are over. *)

(* HasAllDbUp and HasNoDbUnconnected: the crash records are dropped. *)
AllConnected == \A s \in Servers : /\ State[s] \notin {Failed, Unconn}
                                   /\ State[s] = Suspect => ~topology

(* TopologyClusterDown: no master in sight and every slave failed. *)
NoMaster == master \in {nil} \cup {s \in Servers : State[s] = Failed}
ClusterDown == NoMaster /\ \A k \in 1..slaves : IsFailed(slots[k])
Forget == ClusterDown /\ discovered /\ master # nil
Known == IF Forget /\ ~FailRestartUnsafe THEN nil ELSE master

(* The loop over the servers.  One that does not replicate and has slaves   *)
(* or is already Master becomes the master; in a known master-slave         *)
(* topology only the master itself, or the first one when there is none.    *)
Leaders == {s \in Servers : /\ ~IsFailed(s) /\ s \notin isSlave
                            /\ s \in dumps \/ State[s] = Master}
Chosen == IF ~topology \/ Leaders = {} THEN Leaders
          ELSE IF Known # nil THEN Leaders \cap {Known}
          ELSE {First(Leaders)}

(* The new list: the replicas that have not failed, in the order of         *)
(* cluster.Servers.                                                         *)
NewSlaves == {s \in Servers : ~IsFailed(s) /\ s \in isSlave}
InOrder(S) == {q \in [1..Cardinality(S) -> S] : \A i, j \in 1..Cardinality(S) : i < j => q[i] < q[j]}

PingsOver == tick = "pings" /\ \A s \in Servers : pc[s] = "done"

Holed == \E k \in 1..slaves : slots[k] = nil

(* The loop of TopologyClusterDown, or that of isFoundCandidateMaster,      *)
(* meets an empty slot.                                                     *)
NilSlave ==
  /\ ~inFailover /\ Holed
  /\ (PingsOver /\ NoMaster) \/ tick = "check"
  /\ Panic
  /\ UNCHANGED <<dbVars, viewVars, cacheVars, roleVars, listVars, smVars, mark, spent>>

RebuildTopology ==
  /\ PingsOver
  /\ pc' = [s \in Servers |-> "idle"]
  /\ IF inFailover
     THEN tick' = "check" /\ UNCHANGED <<State, roleVars, listVars, crashes>>
     ELSE /\ ~(NoMaster /\ Holed)
          /\ crashes' = IF AllConnected THEN {} ELSE crashes
          /\ lastmaster' = IF Forget THEN master ELSE lastmaster
          /\ slots' \in InOrder(NewSlaves) /\ slaves' = Cardinality(NewSlaves)
          /\ LET found == IF Chosen # {} THEN Last(Chosen) ELSE Known
                 named == {s \in Servers : \A k \in 1..slaves' : replication[slots'[k]] = s}
                 extra == IF found = nil /\ target /\ slaves' > 0 THEN named ELSE {}
             IN /\ master' = IF extra # {} THEN First(extra) ELSE found
                /\ State' = [s \in Servers |-> IF s \in Chosen \cup extra THEN Master ELSE State[s]]
                /\ orphans' = IF Chosen \cup extra # {} THEN {} ELSE orphans
          /\ tick' = "roles"
  /\ UNCHANGED <<up, source, PrevState, FailCount, cacheVars, topology, target, discovered, inFailover, missed,
                 unread, handler, mark, spent>>

(* The master is the unconnected server that the first slave replicates     *)
(* from, or else the failed one it points at.                               *)
Sid == IF slaves > 0 THEN replication[slots[1]] ELSE nil
FailedMasterDiscovery ==
  Sid # nil /\ IsFailed(Sid) /\ (FailRestartUnsafe \/ \E k \in 1..slaves : ~IsDown(slots[k]) /\ replication[slots[k]] = Sid)

(* RejoinFixRelay: slaves that replicate from another server. *)
Astray(m) == {s \in Servers : /\ \E k \in 1..slaves : slots[k] = s
                              /\ s # m /\ replication[s] \notin {nil, m}}

FindMaster ==
  /\ tick = "roles"
  /\ LET back == Sid # nil /\ State[Sid] = Unconn
         lost == master = nil /\ ~back /\ FailedMasterDiscovery
         m == IF back \/ lost THEN Sid ELSE master
         fix == IF m \in Elected THEN Astray(m) \cap up ELSE {}
     IN /\ master' = m
        /\ State' = IF back THEN [State EXCEPT ![m] = Master] ELSE State
        /\ PrevState' = IF lost THEN [PrevState EXCEPT ![m] = Master] ELSE PrevState
        /\ orphans' = IF back THEN {} ELSE orphans
        /\ source' = [s \in Servers |-> IF s \in fix THEN m ELSE source[s]]
        /\ topology' = (m # nil)
        /\ target' = (target \/ m # nil)
        /\ discovered' = (discovered \/ (m # nil /\ slaves > 0 /\ Leaders \subseteq {m} /\ Astray(m) = {}
                                           /\ ~IsFailed(m)))
  /\ tick' = "check"
  /\ UNCHANGED <<up, FailCount, cacheVars, lastmaster, listVars, inFailover, crashes, missed, unread, handler, pc, mark, spent>>

--------------------------------------------------------------------------------
(* A change of the master. *)

Candidates == {s \in up \ orphans : replication[s] # nil /\ \E k \in 1..slaves : slots[k] = s}

(* The roles after an election of c; the slaves of moved follow it. *)
Promote(c, moved, old) ==
  /\ master' = c /\ orphans' = {}
  /\ State' = [State EXCEPT ![c] = Master]
  /\ FailCount' = [FailCount EXCEPT ![c] = 0]
  /\ source' = [s \in Servers |-> IF s = c THEN nil ELSE IF s \in moved THEN c ELSE source[s]]
  /\ crashes' = crashes \cup {<<old, c>>}

MovedBy(c, moved) ==
  /\ moved \subseteq Candidates \ {c}
  /\ IF moved = Candidates \ {c} THEN UNCHANGED spent ELSE Spend("error", MaxError)

(* serverList.delete in one step: the last element moves to the place of    *)
(* the first one that is c.                                                 *)
Place(c) == First({k \in 1..slaves : slots[k] = c})
Without(c) == [slots EXCEPT ![Place(c)] = slots[slaves], ![slaves] = nil]

(* Mutant: the count is met exactly, as it is for a replica. *)
isMaxMasterFailedCountReachedExactly == FailCount[master] = MaxFail

isMaxMasterFailedCountReached == FailCount[master] >= MaxFail

(* The other guards of CheckFailed hold in the configuration: no time since *)
(* the last failover, no limit to their number, no arbitration, no check    *)
(* for false positives, automatic failover and at least one candidate.      *)
CheckFailed ==
  /\ tick = "check" /\ tick' = "idle"
  /\ inFailover \/ ~Holed
  /\ IF ~inFailover /\ Candidates # {} /\ master # nil /\ State[master] = Failed /\ isMaxMasterFailedCountReached
     THEN \E c \in Candidates, moved \in SUBSET Servers :
            /\ MovedBy(c, moved) /\ Promote(c, moved, master)
            /\ slots' = Without(c) /\ slaves' = slaves - 1
     ELSE UNCHANGED <<master, orphans, State, FailCount, source, crashes, listVars, spent>>
  /\ UNCHANGED <<up, PrevState, cacheVars, lastmaster, topology, target, discovered, inFailover, missed, unread,
                 handler, pc, mark>>

(* A switchover of an API handler.  It raises the flag, refreshes the       *)
(* slaves and elects one by its index in the list, reads that index again   *)
(* for the new master and once more for the server to delete, deletes it as *)
(* a Ping does, and much later appends the old master.                      *)
At(step) == tick # "panic" /\ handler.step = step
Over == inFailover' = FALSE /\ handler' = NoSwitchover
Listed == {slots[k] : k \in 1..slaves}

SwitchoverBegins ==
  /\ At("off") /\ ~inFailover /\ Spend("switch", MaxSwitch)
  /\ discovered
  /\ inFailover' = TRUE /\ handler' = [handler EXCEPT !.step = "elect"]
  /\ UNCHANGED <<dbVars, viewVars, cacheVars, roleVars, listVars, topology, target, discovered, crashes, missed,
                 unread, pc, mark, tick>>

SwitchoverElects ==
  /\ At("elect")
  /\ \/ master \notin up /\ Over /\ UNCHANGED <<cacheVars, pc, tick>>
     \/ master \in up /\ Holed /\ Panic /\ UNCHANGED <<cacheVars, inFailover, handler>>
     \/ /\ master \in up /\ ~Holed
        /\ Refreshed(Listed \cap up)
        /\ LET keys == {k \in 1..slaves : slots[k] \in up \ (orphans \cup {master}) /\ source[slots[k]] # nil}
           IN \/ keys = {} /\ Over
              \/ /\ \E k \in keys : handler' = [handler EXCEPT !.step = "promote", !.key = k]
                 /\ UNCHANGED inFailover
        /\ UNCHANGED <<pc, tick>>
  /\ UNCHANGED <<dbVars, viewVars, roleVars, listVars, topology, target, discovered, crashes, missed, unread, mark,
                 spent>>

(* The element at the elected index, if there still is one. *)
Gone == handler.key > slaves \/ slots[handler.key] = nil

SwitchoverPromotes ==
  /\ At("promote")
  /\ \/ Gone /\ Panic /\ UNCHANGED <<State, master, orphans, handler>>
     \/ /\ ~Gone
        /\ master' = slots[handler.key] /\ orphans' = {}
        /\ State' = [State EXCEPT ![master'] = Master]
        /\ handler' = [handler EXCEPT !.step = "find", !.old = master]
        /\ UNCHANGED <<pc, tick>>
  /\ UNCHANGED <<dbVars, PrevState, FailCount, cacheVars, lastmaster, listVars, topology, target, discovered, inFailover,
                 crashes, missed, unread, mark, spent>>

SwitchoverFinds ==
  /\ At("find")
  /\ LET at == First({k \in 1..slaves : slots[k] \in {slots[handler.key], nil}})
     IN IF Gone \/ slots[at] = nil
        THEN Panic /\ UNCHANGED handler
        ELSE handler' = [handler EXCEPT !.step = "move", !.len = slaves, !.at = at] /\ UNCHANGED <<pc, tick>>
  /\ UNCHANGED <<dbVars, viewVars, cacheVars, roleVars, listVars, topology, target, discovered, inFailover, crashes,
                 missed, unread, mark, spent>>

SwitchoverDeletes ==
  /\ \/ At("move") /\ slots' = [slots EXCEPT ![handler.at] = slots[handler.len]] /\ UNCHANGED slaves
        /\ handler' = [handler EXCEPT !.step = "cut"]
     \/ At("cut") /\ slots' = [slots EXCEPT ![handler.len] = nil] /\ slaves' = handler.len - 1
        /\ handler' = [handler EXCEPT !.step = "demote"]
  /\ UNCHANGED <<dbVars, viewVars, cacheVars, roleVars, topology, target, discovered, inFailover, crashes, missed,
                 unread, pc, mark, tick, spent>>

(* The rest.  What is out of reach by now is neither reset nor moved, and   *)
(* the old master joins the list whether it replicates or not.              *)
SwitchoverEnds ==
  /\ At("demote")
  /\ \/ /\ Holed /\ Panic
        /\ UNCHANGED <<source, State, FailCount, cacheVars, listVars, inFailover, crashes, handler, spent>>
     \/ /\ ~Holed
        /\ LET old == handler.old
               others == {s \in Listed \cap up : s \notin {master, old} /\ State[s] # Master}
           IN \E moved \in SUBSET others :
                /\ IF moved = others THEN UNCHANGED spent ELSE Spend("error", MaxError)
                /\ source' = [s \in Servers |-> IF s \notin up \cap ({master, old} \cup moved) THEN source[s]
                                                ELSE IF s = master THEN nil ELSE master]
                /\ State' = [State EXCEPT ![old] = Slave]
                /\ FailCount' = [FailCount EXCEPT ![master] = 0]
                /\ isSlave' = isSlave \ (up \cap {master})
                /\ replication' = [s \in Servers |-> IF s \in up \cap {master} THEN nil ELSE replication[s]]
                /\ crashes' = crashes \cup {<<old, master>>}
                /\ Append1(old)
        /\ Over
        /\ UNCHANGED <<dumps, pc, tick>>
  /\ UNCHANGED <<up, PrevState, roleVars, topology, target, discovered, missed, unread, mark>>

--------------------------------------------------------------------------------
(* The environment: a server stops or is cut off, and comes back. *)

Lose(s) ==
  /\ s \in up /\ Cardinality((Servers \ up) \cup missed \cup {s}) <= MaxDown
  /\ Spend("outage", MaxOutage)
  /\ up' = up \ {s}
  /\ UNCHANGED <<source, viewVars, cacheVars, roleVars, listVars, smVars, pc, mark, tick>>

Return(s) ==
  /\ s \notin up /\ up' = up \cup {s}
  /\ UNCHANGED <<source, viewVars, cacheVars, roleVars, listVars, smVars, pc, mark, tick, spent>>

(* The manager starts on a cluster that runs: the first server is the       *)
(* master of the others.                                                    *)
Init ==
  /\ up = Servers
  /\ source = [s \in Servers |-> IF s = 1 THEN nil ELSE 1]
  /\ State = [s \in Servers |-> Suspect] /\ PrevState = State
  /\ FailCount = [s \in Servers |-> 0]
  /\ isSlave = {} /\ replication = [s \in Servers |-> nil] /\ dumps = {}
  /\ master = nil /\ lastmaster = nil /\ orphans = {}
  /\ slaves = 0 /\ slots = <<>>
  /\ topology = FALSE /\ target = FALSE /\ discovered = FALSE /\ inFailover = FALSE
  /\ crashes = {} /\ missed = {} /\ unread = {} /\ handler = NoSwitchover
  /\ pc = [s \in Servers |-> "idle"] /\ mark = [s \in Servers |-> NoMark]
  /\ tick = "idle"
  /\ spent = [e \in Events |-> 0]

Ping(s) == \/ GetNewDBConn(s) \/ PingMissed(s) \/ BlameMaster(s)
           \/ DeleteFind(s) \/ DeleteMove(s) \/ DeleteCut(s)
           \/ Refresh(s) \/ RefreshFails(s) \/ AfterRefresh(s) \/ RejoinMaster(s) \/ rejoinSlave(s)

Discover == StartPings \/ NilSlave \/ RebuildTopology \/ FindMaster \/ CheckFailed

Switchover == SwitchoverElects \/ SwitchoverPromotes \/ SwitchoverFinds \/ SwitchoverDeletes \/ SwitchoverEnds

Next == \/ Discover \/ SwitchoverBegins \/ Switchover
        \/ \E s \in Servers : Ping(s) \/ AccessDenied(s) \/ Lose(s) \/ Return(s)

Spec == Init /\ [][Next]_vars

(* A tick takes finitely many steps and waits for its Pings, so fairness to *)
(* the loop and its Pings together starves none of them.                    *)
Monitor == Discover \/ \E s \in Servers : Ping(s)
FairSpec == Spec /\ WF_vars(Monitor) /\ WF_vars(Switchover)

--------------------------------------------------------------------------------
(* Properties. *)

TypeOK ==
  /\ up \subseteq Servers /\ isSlave \subseteq Servers /\ dumps \subseteq Servers
  /\ source \in [Servers -> None] /\ replication \in [Servers -> None]
  /\ State \in [Servers -> States] /\ PrevState \in [Servers -> States]
  /\ FailCount \in [Servers -> 0..MaxFail + 1]
  /\ master \in None /\ lastmaster \in None
  /\ slots \in Seq(None) /\ slaves \in 0..Len(slots)
  /\ {topology, target, discovered, inFailover} \subseteq BOOLEAN
  /\ crashes \subseteq Servers \X Servers
  /\ missed \subseteq Servers /\ unread \subseteq Servers /\ orphans \subseteq Servers
  /\ pc \in [Servers -> {"idle", "connect", "connected", "missed", "blame", "find", "move", "cut", "status",
                         "rejoin", "rejoinSlave", "done", "dead"}]
  /\ mark \in [Servers -> [len : Nat, at : Nat]] /\ spent \in [Events -> Nat]
  /\ tick \in {"idle", "pings", "roles", "check", "panic"}
  /\ handler \in [step : {"off", "elect", "promote", "find", "move", "cut", "demote"},
                   key : Nat, len : Nat, at : Nat, old : None]

(* A server is declared failed only after a Ping of its own that got no     *)
(* connection, although Ping sets the state of whatever GetMaster returns   *)
(* and a count survives reconnections.  No switchover ran: it changes the   *)
(* master between the comparison and the assignment.                        *)
FailedMissed ==
  [][\A s \in Servers : State[s] # Failed /\ State'[s] = Failed /\ spent["switch"] = 0 => s \in missed]_vars

(* CheckFailed replaces a master only when the last Ping of that very       *)
(* server got no connection, or got one and could not read the server: a    *)
(* state or a count left over from an earlier outage causes no failover     *)
(* once a Ping has read the server again.  No switchover ran, and the       *)
(* manager does not hold a last master: after an outage of the whole        *)
(* cluster FindMaster overwrites the PrevState of the failed server it      *)
(* takes for the master, and Ping then no longer knows that this server was *)
(* failed.                                                                  *)
PromotesMissed ==
  [][tick = "check" /\ tick' = "idle" /\ master' # master /\ spent["switch"] = 0 /\ lastmaster = nil
       => master \in missed \cup unread]_vars

(* With one server at a time out of reach, or not yet seen to be back, and  *)
(* no switchover, the unlocked deletes and appends of the Pings leave no    *)
(* empty slot in the list of slaves, and no loop over it meets a nil        *)
(* pointer; nor do switchovers as long as every server is in reach.  With   *)
(* both, the handler and a Ping may delete at once: the list then has a     *)
(* hole, or the handler's index lies behind its end.                        *)
ListIntact ==
  spent["switch"] = 0 \/ spent["outage"] = 0 => tick # "panic" /\ \A k \in 1..slaves : slots[k] # nil

(* Once the cluster is discovered, a manager whose master is lost has one   *)
(* in reach again, the old one or the one CheckFailed puts in its place,    *)
(* whatever it was doing and a switchover had left behind, unless a nil     *)
(* pointer ends it.                                                         *)
Replaced ==
  discovered /\ master \notin up ~> master \in up \/ tick = "panic"

(* When all servers stay in reach, a manager that lives finally regards     *)
(* none of them as failed or suspect: every way out of such a state is      *)
(* taken in the end.  No switchover loses its old or its new master on the  *)
(* way: a new master that could not be reset returns as a relay.            *)
Heals ==
  /\ [](handler.step # "off" => {master, handler.old} \subseteq up \cup {nil})
  /\ <>[](up = Servers /\ tick # "panic")
  => <>[](\A s \in Servers : ~IsDown(s))
================================================================================
