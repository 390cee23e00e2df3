--------------------------------- MODULE Rejoin ---------------------------------
(***************************************************************************)
(* What a rejoin does to the data.  A master that failed comes back         *)
(* without replication and maybe with transactions that the elected master  *)
(* never received.  RejoinMaster, in the Ping goroutine of that server,     *)
(* compares its GTID position with the crash record of the failover and     *)
(* lets it replicate, flashes it back, or restores it.  A replica that      *)
(* comes back is pointed at the new master without a comparison.            *)
(*                                                                          *)
(* MariaDB with GTID and one domain, no relay, no maxscale, no switchover,   *)
(* autorejoin and failover-readonly-state on, a master is known.  A         *)
(* transaction is <<server of origin, number>>, its sequence number is its  *)
(* place in the log.  Failover models a failover statement by statement,    *)
(* Reseed a restore, Detection the states and the lists; they are one step  *)
(* each here.                                                               *)
(***************************************************************************)
EXTENDS Naturals, Sequences, SequencesExt, FiniteSetsExt

CONSTANTS
  Servers,
  NoServer,
  FirstMaster,       \* the master at the start
  BackupBinlog,      \* autorejoin-backup-binlog
  Flashback,         \* autorejoin-flashback
  ForceRestore,      \* autorejoin-force-restore
  Autoseed,          \* autoseed
  MaxWrite,          \* bound: transactions
  MaxCrash,          \* bound: stops of servers
  MaxError           \* bound: statements and commands that fail on a live server, Pings that meet a change

ASSUME ServersAssumption == NoServer \notin Servers /\ FirstMaster \in Servers
ASSUME ConfAssumption == {BackupBinlog, Flashback, ForceRestore, Autoseed} \subseteq BOOLEAN
ASSUME BoundAssumption == {MaxWrite, MaxCrash, MaxError} \subseteq Nat

VARIABLES
  up, log, source, readOnly, \* the databases
  failed,            \* servers in state Failed
  master, oldMaster, \* cluster.master, cluster.oldMaster
  Crashes,           \* cluster.Crashes
  canFlashBack,      \* cluster.canFlashBack, one for all servers
  pc, crash,         \* where the rejoin of a server is, the record it uses
  CurrentGtid,       \* the position a server had at its last Refresh
  saved,             \* servers whose lost events are in a backup file
  spent              \* environment steps taken, against the bounds

dbVars   == <<up, log, source, readOnly>>
roleVars == <<failed, master, oldMaster, Crashes>>
runVars  == <<canFlashBack, pc, crash, CurrentGtid, saved>>
vars == <<up, log, source, readOnly, failed, master, oldMaster, Crashes, canFlashBack, pc, crash, CurrentGtid,
          saved, spent>>

Sources == Servers \cup {NoServer}
Trx == Servers \X (1..MaxWrite)

(* A GTID: server of origin and sequence number. *)
Gtid(l) == IF l = <<>> THEN <<NoServer, 0>> ELSE <<Last(l)[1], Len(l)>>
GetSeqServerIdNos(g, s) == IF g[1] = s THEN g[2] ELSE 0

Crash(u, e, g) == [url |-> u, elected |-> e, FailoverIOGtid |-> g]
NoCrash == Crash(NoServer, NoServer, <<NoServer, 0>>)

(* A change of the master beside a rejoin is "busy" when the rejoin finds   *)
(* its flag up, "overlap" when it ends between two steps of the rejoin.     *)
Events == {"write", "crash", "error", "overlap", "unstarted", "busy"}
Spend(e) == spent' = [spent EXCEPT ![e] = @ + 1]
Goto(s, l) == pc' = [pc EXCEPT ![s] = l]
Succeeds(s) == s \in up /\ UNCHANGED spent
MayDisturb == spent["error"] + spent["unstarted"] + spent["busy"] < MaxError
Fails(s) == (s \in up => MayDisturb) /\ Spend("error")
Unstarted == MayDisturb /\ Spend("unstarted")
Busy == MayDisturb /\ Spend("busy")
Closes(s) == \/ Succeeds(s) /\ readOnly' = readOnly \cup {s}
             \/ Fails(s) /\ UNCHANGED readOnly

--------------------------------------------------------------------------------
(* The database servers: external. *)

(* Writes are sent to no replica. *)
ClientWrites(s) ==
  /\ s \in up \ readOnly /\ source[s] = NoServer /\ spent["write"] < MaxWrite /\ Spend("write")
  /\ log' = [log EXCEPT ![s] = Append(@, <<s, spent["write"] + 1>>)]
  /\ UNCHANGED <<up, source, readOnly, roleVars, runVars>>

(* A replica goes on after its own position when its master knows it. *)
Replicates(s) ==
  LET m == source[s] IN
  /\ s \in up /\ m \in up
  /\ Len(log[s]) < Len(log[m])
  /\ log[s] # <<>> => Last(log[s])[1] = log[m][Len(log[s])][1]
  /\ log' = [log EXCEPT ![s] = Append(@, log[m][Len(@) + 1])]
  /\ UNCHANGED <<up, source, readOnly, roleVars, runVars, spent>>

(* A stop in the middle of a rejoin breaks its connection. *)
ServerStops(s) ==
  /\ s \in up /\ spent["crash"] < MaxCrash
  /\ spent' = [spent EXCEPT !["crash"] = @ + 1, !["error"] = IF pc[s] = "idle" THEN @ ELSE @ + 1]
  /\ up' = up \ {s}
  /\ UNCHANGED <<log, source, readOnly, roleVars, runVars>>

(* It starts read only or not, as its configuration file says. *)
ServerStarts(s) ==
  /\ s \notin up /\ up' = up \cup {s}
  /\ readOnly' \in {readOnly \cup {s}, readOnly \ {s}}
  /\ UNCHANGED <<log, source, roleVars, runVars, spent>>

--------------------------------------------------------------------------------
(* Monitoring and failover, in single steps. *)

Idle == \A s \in Servers : pc[s] = "idle"

PingFails(s) ==
  /\ s \in Servers \ (up \cup failed) /\ pc[s] = "idle"
  /\ failed' = failed \cup {s}
  /\ UNCHANGED <<dbVars, master, oldMaster, Crashes, runVars, spent>>

(* A replica declared failed has left the list of slaves. *)
Slaves == {s \in Servers \ failed : source[s] # NoServer}
Elected == {s \in Slaves \cap up : \A o \in Slaves : Len(log[o]) <= Len(log[s])}

(* The loop waits for the Pings before it starts a failover; a handler of   *)
(* the API does not.                                                        *)
MasterFailover ==
  /\ master \in failed
  /\ \/ Idle /\ UNCHANGED spent
     \/ ~Idle /\ Spend("overlap")
  /\ \E c \in Elected :
       /\ master' = c /\ oldMaster' = master
       /\ Crashes' = Append(Crashes, Crash(master, c, Gtid(log[c])))
       /\ source' = [s \in Servers |-> IF s = c THEN NoServer ELSE IF s \in Slaves \cap up THEN c ELSE source[s]]
       /\ readOnly' = (readOnly \cup (Slaves \cap up)) \ {c}
  /\ UNCHANGED <<up, log, failed, runVars>>

(* TopologyDiscover: every server is up and none is unconnected. *)
PurgeCrashes ==
  /\ Idle /\ Crashes # <<>>
  /\ failed = {} /\ \A s \in Servers \ {master} : source[s] # NoServer
  /\ Crashes' = <<>>
  /\ UNCHANGED <<dbVars, failed, master, oldMaster, runVars, spent>>

--------------------------------------------------------------------------------
(* The rejoin of a server without replication. *)

(* Mutant: the server stays open when no rejoin by record will close it. *)
PingConnectsOpen(s) ==
  /\ pc[s] = "idle" /\ s \in failed \cap up /\ source[s] = NoServer
  /\ failed' = failed \ {s}
  /\ CurrentGtid' = [CurrentGtid EXCEPT ![s] = Gtid(log[s])]
  /\ Goto(s, "rejoin")
  /\ UNCHANGED <<up, log, source, readOnly, master, oldMaster, Crashes, canFlashBack, crash, saved, spent>>

(* Ping: the server is unconnected, and made read only unless a change of   *)
(* the master has begun since Ping looked for one.                          *)
PingConnects(s) ==
  /\ pc[s] = "idle" /\ s \in failed \cap up /\ source[s] = NoServer
  /\ failed' = failed \ {s}
  /\ CurrentGtid' = [CurrentGtid EXCEPT ![s] = Gtid(log[s])]
  /\ IF s = master THEN UNCHANGED <<readOnly, spent>> ELSE Closes(s) \/ (Busy /\ UNCHANGED readOnly)
  /\ Goto(s, "rejoin")
  /\ UNCHANGED <<up, log, source, master, oldMaster, Crashes, canFlashBack, crash, saved>>

(* The oldest record about the server. *)
getCrashFromJoiner(s) ==
  LET about == {i \in DOMAIN Crashes : Crashes[i].url = s}
  IN IF about = {} THEN NoCrash ELSE Crashes[Min(about)]

Incremental == IF ForceRestore THEN "sst" ELSE "refresh"

(* Mutant: autoseed is ignored. *)
UnknownNotSeeded(s) == IF s = oldMaster THEN "sst" ELSE "idle"

(* The way a server takes, with or without a record: a server that was not  *)
(* the last master is only seeded when that is asked for.                   *)
Unknown(s) == IF s = oldMaster \/ Autoseed THEN "sst" ELSE "idle"

(* Mutant: the server is not compared with the master. *)
WayBackAny(s, c) == IF c = NoCrash THEN Unknown(s) ELSE IF BackupBinlog THEN "backup" ELSE Incremental

WayBack(s, c) == IF s = master THEN "idle"
                 ELSE IF c = NoCrash THEN Unknown(s) ELSE IF BackupBinlog THEN "backup" ELSE Incremental

(* During a change of the master it returns, and no Ping calls it again. *)
RejoinMaster(s) ==
  /\ pc[s] = "rejoin"
  /\ \/ /\ canFlashBack' = TRUE
        /\ crash' = [crash EXCEPT ![s] = getCrashFromJoiner(s)]
        /\ Goto(s, WayBack(s, getCrashFromJoiner(s)))
        /\ IF \A o \in Servers \ {s} : pc[o] = "idle" THEN UNCHANGED spent ELSE Spend("overlap")
     \/ Busy /\ Goto(s, "idle") /\ UNCHANGED <<canFlashBack, crash>>
  /\ UNCHANGED <<dbVars, roleVars, CurrentGtid, saved>>

(* Mutant: a failing command leaves the flag up. *)
backupBinlogKeeps(s) ==
  /\ pc[s] = "backup"
  /\ \/ Succeeds(s) /\ saved' = saved \cup {s}
     \/ Fails(s) /\ saved' = saved \ {s}
  /\ Goto(s, Incremental)
  /\ UNCHANGED <<dbVars, roleVars, canFlashBack, crash, CurrentGtid>>

(* A command that cannot be started leaves the flag up. *)
backupBinlog(s) ==
  /\ pc[s] = "backup"
  /\ \/ Succeeds(s) /\ saved' = saved \cup {s} /\ UNCHANGED canFlashBack
     \/ Fails(s) /\ saved' = saved \ {s} /\ canFlashBack' = FALSE
     \/ Unstarted /\ saved' = saved \ {s} /\ UNCHANGED canFlashBack
  /\ Goto(s, Incremental)
  /\ UNCHANGED <<dbVars, roleVars, crash, CurrentGtid>>

(* rejoinMasterIncremental: the position is read, then the server is closed. *)
Refresh(s) ==
  /\ pc[s] = "refresh"
  /\ \/ Succeeds(s) /\ CurrentGtid' = [CurrentGtid EXCEPT ![s] = Gtid(log[s])]
     \/ Fails(s) /\ UNCHANGED CurrentGtid
  /\ Goto(s, "close")
  /\ UNCHANGED <<dbVars, roleVars, canFlashBack, crash, saved>>

SetReadOnly(s) ==
  /\ pc[s] = "close" /\ Closes(s)
  /\ Goto(s, "compare")
  /\ UNCHANGED <<up, log, source, roleVars, canFlashBack, crash, CurrentGtid, saved>>

UsedGtidAtElection(c) == c.FailoverIOGtid[2] > 0
Recorded(s) == GetSeqServerIdNos(crash[s].FailoverIOGtid, s)

(* Mutant: a record without a transaction of the server is no exception. *)
isReplicationAheadOfMasterElectionPlain(s, ahead) ==
  IF UsedGtidAtElection(crash[s])
  THEN ahead = (GetSeqServerIdNos(CurrentGtid[s], s) > Recorded(s) /\ Recorded(s) # 0) /\ UNCHANGED spent
  ELSE \/ Succeeds(s) /\ ahead = (log[s] # <<>>)
       \/ Fails(s) /\ ~ahead

(* Without a GTID in the record the binary log is searched for events after *)
(* the position of the election; when that fails the server is not ahead.   *)
isReplicationAheadOfMasterElection(s, ahead) ==
  IF UsedGtidAtElection(crash[s])
  THEN /\ ahead = (Recorded(s) = 0 \/ GetSeqServerIdNos(CurrentGtid[s], s) > Recorded(s))
       /\ UNCHANGED spent
  ELSE \/ Succeeds(s) /\ ahead = (log[s] # <<>>)
       \/ Fails(s) /\ ~ahead

(* The choice of the way back. *)
rejoinMasterIncremental(s) ==
  /\ pc[s] = "compare"
  /\ \E ahead \in BOOLEAN :
       /\ isReplicationAheadOfMasterElection(s, ahead)
       /\ Goto(s, IF ahead THEN "ahead" ELSE "sync")
       /\ canFlashBack' = (canFlashBack /\ (ahead => Recorded(s) # 0))
  /\ UNCHANGED <<dbVars, roleVars, crash, CurrentGtid, saved>>

ChooseFlashBack(s) ==
  /\ pc[s] = "ahead"
  /\ Goto(s, IF canFlashBack /\ Flashback /\ BackupBinlog THEN "flash" ELSE "sst")
  /\ UNCHANGED <<dbVars, roleVars, canFlashBack, crash, CurrentGtid, saved, spent>>

(* An error is returned and ignored: the server stays unconnected. *)
rejoinMasterSync(s) ==
  /\ pc[s] = "sync"
  /\ \/ Succeeds(s) /\ source' = [source EXCEPT ![s] = master]
     \/ Fails(s) /\ UNCHANGED source
  /\ saved' = saved \ {s}
  /\ Goto(s, "idle")
  /\ UNCHANGED <<up, log, readOnly, roleVars, canFlashBack, crash, CurrentGtid>>

Truncated(l, n) == IF n < Len(l) THEN SubSeq(l, 1, n) ELSE l

(* The saved events are undone; without the file the client runs an empty   *)
(* input and succeeds.                                                      *)
rejoinMasterFlashBack(s) ==
  /\ pc[s] = "flash"
  /\ \/ /\ Succeeds(s)
        /\ log' = [log EXCEPT ![s] = IF s \in saved THEN Truncated(@, crash[s].FailoverIOGtid[2]) ELSE @]
        /\ source' = [source EXCEPT ![s] = master]
        /\ saved' = saved \ {s} /\ Goto(s, "idle")
     \/ Fails(s) /\ UNCHANGED <<log, source, saved>> /\ Goto(s, "sst")
  /\ UNCHANGED <<up, readOnly, roleVars, canFlashBack, crash, CurrentGtid>>

(* RejoinMasterSST and ReseedMasterSST. *)
RejoinMasterSST(s) ==
  /\ pc[s] = "sst"
  /\ \/ /\ master \in up /\ Succeeds(s)
        /\ log' = [log EXCEPT ![s] = log[master]] /\ source' = [source EXCEPT ![s] = master]
     \/ /\ IF master \in up THEN Fails(s) ELSE Spend("error")
        /\ UNCHANGED <<log, source>>
  /\ saved' = saved \ {s}
  /\ Goto(s, "idle")
  /\ UNCHANGED <<up, readOnly, roleVars, canFlashBack, crash, CurrentGtid>>

--------------------------------------------------------------------------------
(* A server with replication that comes back, or that TopologyDiscover      *)
(* finds behind another server than the master.  It moves when some record  *)
(* names the master as elected; only one that was failed is closed then.    *)
getCrashFromMaster(m) == {c \in Range(Crashes) : c.elected = m}

rejoinSlave(s) ==
  /\ pc[s] = "idle" /\ s \in up /\ source[s] # NoServer
  /\ s \in failed \/ (source[s] # master /\ getCrashFromMaster(master) # {})
  /\ failed' = failed \ {s}
  /\ IF source[s] # master /\ s # master /\ getCrashFromMaster(master) # {}
     THEN \/ Succeeds(s) /\ source' = [source EXCEPT ![s] = master] /\ readOnly' = readOnly \cup ({s} \cap failed)
          \/ /\ Fails(s)
             /\ source' \in {source, [source EXCEPT ![s] = master]}
             /\ readOnly' \in {readOnly, readOnly \cup ({s} \cap failed)}
     ELSE UNCHANGED <<source, readOnly, spent>>
  /\ UNCHANGED <<up, log, master, oldMaster, Crashes, runVars>>

--------------------------------------------------------------------------------
(* A server may have been added without replication. *)
Init ==
  /\ up = Servers /\ master = FirstMaster /\ oldMaster = NoServer
  /\ log = [s \in Servers |-> <<>>]
  /\ \E added \in SUBSET (Servers \ {master}) :
       source = [s \in Servers |-> IF s \in added \cup {master} THEN NoServer ELSE master]
  /\ readOnly = Servers \ {master}
  /\ failed = {} /\ Crashes = <<>>
  /\ canFlashBack = FALSE
  /\ pc = [s \in Servers |-> "idle"] /\ crash = [s \in Servers |-> NoCrash]
  /\ CurrentGtid = [s \in Servers |-> <<NoServer, 0>>] /\ saved = {}
  /\ spent = [e \in Events |-> 0]

Rejoin(s) ==
  \/ RejoinMaster(s) \/ backupBinlog(s) \/ Refresh(s) \/ SetReadOnly(s) \/ rejoinMasterIncremental(s)
  \/ ChooseFlashBack(s) \/ rejoinMasterSync(s) \/ rejoinMasterFlashBack(s) \/ RejoinMasterSST(s)

Next ==
  \/ MasterFailover \/ PurgeCrashes
  \/ \E s \in Servers : \/ ClientWrites(s) \/ Replicates(s) \/ ServerStops(s) \/ ServerStarts(s)
                        \/ PingFails(s) \/ PingConnects(s) \/ rejoinSlave(s) \/ Rejoin(s)

Spec == Init /\ [][Next]_vars

(* The Pings go on, a rejoin runs to its end, and a failed master is        *)
(* replaced when a replica can be elected.                                  *)
FairSpec ==
  /\ Spec
  /\ WF_vars(MasterFailover)
  /\ \A s \in Servers : WF_vars(PingFails(s)) /\ WF_vars(PingConnects(s)) /\ WF_vars(rejoinSlave(s)) /\ WF_vars(Rejoin(s))
--------------------------------------------------------------------------------
(* Properties. *)

Labels == {"idle", "rejoin", "backup", "refresh", "close", "compare", "ahead", "flash", "sync", "sst"}
Gtids == Sources \X (0..MaxWrite)

TypeOK ==
  /\ up \subseteq Servers /\ readOnly \subseteq Servers /\ failed \subseteq Servers /\ saved \subseteq Servers
  /\ log \in [Servers -> Seq(Trx)]
  /\ source \in [Servers -> Sources] /\ \A s \in Servers : source[s] # s
  /\ master \in Servers /\ oldMaster \in Sources
  /\ Crashes \in Seq([url : Servers, elected : Servers, FailoverIOGtid : Gtids])
  /\ canFlashBack \in BOOLEAN
  /\ pc \in [Servers -> Labels]
  /\ crash \in [Servers -> [url : Sources, elected : Sources, FailoverIOGtid : Gtids]]
  /\ CurrentGtid \in [Servers -> Gtids]
  /\ spent \in [Events -> Nat]

(* A server let back without a restore, in sync or after a flashback, has   *)
(* no transaction that the master lacks, when the record used is that of    *)
(* the last failover, the last transaction of the server is its own,        *)
(* nothing failed or ran beside the rejoin, and up to the election the      *)
(* server and the elected one had one history: rejoinSlave may have         *)
(* attached a replica with another one to the server.  The code compares    *)
(* one sequence number of one server id to know.                            *)
Undisturbed == spent["error"] + spent["overlap"] + spent["unstarted"] + spent["busy"] = 0
OneHistory(s, c) ==
  LET at == Truncated(log[master], c.FailoverIOGtid[2]) IN IsPrefix(log[s], at) \/ IsPrefix(at, log[s])
InPlace ==
  [][\A s \in Servers :
       /\ pc[s] \in {"sync", "flash"} /\ source'[s] # source[s] /\ Undisturbed
       /\ Crashes # <<>> /\ crash[s] = Last(Crashes) /\ OneHistory(s, crash[s])
       /\ log[s] # <<>> /\ Last(log[s])[1] = s
       => IsPrefix(log'[s], log[master])]_vars

(* Transactions are undone only when they are in a backup file, although    *)
(* one flag of the cluster stands for the files of all servers, as long as  *)
(* one server rejoins at a time and the backup command can be started.      *)
FlashbackSaved ==
  spent["overlap"] + spent["unstarted"] = 0 => \A s \in Servers : pc[s] = "flash" => s \in saved

(* A server that is made a replica, by a rejoin, a restore or a failover,   *)
(* and a failed replica that is moved to the new master, are closed for     *)
(* writes by that time, unless a statement failed or a change of the master *)
(* ran beside the rejoin.  A replica that started writable and points at    *)
(* the master, or was not seen to fail, stays open: nothing here closes it. *)
ReplicaClosed ==
  [][\A s \in Servers :
       /\ source'[s] \notin {NoServer, source[s]} /\ (source[s] = NoServer \/ s \in failed \/ master' # master)
       /\ spent'["error"] + spent'["overlap"] + spent'["busy"] = 0
       => s \in readOnly']_vars

(* A failed server without replication that can be reached again becomes a  *)
(* replica or the master, unless it stops again, a statement fails, or its  *)
(* Ping meets a change of the master: such a rejoin is not tried again.     *)
Rejoins ==
  \A s \in Servers :
    (s \in failed \cap up /\ source[s] = NoServer) ~>
      (s = master \/ source[s] # NoServer \/ s \notin up \/ spent["error"] + spent["busy"] > 0)

--------------------------------------------------------------------------------
(* Claims of the repository that the code does not keep. *)

(* rejoinSlave compares no position: "A SLAVE IS ALWAY BEHIND MASTER".  A   *)
(* replica that is moved to the master has nothing that the master lacks.   *)
SlaveBehind ==
  [][\A s \in Servers :
       master' = master /\ source[s] # NoServer /\ source'[s] # source[s] => IsPrefix(log[s], log[master])]_vars
================================================================================
