# TLA+ models of replication-manager

replication-manager watches clusters of MariaDB/MySQL servers, replaces a
failed master (failover), exchanges masters on demand (switchover), brings
returned servers back (rejoin, reseed), and can itself run in several instances
that an external arbitrator tells apart. This directory models the parts in
which an ordering nobody tested loses data or leaves two masters.

## Inventory

| Part | State it keeps | Operations | Interacts with | What makes it correct |
| --- | --- | --- | --- | --- |
| Arbitrator (`arbitrator/arbitrator.go`, `utils/dbhelper/arbitration.go`) | table `heartbeat`, one row per manager | `/heartbeat`, `/arbitrator` | managers, over HTTP; SQLite or MySQL | at most one elected manager; an election ends before the next; a dead manager does not block the others |
| Split-brain heartbeat (`cluster/cluster_split.go`, `SetArbitratorReport`, `LostArbitration`) | `IsSplitBrain`, `IsSplitBrainBck`, `IsFailedArbitrator`, `Status` | `Heartbeat`, `ArbitratorElection` | arbitrator; runs beside `TopologyDiscover`; the server loop writes `IsSplitBrain` | it returns; one active manager; a loser never breaks its own master |
| Peer heartbeat (`server/server.go`) | `SplitBrain` | `Heartbeat`, `HeartbeatPeerSplitBrain` | other managers | split brain means that no peer is reached |
| Failure detection (`cluster/srv.go`) | `State`, `PrevState`, `FailCount`, cached replication | `Ping`, `Refresh`, `CheckReplication` | one goroutine per server and tick, all writing `cluster.slaves` | only a server that cannot be reached is failed; a server that can be reached recovers |
| Topology discovery (`cluster/cluster_topo.go`) | rebuilds `master`, `slaves` each tick | `TopologyDiscover`, `TopologyClusterDown` | all of the above, without a common lock | does not undo a change; a lost master is replaced |
| Failover guard (`cluster/cluster_chk.go`) | `FailoverCtr`, `FailoverTs` | `CheckFailed` and its conditions | state machine, arbitrator, `MasterFailover` | no failover of a healthy master |
| Failover and switchover (`cluster/cluster_fail.go`) | `master`, `oldMaster`, `slaves`, `Crashes` | `MasterFailover`, elections, `SwitchSlavesToMaster`, `VMasterFailover` | databases, proxies, API handlers | one change at a time, one writable server, nothing received is lost, the record of the change is true |
| Rejoin (`cluster/srv_rejoin.go`, `cluster/crash.go`) | `Crashes`, `canFlashBack` | `RejoinMaster`, `rejoinSlave` and their variants | databases, backups, the `Ping` of the server | a server let back has no transaction the master lacks; what is undone was saved |
| Jobs, backups, reseeding (`srv_job.go`, `srv_bck.go`, `cluster_sst.go`) | jobs table, `IsReseeding` | request, tick, sender, script, cancel | databases, scripts on their hosts | one restore of a server at a time; an error releases the server |
| State machine (`utils/state/state.go`) | open states, `InFailover`, `Discovered` | set, resolve, flag | everyone | the flag goes down again |
| Proxies (`prx*.go`), provisioning (`prov*.go`), API, configuration, metrics, clients, regression tests | see the files | adapters, conversions | external programs | not modelled |

Hard behaviours: the cluster loop, API handlers, one `Ping` per server and the
goroutines of a restore share `cluster.master`, `cluster.slaves` and flags
without holding a lock across a decision; HTTP calls time out while the
arbitrator still serves them; SQL statements fail half way and the error is
logged; managers, scripts and databases stop anywhere. `PROJECT.json` lists them
as hazards.

## Modules

    Arbiter       what the arbitrator promises (abstract)
      ^ refines
    Arbitration   managers, calls, arbitrator table    <- MCArbitration, ArbitrationProofs
    Failover      MasterFailover and its callers       <- MCFailover, FailoverProofs <- FailoverLoopProofs
    Detection     Ping, TopologyDiscover, CheckFailed  <- MCDetection, DetectionProofs
    Rejoin        RejoinMaster and rejoinSlave         <- MCRejoin, RejoinProofs
    Reseed        requests, jobs, senders, script      <- MCReseed, ReseedProofs

A module is extended by its MC module, which TLC runs, and by the module of its
proofs.

Failover, Detection, Rejoin and Reseed look at one system at different grains.
Detection is the loop around all of them: the steps of a failover and of a
rejoin are one step there. Rejoin has the histories of the servers and a
failover in one step; what a failover does in many steps is Failover, what a
restore does is Reseed.

### Arbitration

One row of `heartbeat` per manager is `row[m]`; `fresh` stands for the ten-second
window of the query in `WriteHeartbeat`. A call is a record that walks through
the statements of its handler, one per step: `insert`, `count`, `reset` for a
report, `request` (a transaction, hence one step) and `master` for an election.
`call[m]` holds several, because a client that gave up (`GiveUp`) leaves its
call with the arbitrator, which may serve it later. The manager is the cluster
loop: `HeartbeatStart`, the answer or failure of the report, up to three
`ArbitratorElection`s, `HeartbeatEnd`, then `CheckFailed` with the request of
`isActiveArbitration`, which carries no failed count. Re-reads of
`IsSplitBrain` and of the elected row in `handlerArbitrator` are steps of their
own. So is the second read of the master: `ElectionAnswered` compares the masters
(`IsVictim`) and keeps the answer, `LostArbitration` reads the master again and
attaches it, and when there is none any more the process ends with the nil
pointer. Everything that makes a manager see
other databases (`TopologyDiscover` beside `Heartbeat`) is `ViewChanges`. Only one
cluster and one secret are modelled; `LostMajority` feeds a warning and is left
out, and so is `/forget/`, whose route has the method `PST`.

### Failover

A MariaDB GTID master-slave cluster with `failover-readonly-state` on;
autorejoin, arbitration, relay servers, multi-master, preferred hosts and a
minimum time between failovers off. The state of a goroutine inside
`MasterFailover` is `pc[p]`; what it keeps in local variables is `fail`, `list`
and `cand` (the index into `cluster.slaves`, later the range of
`SwitchSlavesToMaster`) and `crash`. Everything else is read from the shared fields
at each step. The test of the flag (`IsInFailover`) and its assignment
(`SetFailoverState`) are two steps. `Named` says what an index means after the
list has changed; `Panic` is the index out of range or the missing replication
status, recovered by net/http in a handler and fatal in the loop, with the
deferred `RemoveFailoverState` either way. The statements one step sends to a
server succeed or fail together.

A server is `read_only` or not, replicates from `source`, has executed `log` and
holds `relay`; `applied` says whose `gtid_slave_pos` is not empty. The wait for the
relay log is cut where the code reads: `GetMSlaveStatus` (the received position;
nothing is waited for when `gtid_slave_pos` is empty), `ReadAllRelayLogs` (the
comparison with what is executed by then), and `RefreshReplications`, the rest of
the first `Refresh`, which fetches the received position once more: this last one
is what the crash record takes. A position is the number of transactions, as the sum of
sequence numbers is for `electFailoverCandidate`. The environment (clients,
replication threads, servers that stop) is external. `WaitSyncToMaster` may time
out, so nothing is concluded from it.

`SerialSpec` is `Spec` restricted to the behaviours in which the flag does its
job. `fo_overlap` shows that the code does not guarantee this; the properties
checked under `SerialSpec` are what a repaired flag would give.

### Detection

A tick of `Cluster.Run`: `StartPings` starts a goroutine per server, whose place
in `Ping` is `pc[s]`; when all are done, `RebuildTopology` and `FindMaster` are the
two halves of `TopologyDiscover` (the loop over the servers, then the roles
derived from the first slave), and `CheckFailed` ends the tick. The fields of a
`ServerMonitor` are `State`, `PrevState`, `FailCount` and what `Refresh` caches
(`isSlave`, `replication`, `dumps`); the databases' own state (`up`, `source`)
is separate, so the cache can be stale (`read_only` is left to Failover and
Rejoin). `cluster.slaves` is a slice:
`slots` is its backing array, `slaves` its length; `append` reuses a slot behind
the last one, and the unlocked `serverList.delete`, which moves the last server
into the free place, is three steps (`DeleteFind`, `DeleteMove`, `DeleteCut`) that
Pings interleave. `MaxDown` bounds the servers that are out of reach or back and
not yet seen by a Ping. `BlameMaster` is the second call of `GetMaster()`.
`RefreshFails` is a connection that is there and a server that cannot be read:
`Ping` returns early with state and count as they were, goes on with what is
cached or without a replication, or does not learn the replication at all.
`missed` and `unread` record which it was, for the properties.

A switchover of an API handler runs beside all this and is cut where it reads or
writes the list: it elects an index, reads the index again for the new master
and once more for the server to delete, deletes it in the same three unlocked
steps as a Ping, and much later appends the old master. An index behind the end
or an empty slot is a panic. An `append` is one step. The failover of the loop,
which runs when no Ping does, is one step.

Autorejoin, `failover-readonly-state` and `replication-no-relay` are on;
multi-master, relays, arbitration, maintenance, ignored servers, wsrep and
group replication off. Of the guards of `CheckFailed` those that this
configuration satisfies are left out: the time since the last failover, the
limit to their number, arbitration, the checks for false positives, the
interactive mode. Replication threads run wherever replication is
configured, and the first connection to each server has been made.

### Rejoin

The rejoin of server s is `pc[s]`, from `PingConnects` through `RejoinMaster`,
`backupBinlog`, the two halves of `rejoinMasterIncremental` (read the position,
close the server), the comparison, and one of the ways back: in sync, flashback,
restore. `rejoinSlave` is the other branch of `Ping` and the repair in
`TopologyDiscover`. A transaction has a server of origin and its sequence number
is its place in the log; a GTID position is the origin and the number of the
last transaction, and `GetSeqServerIdNos` finds nothing when the last
transaction is another server's, as in MariaDB with one domain. `Crashes` is
the sequence of records, looked up by the crashed server (the oldest record)
or by the elected one. `canFlashBack` is one flag of the cluster; `saved` says
which servers' events really are in a backup file. MariaDB with GTID and one
domain, no relay, no maxscale and no switchover. A server starts writable or
read only, whatever it was; clients send writes to no replica. A failover is one
step; `Busy` is the Ping or the `RejoinMaster` that meets one with its flag up: the
server is then not closed, or not rejoined, and no later Ping tries again.

### Reseed

One database server with its jobs table (`jobs`, one row per task), the flag
`IsReseeding` (`flag`), the requests (`pc`, `task`), the tick that reads the table
one query at a time and later acts on what it read (`tick`, `todo`, `release`),
the waiting state whose disappearance starts the sender (`opened`, `found`), the
sender (`send`) and the script on the database host (`script`, external, modelled
from the script `dbjobs_new` in
`share/opensvc/moduleset_mariadb.svc.mrm.db.json`). One step is one SQL statement:
a request deletes the old row (`DeleteRow`) and inserts the new one (`InsertRow`),
and the tick tests the flag (`HasReseedingState`) after its query and before it
acts. Physical, logical and direct restores differ in who takes the flag down. `MaxLoop` stands
for the ten looks of a waiting sender; `Prompt` says that a script which has taken
a job listens within these 150 seconds. The server stays up and writable, and no
failover, rolling restart or point-in-time recovery is under way: the early
returns of `JobInsertTask` and `JobsCheckStates`.

## Runs

Passing:

| Run | Checks | Bounds |
| --- | --- | --- |
| `arb_views` | `TypeOK`, `AtMostOneElected`, `NeverAttachedToItself` (no change of a view), `LosesOnlyToAnother`, `ActiveIsRegistered`, `ArbiterSpec` (refinement of `Arbiter`) | 2 managers, 2 hosts, one change of a view, one lost call, one cut |
| `arb_dead_manager` | `HeartbeatReturns`, `StaleElectionCleared` (one manager left) | two crashes, a restart, one failing SQL statement, no lost call |
| `fo_loop` | `OneWriter`, `NothingReceivedIsLost`, `CrashPositionExecuted` | 3 servers, the loop alone, 2 transactions, a switchover, a false alarm, 2 crashes |
| `fo_serial` | `TypeOK`, `NeverReplicatesFromItself` | 3 servers, the loop and a handler, 2 calls, a crash, a failing statement |
| `fo_flag` | `MonitoringResumes` | 2 servers, overlapping changes and a proxy change, a crash, a failing statement |
| `det_outage` | `TypeOK`, `FailedMissed`, `PromotesMissed` | 3 servers, fail count 2, no switchover, at most 3 of: outages (which may overlap), one refused connection, one failing statement |
| `det_heals` | `ListIntact`, `Replaced`, `Heals` | 3 servers, fail count 2, one server down at a time, at most 2 of: outages, a switchover, a refused connection, a failing statement |
| `rs_jobs` | `TypeOK`, `RestoreFlagged`, `ErrorReleases`, `HaltedCancelled` | 3 kinds of restore, 2 requests, one sender, one script, one fault |
| `rj_returns` | `TypeOK`, `InPlace`, `FlashbackSaved`, `ReplicaClosed`, `Rejoins` | 3 servers, 2 transactions, 2 crashes, one failing statement or command or one meeting with a change of the master |

The properties name their conditions: `NeverAttachedToItself` holds while no view
changes, `StaleElectionCleared` for the last manager left, `ListIntact` without a
switchover or without an outage, `FailedMissed` and `PromotesMissed` without a
switchover, `CrashPositionExecuted` and `NothingReceivedIsLost` without a false
alarm and for candidates that are waited for, `MonitoringResumes` for the changes
of the master and of the proxy list. Outside these conditions the code, and the
model, do otherwise; the list below says what.

Two managers give every pair of concurrent elections and an election that is
stale, two hosts let them disagree. The bounds on faults are the least at which
each fault can hit each phase of the protocol; longer sequences of faults are
covered only by the theorems, which have no bounds. `arb_dead_manager` loses no
call, as its fairness requires. Symmetry is used in runs of invariants and of
`ArbiterSpec`, which is a safety property. Three servers give a master, a
candidate and a slave to move; the crash record and the roles of two successive
changes need two calls. A fail count of 2 separates the first miss, the miss
that meets the limit and those past it. With three outages a second server
fails while the first is away and one returns between two ticks. `rs_jobs` has
one sender, so a tick that would start a second one waits for the first to end.
Two crashes in `rj_returns` let the second master fail while the first is away,
which makes records older than the last failover.

The Failover and Rejoin runs do not check for deadlock: with their bounds spent
and a process dead, or all servers back, nothing is left to do. Neither do the
Detection runs: with two servers down, or with a switchover that meets an
outage, a nil pointer or an index out of range ends the manager.

Disagreements between the code and what the repository says of it (each a run
that TLC must find violated):

| Run | What the code does |
| --- | --- |
| `arb_one_active` | a report resets the sender's own election (`INSERT OR REPLACE`), so a second manager is elected while the first stays active |
| `fo_overlap` | two goroutines are inside `MasterFailover` |
| `rj_slave_behind` | a replica that missed a failover and had received more than the elected server is moved to it without a comparison |

Also in the models, without a run; the properties above name these cases in
their conditions where they would be false otherwise:

- Arbitration: the last peer of the list alone decides about the split brain;
  the request before a failover counts as 0 failed nodes and wins against a
  manager that sees more; a split brain is never arbitrated again after three
  lost answers, or when `IsSplitBrain` changes between the test in `Heartbeat` and
  the assignment of its backup; a standby manager fails over; a discovery
  between the comparison and the second read of the master makes
  `LostArbitration` attach the winner's master to itself (`cluster.go:1694`); two
  survivors that report different masters keep the election of a dead manager
  alive, because `WriteHeartbeat` resets only when one master is reported.
- Failover: a switchover waits for the position the candidate had received, not
  for that of the frozen master; a failover of the API that completes after
  `CheckFailed` lets the loop replace the healthy new master; `failover-limit` is
  stepped over by failovers of the API because of the test with `==`; a candidate
  whose `gtid_slave_pos` is still empty is promoted with an unread relay log
  (`srv.go:1173`); when the old master still feeds the candidate, in a switchover
  whose freeze failed or after a false alarm, the crash record may be ahead of what
  was executed; a freeze that fails leaves two servers open for writes.
- Detection: a switchover between the comparison and `GetMaster()` in `Ping` makes
  the new master fail; `slaves[0]` with a stale replication makes the old master
  the master again (`cluster_topo.go:393`); a replica lost before the topology was
  known counts past the limit and stays suspect while it is away
  (`srv.go:491`); after a stop of all servers a replica may be promoted although
  the last master was to be waited for (`cluster_topo.go:531`), and while a last
  master is held `FindMaster` overwrites the `PrevState` of a failed server, so that
  one whose Ping succeeded may be replaced (`PromotesMissed` is stated for
  `lastmaster = nil`); two replicas that
  fail in one tick, or one that fails during a switchover, may leave an empty slot
  in `cluster.slaves`, which the next loop over it dereferences, and the index of
  the elected slave may lie behind the end of the list by the time it is used; a
  new master lost during the switchover, whose `RESET SLAVE` failed, comes back as
  a relay that no branch of `Ping` heals.
- Rejoin: `canFlashBack` is shared by concurrent rejoins and stays up when the
  backup command cannot be started; the oldest record of a server is used;
  only the sequence number of the server's own id is compared, so a server
  whose last transaction is another's counts as not ahead, and so does one
  whose binary log could not be searched; a rejoin that fails, or that meets the
  flag of a change (`srv_rejoin.go:55`), is not retried; a replica that is
  restarted writable and already points at the master stays open
  (`srv_rejoin.go:546`).
  `rejoinSlave` and the repair in `TopologyDiscover` attach a replica without a
  comparison, so a server may have another history than the one it replicates
  from, and after a flashback sequence numbers are used again; `InPlace` is
  therefore stated for servers that had one history up to the election
  (`OneHistory`).
- Reseed: two requests at once pass the test of the flag; a load takes the flag
  down whoever holds it; a script that takes the job between two ticks never
  makes the manager send, and the server stays flagged as reseeding.

## Fairness

`Arbitration!FairSpec`: a running manager keeps looping, the server loop keeps
asking its peers, the arbitrator serves calls it has received, rows age. Losses,
crashes and changes of links and views are not fair, and neither is the end of
a hanging call: `arb_dead_manager` says nothing about an arbitrator that accepts
calls and never answers (`isActiveArbitration` has no timeout and would wait
forever). `Failover!FairSpec`: a goroutine in a call keeps running and the SQL
thread of a replica applies what it has received; without the latter
`ReadAllRelayLogs` may loop forever, which is what the code does.
`Detection!FairSpec`: the loop ticks, each Ping runs to its end (connections have
timeouts) and a switchover that has begun ends: weak fairness of the loop with
its Pings, and of the handler. A tick has finitely many steps and waits for its
Pings, so none of them is starved. `Rejoin!FairSpec`: the Pings go
on, a rejoin runs to its end, and the loop replaces a failed master while a
replica can be elected. `Reseed!FairSpec`: goroutines run, the tick comes back
and cron starts the script again. In none of them is a fault, a request, or the
return of a server fair.

## Proofs

TLAPS proves every invariant and every action property of the passing runs for
all values of the constants that satisfy the named assumptions: any number of
managers, servers, goroutines, requests, transactions and faults. The `ASSUME`s
say only that `nil` is not a server, that sets are finite where the code counts
them, that options are Boolean, that a cluster has two servers and a fail count
of at least 1, and that bounds are natural numbers. Hypotheses that appear in a theorem
are written below; each is satisfied by the run that checks the same property.

**Arbitration.**

- `TypeCorrect`, `Spec => []TypeOK`.
- `ElectionUnique`, `Spec => []AtMostOneElected`. Inductive together with `TypeOK`:
  `RequestArbitration` is the only step that makes a row 'E', and its guard leaves
  no other.
- `ImplementsArbiter`, `Spec => ArbiterSpec`: each step of the protocol is an
  election, a clearing or a stutter of the abstract arbiter. It needs
  `AtMostOneElected`, because a report or a reset must leave nobody elected.
- `LoserNotAttachedToItself`, `Spec => []NeverAttachedToItself`. `Compared` carries the
  comparison to the second read: as long as no view has changed, the answer a
  loser still holds names another server than its master.
- `ActiveRegistered`, `Spec => []ActiveIsRegistered`. The invariant follows a winning
  answer through the calls, those a client has given up included: its row was
  inserted in the transaction that made it win, and no step removes a row.
- `LostToAnother`, `Spec => []LosesOnlyToAnother`, likewise for a refusal: the row it
  lost to belongs to another manager and stays.

**Failover.** `Located` (types; a goroutine about to exchange the roles has elected
a member of its list, one past the exchange finds a server in `oldMaster`) holds
of all behaviours. `Apart` (the master is neither the old master nor in `slaves`,
the slave being moved is not the master) holds only while one change runs at a
time: with `Spec` the fields are read again after another goroutine has exchanged
the roles.

- `FailoverTypes`, `Spec => []TypeOK`, from `Located`.
- `NoSelfReplication`, `SerialSpec => []NeverReplicatesFromItself`, from `Apart`.

`FailoverLoopProofs` adds the hypothesis of `fo_loop`, `LoopAlone`: no API handlers
(`Api = {}`) and no statement that fails on a server that is up (`MaxError = 0`).

- `LoopKeepsOneWriter`, `LoopAlone /\ Spec => []OneWriter`. Needs `Waits` (the loop
  starts a change only when the Pings of the tick are over, and the flag is up
  only inside one) and `Condemned` (until the roles are exchanged, the master of a
  failover is still failed): otherwise a late Ping would clear the failed state
  of an old master that nobody closes.
- `LoopLosesNothingReceived`, `LoopAlone /\ Spec => []NothingReceivedIsLost`. The code
  compares positions by size. This is right because, without a false alarm and
  without a switchover, all servers still there hold beginnings of one history
  (`OneHistory`), and of two sets that agree with each other the larger contains the
  smaller (`LongestContains`). That the histories agree rests on `Numbered` (commits
  are numbered in order), `Fed` (a slave receives from the master or from nobody),
  `Drained` (a master open for writes has executed its relay log) and `Genuine`
  (only servers that are down are failed, so only the master is written);
  `Chosen` carries the result of the election to the exchange. A candidate that is
  not waited for because its `gtid_slave_pos` is empty breaks `Drained`, so `Calm`
  excludes it.
- `RecordsAreExecuted`, `LoopAlone /\ Spec => []CrashPositionExecuted`. The position
  recorded is fetched after the one compared, so it may be newer. It is not, in a
  failover without a false alarm, because nobody feeds the candidate any more:
  `Sourced` says that every server up replicates from the master or is about to
  be moved to it, hence the candidate from the old one, which is down; `Seen`
  follows the two positions through the steps of the wait, `Recorded` the record.
  `Truthful` is these three, as long as there was no false alarm and every
  candidate was waited for.

**Detection.** `Sound` adds to the types that the index and the length a deleting
Ping holds lie inside the array (`MarkInside`), that Pings run only in their part
of the tick, that the list `FindMaster` reads has no hole, and the same for the
handler of a switchover (`Handling`: the flag is up while it runs, it changes the
master between two servers, its index and length lie inside the array).

- `DetectionTypes`, `Spec => []TypeOK`.
- `FailedAreMissed`, `Spec => FailedMissed`. `Missing` and `Blamed`: whoever is about to
  be declared failed is the server of the Ping that got no connection.
- `ListStaysIntact`, `MaxDown = 1 /\ Spec => []ListIntact`. With one server out of
  reach at most one Ping deletes (`OneOut`); before the first outage no Ping does
  (`Untouched`) and the handler deletes alone. Either way the length the deleting
  goroutine has read, and the index the handler has elected, are never behind the
  end of the list at the time they are used (`Within`): the others only append.
  With two servers away, or with an outage during a switchover, the property is
  false, see above.
- `OnlyMissedReplaced`, `Spec => PromotesMissed`. `Recent` says how a server leaves the
  state Failed: `Ping` decides by `PrevState`, so a failed server must have been
  failed at its previous Ping as well (`PrevFailed`), which only the outage of a
  whole cluster disturbs; then a server whose last Ping had a connection and read
  the server is not failed (`Reached`).

**Rejoin.**

- `RejoinTypes`, `Spec => []TypeOK`, which includes that nobody replicates from
  itself. `Located` adds that logs are not longer than the number of writes, that
  neither the master nor a server that rejoins has a source, so that no failover
  elects the latter, and that a server past the first test of `RejoinMaster` is
  not the master.
- `ReplicasAreClosed`, `Spec => ReplicaClosed`, from `Closed`: while nothing failed
  and no failover ran beside it, a server that rejoins is up and was closed by
  the Ping that found it, however it was restarted; `rejoinSlave` and a failover
  close what they move themselves. Nothing is said of a replica that restarts
  writable and already points at the master.
- `UndoneIsSaved`, `Spec => []FlashbackSaved`, from `Alone`: one server rejoins at a
  time, so `canFlashBack` speaks of its file.
- `ComesBackInPlace`, `Spec => InPlace`, from `Compared`: the position that was compared
  is still that of the closed server, and the log of the master still begins with
  what the elected server had at the election.

**Reseed.** `Prompt` is a constant of the model (see above).

- `ReseedTypes`, `Spec => []TypeOK`.
- `RestoresAreFlagged`, `Prompt /\ Spec => []RestoreFlagged`. The
  requests, the tick, the sender and the script communicate only through the
  flag and the row. `Served` says together: one request
  is being started and the flag names it (`OneRequest`), the row tells how far the
  job is (`RowsTell`), one script and one sender work for the holder of the flag
  (`OneScript`, `OneSender`), and what the tick has read is still so (`TickKnows`),
  also between its query and its test of the flag.

The inductive invariants hold in TLC under the configurations of the runs too,
which is how they were found.

Only model-checked: the liveness properties (`HeartbeatReturns`,
`StaleElectionCleared`, `MonitoringResumes`, `Replaced`, `Heals`, `ErrorReleases`,
`HaltedCancelled`, `Rejoins`), which are out of the prover's reach, and the three
violations.

## Plan

1. Refinement: the one-step failover of Rejoin and Detection as an abstraction
   of the steps of Failover.
2. Theorems that say more than the runs: `OneWriter` and
   `NothingReceivedIsLost` with handlers, under `SerialSpec`.
3. Modelling that is left: `electFailoverCandidate` with its filters against a
   reference, the state machine over the ticks, `VMasterFailover`.

## Not modelled

Proxies, provisioning and orchestrators, metrics, clients, configuration,
secrets and the HTTP layer: adapters to external programs and conversions,
which make up most of the repository's lines and keep little state of their
own. The making of backups and their files, binary log parsing and purge: file
and stream handling. Ring, wsrep and group replication topologies
(`VMasterFailover`), positional replication, relays and maxscale. What a database
does with a statement beyond the fields above.
