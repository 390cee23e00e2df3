----------------------------- MODULE Arbitration -------------------------------
(***************************************************************************)
(* Several replication-manager instances watch one cluster.  When they     *)
(* lose sight of each other (split brain) they report to an external       *)
(* arbitrator and ask it which of them may act; the arbitrator keeps one   *)
(* heartbeat row per manager in a SQL table.  A manager also asks before   *)
(* an automatic failover.                                                  *)
(*                                                                         *)
(* Per manager: the peer heartbeat of the server loop, the Heartbeat of    *)
(* the cluster loop with its report and its election retries, the check    *)
(* before a failover, crash and restart.  At the arbitrator: the handlers, *)
(* one step per SQL statement, running concurrently.  Between them: HTTP   *)
(* calls that time out at the client while the arbitrator may still serve  *)
(* them, late.                                                             *)
(***************************************************************************)
EXTENDS Naturals, FiniteSets, Sequences

CONSTANTS
  Managers,      \* replication-manager instances (arbitration-external-unique-id)
  Hosts,         \* database servers of the cluster
  NoMaster,      \* the empty master URL
  PeerList,      \* arbitration-peer-hosts of each manager, in order
  ElectionTries, \* attempts at an election in one Heartbeat
  Slots,         \* bound: calls of one manager alive at the arbitrator
  MaxLink,       \* bound: how often a link between managers changes
  MaxView,       \* bound: how often a manager's view of the databases changes
  MaxLoss,       \* bound: how many calls fail or time out
  MaxError,      \* bound: how many SQL statements fail at the arbitrator
  MaxCrash,      \* bound: how many times a manager stops
  MaxRestart     \* bound: how many times a stopped manager starts again

ASSUME NoMasterAssumption == NoMaster \notin Hosts
ASSUME HostsAssumption == IsFiniteSet(Hosts)
ASSUME SlotsAssumption == Slots \subseteq Nat \ {0}
ASSUME PeerAssumption ==
  \A m \in Managers : /\ PeerList[m] \in Seq(Managers \ {m})
                      /\ PeerList[m] # << >>
ASSUME BoundAssumption ==
  /\ ElectionTries \in Nat \ {0}
  /\ {MaxLink, MaxView, MaxLoss, MaxError, MaxCrash, MaxRestart} \subseteq Nat

VARIABLES
  row,           \* the arbitrator's heartbeat table, keyed by manager
  call,          \* the HTTP calls a manager has open at the arbitrator
  slot,          \* the call a manager waits for, 0 when none
  pc,            \* where the cluster loop of a manager is
  tries,         \* i in Heartbeat
  splitBrain,    \* IsSplitBrain
  splitBrainBck, \* IsSplitBrainBck
  failedArb,     \* IsFailedArbitrator
  status,        \* Status: "A" active, "S" standby
  master,        \* cluster.master
  down,          \* servers in state Failed or ErrorAuth, as the manager sees them
  source,        \* the server LostArbitration made a server replicate from
  alive,         \* the manager process runs
  cut,           \* pairs of managers that cannot reach each other
  spent          \* environment steps taken, against the bounds

tableVars == <<row, call>>
loopVars  == <<slot, pc, tries, splitBrainBck, failedArb, status, master, source>>
viewVars  == <<splitBrain, down, alive, cut>>
vars == <<row, call, slot, pc, tries, splitBrain, splitBrainBck, failedArb,
          status, master, source, down, alive, cut, spent>>

Masters == Hosts \cup {NoMaster}

(* A row of the heartbeat table; "none" when the manager has no row yet.   *)
(* fresh: its date is less than ten seconds old.                           *)
Row == [status : {"none", "U", "E"}, master : Masters, failed : Nat, fresh : BOOLEAN]
NoRow == [status |-> "none", master |-> NoMaster, failed |-> 0, fresh |-> FALSE]

Call == [step : {"free", "insert", "count", "reset", "request", "master", "reply"},
         master : Masters, failed : Nat, won : BOOLEAN, winner : Masters]
NoCall == [step |-> "free", master |-> NoMaster, failed |-> 0,
           won |-> FALSE, winner |-> NoMaster]

Events == {"link", "view", "loss", "error", "crash", "restart"}
Spend(e) == spent' = [spent EXCEPT ![e] = @ + 1]

--------------------------------------------------------------------------------
(* The arbitrator. *)

(* Managers other than m whose row satisfies the WHERE clause of a query. *)
Elected == {o \in Managers : row[o].status = "E"}
LessFailed(m, n) == {o \in Managers \ {m} : row[o].status = "U" /\ row[o].failed < n}
(* Mutant: reports of any age count. *)
RecentMastersEver == {row[o].master : o \in {p \in Managers : row[p].status # "none"}}
RecentMasters == {row[o].master : o \in {p \in Managers : row[p].status # "none" /\ row[p].fresh}}

Serve(m, s, c) == call' = [call EXCEPT ![m][s] = c]
At(m, s, st) == call[m][s].step = st
Arbitrated == UNCHANGED <<loopVars, viewVars, spent>>

(* WriteHeartbeat, first statement: INSERT OR REPLACE of the sender's row.  *)
(* The statement names no status, so the row gets the column default 'U'.   *)
WriteHeartbeatInsert(m, s) ==
  /\ At(m, s, "insert")
  /\ row' = [row EXCEPT ![m] = [status |-> "U", master |-> call[m][s].master,
                                failed |-> call[m][s].failed, fresh |-> TRUE]]
  /\ Serve(m, s, [call[m][s] EXCEPT !.step = "count"])
  /\ Arbitrated

(* Second statement: how many distinct masters were reported lately. *)
WriteHeartbeatCount(m, s) ==
  /\ At(m, s, "count")
  /\ Serve(m, s, [call[m][s] EXCEPT !.step =
                    IF Cardinality(RecentMasters) = 1 THEN "reset" ELSE "reply"])
  /\ UNCHANGED row
  /\ Arbitrated

(* Third statement, when they agree: forget every election. *)
WriteHeartbeatReset(m, s) ==
  /\ At(m, s, "reset")
  /\ row' = [o \in Managers |->
               IF row[o].status = "E" THEN [row[o] EXCEPT !.status = "U"] ELSE row[o]]
  /\ Serve(m, s, [call[m][s] EXCEPT !.step = "reply"])
  /\ Arbitrated

(* Mutant: the query for another elected manager is left out. *)
WinsByNodes(m, n) == LessFailed(m, n) = {}

(* Mutant: the query for an elected manager does not leave the caller out. *)
WinsOnce(m, n) == Elected = {} /\ LessFailed(m, n) = {}

(* The transaction of RequestArbitration: the caller wins when no other     *)
(* manager is elected and no other unelected manager has fewer failed nodes. *)
Wins(m, n) == Elected \subseteq {m} /\ LessFailed(m, n) = {}

(* Mutant: an UPDATE of the caller's row, which may not exist, in place of  *)
(* the INSERT OR REPLACE.                                                   *)
RequestArbitrationUpdates(m, s) ==
  /\ At(m, s, "request")
  /\ LET c == call[m][s]
         won == Wins(m, c.failed)
     IN  /\ row' = IF won /\ row[m] # NoRow
                   THEN [row EXCEPT ![m].status = "E", ![m].master = c.master]
                   ELSE row
         /\ Serve(m, s, [c EXCEPT !.step = "master", !.won = won])
  /\ Arbitrated

RequestArbitration(m, s) ==
  /\ At(m, s, "request")
  /\ LET c == call[m][s]
         won == Wins(m, c.failed)
     IN  /\ row' = IF won THEN [row EXCEPT ![m] = [status |-> "E", master |-> c.master,
                                                   failed |-> c.failed, fresh |-> TRUE]]
                          ELSE row
         /\ Serve(m, s, [c EXCEPT !.step = "master", !.won = won])
  /\ Arbitrated

(* The second query of handlerArbitrator, outside the transaction: the      *)
(* master of an elected row, empty when there is none any more.             *)
GetArbitrationMaster(m, s) ==
  /\ At(m, s, "master")
  /\ \E w \in IF Elected = {} THEN {NoMaster} ELSE {row[o].master : o \in Elected} :
       Serve(m, s, [call[m][s] EXCEPT !.step = "reply", !.winner = w])
  /\ UNCHANGED row
  /\ Arbitrated

(* A statement fails (the SQLite file is locked by another handler): the    *)
(* report ends, and a request is answered "looser" or without a master.     *)
DatabaseError(m, s) ==
  /\ call[m][s].step \in {"insert", "count", "reset", "request", "master"}
  /\ spent["error"] < MaxError
  /\ Serve(m, s, [call[m][s] EXCEPT !.step = IF @ = "request" THEN "master" ELSE "reply"])
  /\ Spend("error")
  /\ UNCHANGED <<row, loopVars, viewVars>>

(* A row is no longer among the last ten seconds.  The second statement of  *)
(* a report follows the first within that time.                             *)
RowAges(m) ==
  /\ row[m].fresh
  /\ \A s \in Slots : ~At(m, s, "count")
  /\ row' = [row EXCEPT ![m].fresh = FALSE]
  /\ UNCHANGED <<call, loopVars, viewVars, spent>>

Handler(m, s) ==
  \/ WriteHeartbeatInsert(m, s) \/ WriteHeartbeatCount(m, s) \/ WriteHeartbeatReset(m, s)
  \/ RequestArbitration(m, s) \/ GetArbitrationMaster(m, s)

(* The answer to a call nobody waits for any more is thrown away. *)
AnswerDropped(m, s) ==
  /\ At(m, s, "reply") /\ slot[m] # s
  /\ Serve(m, s, NoCall)
  /\ UNCHANGED <<row, loopVars, viewVars, spent>>

--------------------------------------------------------------------------------
(* A replication-manager: the cluster loop Run. *)

CountFailed(m) == Cardinality(down[m])

(* POST to the arbitrator. *)
Post(m, first, n) ==
  \E s \in Slots :
    /\ At(m, s, "free")
    /\ slot' = [slot EXCEPT ![m] = s]
    /\ Serve(m, s, [NoCall EXCEPT !.step = first, !.master = master[m], !.failed = n])

Goto(m, l) == pc' = [pc EXCEPT ![m] = l]
Answered(m) == slot[m] # 0 /\ At(m, slot[m], "reply")
Answer(m) == call[m][slot[m]]
TakeAnswer(m) == Serve(m, slot[m], NoCall) /\ slot' = [slot EXCEPT ![m] = 0]

(* The client gives up: its context expires or the connection breaks.  The  *)
(* arbitrator serves the request all the same, or never receives it.        *)
GiveUp(m) ==
  /\ slot[m] # 0
  /\ spent["loss"] < MaxLoss
  /\ Spend("loss")
  /\ slot' = [slot EXCEPT ![m] = 0]
  /\ \/ UNCHANGED call
     \/ call[m][slot[m]].step \in {"insert", "request"} /\ Serve(m, slot[m], NoCall)

(* Heartbeat and SetArbitratorReport up to the POST.  LostMajority, which   *)
(* only feeds a warning, is left out.                                       *)
HeartbeatStart(m) ==
  /\ alive[m] /\ pc[m] = "idle"
  /\ \/ /\ splitBrain[m]
        /\ Post(m, "insert", CountFailed(m))
        /\ Goto(m, "report")
     \/ /\ ~splitBrain[m]
        /\ Goto(m, "end")
        /\ UNCHANGED <<call, slot>>
  /\ UNCHANGED <<row, tries, splitBrainBck, failedArb, status, master, source, viewVars, spent>>

(* Mutant: the attempts are counted from 0. *)
ReportAnsweredFromZero(m) ==
  /\ alive[m] /\ pc[m] = "report" /\ Answered(m)
  /\ TakeAnswer(m)
  /\ failedArb' = [failedArb EXCEPT ![m] = FALSE]
  /\ tries' = [tries EXCEPT ![m] = 0]
  /\ Goto(m, "elect")
  /\ UNCHANGED <<row, splitBrainBck, status, master, source, viewVars, spent>>

(* The report is answered, whatever the answer says. *)
ReportAnswered(m) ==
  /\ alive[m] /\ pc[m] = "report" /\ Answered(m)
  /\ TakeAnswer(m)
  /\ failedArb' = [failedArb EXCEPT ![m] = FALSE]
  /\ tries' = [tries EXCEPT ![m] = 1]
  /\ Goto(m, "elect")
  /\ UNCHANGED <<row, splitBrainBck, status, master, source, viewVars, spent>>

ReportFails(m) ==
  /\ alive[m] /\ pc[m] = "report"
  /\ GiveUp(m)
  /\ failedArb' = [failedArb EXCEPT ![m] = TRUE]
  /\ tries' = [tries EXCEPT ![m] = 1]
  /\ Goto(m, "elect")
  /\ UNCHANGED <<row, splitBrainBck, status, master, source, viewVars>>

(* ArbitratorElection: nothing to ask when the flag equals its backup. *)
ArbitratorElection(m) ==
  /\ alive[m] /\ pc[m] = "elect"
  /\ \/ /\ splitBrainBck[m] # splitBrain[m]
        /\ Post(m, "request", CountFailed(m))
        /\ Goto(m, "electing")
     \/ /\ splitBrainBck[m] = splitBrain[m]
        /\ Goto(m, "end")
        /\ UNCHANGED <<call, slot>>
  /\ UNCHANGED <<row, tries, splitBrainBck, failedArb, status, master, source, viewVars, spent>>

(* Mutant: the winner's master is not compared with the loser's. *)
IsVictimAlways(m) ==
  ~Answer(m).won /\ master[m] # NoMaster /\ Answer(m).winner \in Hosts

(* The loser has a master, which is not the winner's, and the winner's is   *)
(* one of the cluster's servers.                                            *)
IsVictim(m) ==
  /\ ~Answer(m).won
  /\ master[m] # NoMaster /\ Answer(m).winner # master[m]
  /\ Answer(m).winner \in Hosts

(* Mutant: only a won election ends the retries. *)
ElectionAnsweredUntilWon(m) ==
  /\ alive[m] /\ pc[m] = "electing" /\ Answered(m)
  /\ status' = [status EXCEPT ![m] = IF Answer(m).won THEN "A" ELSE "S"]
  /\ failedArb' = [failedArb EXCEPT ![m] = FALSE]
  /\ TakeAnswer(m)
  /\ Goto(m, IF Answer(m).won THEN "end" ELSE "elect")
  /\ UNCHANGED <<row, tries, splitBrainBck, master, source, viewVars, spent>>

(* The verdict: SetActiveStatus, and for the loser the comparison of the    *)
(* masters.  The answer stays in its slot as long as LostArbitration needs  *)
(* the winner's master.                                                     *)
ElectionAnswered(m) ==
  /\ alive[m] /\ pc[m] = "electing" /\ Answered(m)
  /\ status' = [status EXCEPT ![m] = IF Answer(m).won THEN "A" ELSE "S"]
  /\ failedArb' = [failedArb EXCEPT ![m] = FALSE]
  /\ \/ IsVictim(m) /\ Goto(m, "lost") /\ UNCHANGED <<call, slot>>
     \/ ~IsVictim(m) /\ Goto(m, "end") /\ TakeAnswer(m)
  /\ UNCHANGED <<row, tries, splitBrainBck, master, source, viewVars, spent>>

(* LostArbitration reads the master again and makes it a replica of the     *)
(* winner's.  Without a master any more it dereferences nil, which stops    *)
(* the process.                                                             *)
LostArbitration(m) ==
  /\ alive[m] /\ pc[m] = "lost" /\ Answered(m)
  /\ TakeAnswer(m)
  /\ \/ /\ master[m] # NoMaster
        /\ source' = [source EXCEPT ![master[m]] = Answer(m).winner]
        /\ Goto(m, "end")
        /\ UNCHANGED alive
     \/ /\ master[m] = NoMaster
        /\ alive' = [alive EXCEPT ![m] = FALSE]
        /\ UNCHANGED <<source, pc>>
  /\ UNCHANGED <<row, tries, splitBrain, splitBrainBck, failedArb, status, master,
                 down, cut, spent>>

ElectionFails(m) ==
  /\ alive[m] /\ pc[m] = "electing"
  /\ GiveUp(m)
  /\ failedArb' = [failedArb EXCEPT ![m] = TRUE]
  /\ \/ tries[m] < ElectionTries /\ Goto(m, "elect")
        /\ tries' = [tries EXCEPT ![m] = @ + 1]
     \/ tries[m] >= ElectionTries /\ Goto(m, "end") /\ UNCHANGED tries
  /\ UNCHANGED <<row, splitBrainBck, status, master, source, viewVars>>

(* The last line of Heartbeat reads the flag again. *)
HeartbeatEnd(m) ==
  /\ alive[m] /\ pc[m] = "end"
  /\ splitBrainBck' = [splitBrainBck EXCEPT ![m] = splitBrain[m]]
  /\ Goto(m, "check")
  /\ UNCHANGED <<row, call, slot, tries, failedArb, status, master, source, viewVars, spent>>

(* CheckFailed, reduced to what concerns arbitration: the master is failed  *)
(* and a candidate exists.  isActiveArbitration posts no failed count.      *)
Candidates(m) == Hosts \ (down[m] \cup {master[m]})

CheckFailed(m) ==
  /\ alive[m] /\ pc[m] = "check"
  /\ \/ /\ master[m] \in down[m] /\ Candidates(m) # {}
        /\ Post(m, "request", 0)
        /\ Goto(m, "asking")
     \/ /\ master[m] \notin down[m] \/ Candidates(m) = {}
        /\ Goto(m, "idle")
        /\ UNCHANGED <<call, slot>>
  /\ UNCHANGED <<row, tries, splitBrainBck, failedArb, status, master, source, viewVars, spent>>

(* isActiveArbitration, isArbitratorAlive, then MasterFailover. *)
Failover(m) ==
  /\ alive[m] /\ pc[m] = "asking" /\ Answered(m)
  /\ Answer(m).won /\ ~failedArb[m]
  /\ \E h \in Candidates(m) : master' = [master EXCEPT ![m] = h]
  /\ TakeAnswer(m)
  /\ Goto(m, "idle")
  /\ UNCHANGED <<row, tries, splitBrainBck, failedArb, status, source, viewVars, spent>>

FailoverRefused(m) ==
  /\ alive[m] /\ pc[m] = "asking" /\ Answered(m)
  /\ ~Answer(m).won \/ failedArb[m]
  /\ TakeAnswer(m)
  /\ Goto(m, "idle")
  /\ UNCHANGED <<row, tries, splitBrainBck, failedArb, status, master, source, viewVars, spent>>

(* No timeout is set on this client: only a broken connection ends the wait. *)
AskFails(m) ==
  /\ alive[m] /\ pc[m] = "asking"
  /\ GiveUp(m)
  /\ Goto(m, "idle")
  /\ UNCHANGED <<row, tries, splitBrainBck, failedArb, status, master, source, viewVars>>

--------------------------------------------------------------------------------
(* The server loop and the surroundings. *)

Reaches(m, p) == alive[p] /\ {m, p} \notin cut

(* HeartbeatPeerSplitBrain is asked of every peer in turn, each answer      *)
(* overwriting the one before; the last one reaches the clusters.           *)
HeartbeatPeerSplitBrain(m) == ~Reaches(m, PeerList[m][Len(PeerList[m])])

PeerHeartbeat(m) ==
  /\ alive[m]
  /\ splitBrain' = [splitBrain EXCEPT ![m] = HeartbeatPeerSplitBrain(m)]
  /\ UNCHANGED <<tableVars, loopVars, down, alive, cut, spent>>

(* TopologyDiscover, concurrent with Heartbeat, changes what m sees.  With  *)
(* every server failed it forgets the master.                               *)
ViewChanges(m) ==
  /\ alive[m] /\ pc[m] \notin {"check", "asking"}
  /\ spent["view"] < MaxView
  /\ Spend("view")
  /\ \E D \in SUBSET Hosts :
       /\ down' = [down EXCEPT ![m] = D]
       /\ \E h \in {master[m]} \cup (Hosts \ D) :
            master' = [master EXCEPT ![m] = IF D = Hosts THEN NoMaster ELSE h]
  /\ UNCHANGED <<tableVars, slot, pc, tries, splitBrain, splitBrainBck, failedArb,
                 status, source, alive, cut>>

LinkChanges(m, p) ==
  /\ m # p
  /\ spent["link"] < MaxLink
  /\ Spend("link")
  /\ cut' = IF {m, p} \in cut THEN cut \ {{m, p}} ELSE cut \cup {{m, p}}
  /\ UNCHANGED <<tableVars, loopVars, splitBrain, down, alive>>

(* A manager stops anywhere; its open call stays with the arbitrator. *)
Crash(m) ==
  /\ alive[m]
  /\ spent["crash"] < MaxCrash
  /\ Spend("crash")
  /\ alive' = [alive EXCEPT ![m] = FALSE]
  /\ slot' = [slot EXCEPT ![m] = 0]
  /\ UNCHANGED <<tableVars, pc, tries, splitBrain, splitBrainBck, failedArb, status,
                 master, source, down, cut>>

(* It starts again on standby and discovers a master, or none yet. *)
Restart(m) ==
  /\ ~alive[m]
  /\ spent["restart"] < MaxRestart
  /\ Spend("restart")
  /\ alive' = [alive EXCEPT ![m] = TRUE]
  /\ pc' = [pc EXCEPT ![m] = "idle"]
  /\ tries' = [tries EXCEPT ![m] = 1]
  /\ splitBrain' = [splitBrain EXCEPT ![m] = FALSE]
  /\ splitBrainBck' = [splitBrainBck EXCEPT ![m] = FALSE]
  /\ failedArb' = [failedArb EXCEPT ![m] = FALSE]
  /\ status' = [status EXCEPT ![m] = "S"]
  /\ \E h \in Masters : master' = [master EXCEPT ![m] = h]
  /\ down' = [down EXCEPT ![m] = {}]
  /\ UNCHANGED <<tableVars, slot, source, cut>>

--------------------------------------------------------------------------------
(* Every manager starts on standby and has discovered a master; managers    *)
(* started on two sides of a partition need not agree on it.                *)
Init ==
  /\ row = [m \in Managers |-> NoRow]
  /\ call = [m \in Managers |-> [s \in Slots |-> NoCall]]
  /\ slot = [m \in Managers |-> 0]
  /\ pc = [m \in Managers |-> "idle"]
  /\ tries = [m \in Managers |-> 1]
  /\ splitBrain = [m \in Managers |-> FALSE]
  /\ splitBrainBck = [m \in Managers |-> FALSE]
  /\ failedArb = [m \in Managers |-> FALSE]
  /\ status = [m \in Managers |-> "S"]
  /\ master \in [Managers -> Hosts]
  /\ source = [h \in Hosts |-> NoMaster]
  /\ down = [m \in Managers |-> {}]
  /\ alive = [m \in Managers |-> TRUE]
  /\ cut = {}
  /\ spent = [e \in Events |-> 0]

(* The steps a running manager takes by itself. *)
Loop(m) ==
  \/ HeartbeatStart(m) \/ ReportAnswered(m) \/ ReportFails(m)
  \/ ArbitratorElection(m) \/ ElectionAnswered(m) \/ ElectionFails(m)
  \/ LostArbitration(m) \/ HeartbeatEnd(m) \/ CheckFailed(m) \/ Failover(m) \/ FailoverRefused(m)
  \/ AskFails(m)

Next ==
  \/ \E m \in Managers, s \in Slots :
       Handler(m, s) \/ DatabaseError(m, s) \/ AnswerDropped(m, s)
  \/ \E m \in Managers :
       Loop(m) \/ PeerHeartbeat(m) \/ RowAges(m) \/ ViewChanges(m)
       \/ Crash(m) \/ Restart(m)
  \/ \E m, p \in Managers : LinkChanges(m, p)

Spec == Init /\ [][Next]_vars

(* The loops of a running manager keep going, the arbitrator serves what it *)
(* has received, and time passes.  Losses, crashes and changes of links or  *)
(* views are not fair: they may or may not happen.                          *)
Progress(m) ==
  \/ HeartbeatStart(m) \/ ReportAnswered(m) \/ ArbitratorElection(m)
  \/ ElectionAnswered(m) \/ LostArbitration(m) \/ HeartbeatEnd(m) \/ CheckFailed(m)
  \/ Failover(m) \/ FailoverRefused(m)

Fairness ==
  /\ \A m \in Managers : /\ WF_vars(Progress(m))
                         /\ WF_vars(PeerHeartbeat(m))
                         /\ WF_vars(RowAges(m))
  /\ \A m \in Managers, s \in Slots : WF_vars(Handler(m, s) \/ AnswerDropped(m, s))

FairSpec == Spec /\ Fairness

--------------------------------------------------------------------------------
(* Properties. *)

TypeOK ==
  /\ row \in [Managers -> Row]
  /\ call \in [Managers -> [Slots -> Call]]
  /\ slot \in [Managers -> Slots \cup {0}]
  /\ pc \in [Managers -> {"idle", "report", "elect", "electing", "lost", "end",
                         "check", "asking"}]
  /\ tries \in [Managers -> 1..ElectionTries]
  /\ splitBrain \in [Managers -> BOOLEAN]
  /\ splitBrainBck \in [Managers -> BOOLEAN]
  /\ failedArb \in [Managers -> BOOLEAN]
  /\ status \in [Managers -> {"A", "S"}]
  /\ master \in [Managers -> Masters]
  /\ source \in [Hosts -> Masters]
  /\ down \in [Managers -> SUBSET Hosts]
  /\ alive \in [Managers -> BOOLEAN]
  /\ cut \in SUBSET SUBSET Managers
  /\ spent \in [Events -> Nat]

(* The heartbeat table never holds two elected managers, however the        *)
(* statements of concurrent reports and requests interleave.                *)
AtMostOneElected ==
  \A m, n \in Managers : row[m].status = "E" /\ row[n].status = "E" => m = n

(* Whoever acts as the active manager, or is about to be told so, is        *)
(* registered at the arbitrator: losing the answer, retrying or restarting  *)
(* never leaves an active manager the arbitrator has no row of.             *)
ActiveIsRegistered ==
  \A m \in Managers :
    status[m] = "A" \/ (\E s \in Slots : call[m][s].won) => row[m].status # "none"

(* LostArbitration never makes a server replicate from itself while the     *)
(* views of the managers do not change: the comparison before it protects   *)
(* the winner's master.  It reads the master again, so a discovery between  *)
(* the two makes it attach the winner's master to itself.                   *)
NeverAttachedToItself == spent["view"] = 0 => \A h \in Hosts : source[h] # h

(* A request is lost only to another manager: when the answer to an earlier *)
(* attempt went missing, the retry is not refused because of the election   *)
(* that attempt won (a failing database aside).                             *)
LosesOnlyToAnother ==
  \A m \in Managers, s \in Slots :
    /\ spent["error"] = 0
    /\ At(m, s, "master") /\ ~call[m][s].won
    => \E o \in Managers \ {m} : row[o].status # "none"

(* The table and its handlers implement the abstract arbiter. *)
Arbiter == INSTANCE Arbiter WITH elected <- Elected
ArbiterSpec == Arbiter!Spec

(* A Heartbeat always returns: the cluster loop waits for it before it      *)
(* checks for a failed master.                                              *)
HeartbeatReturns ==
  \A m \in Managers : pc[m] \in {"report", "elect", "electing", "lost"} ~> pc[m] = "check" \/ ~alive[m]

(* The election of a manager that stopped for good is forgotten as long as  *)
(* the only manager left keeps reporting a split brain.  Of several left,   *)
(* two that report different masters keep the reset of WriteHeartbeat from  *)
(* ever running, and the election stands.                                   *)
StaleElectionCleared ==
  \A m \in Managers :
    <>[](~alive[m] /\ \E o \in Managers : splitBrain[o] /\ {p \in Managers : alive[p]} = {o})
      => <>[](row[m].status # "E")

--------------------------------------------------------------------------------
(* Claims of the repository that the code does not keep. *)

(* etc/config.toml calls this set-up active passive, and RequestArbitration *)
(* lets a manager consider itself elected when no other one is: two running *)
(* managers in a split brain are never both active with different masters.  *)
OneActive ==
  \A m, n \in Managers :
    (\A o \in {m, n} : alive[o] /\ splitBrain[o] /\ status[o] = "A")
      => master[m] = master[n]
================================================================================
