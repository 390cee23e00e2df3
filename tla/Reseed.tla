-------------------------------- MODULE Reseed ---------------------------------
(***************************************************************************)
(* Reseeding one database server.  Requests come from API handlers, from   *)
(* the resolution of a missing backup and from a rejoin, each in its own   *)
(* goroutine.  The flag server.IsReseeding names the request being served; *)
(* nothing else keeps two of them apart.  A physical request only inserts  *)
(* a row in the jobs table of the server.  A script on the database host   *)
(* takes the row, listens, and marks it halted; the manager's tick notices *)
(* that the row is no longer waiting, and a goroutine sends the backup.    *)
(* The end comes back through the row.  A logical request and a direct     *)
(* dump are loaded by a goroutine of the manager.                          *)
(*                                                                         *)
(* One step is one SQL statement or one stretch of code between two of     *)
(* them.  The server stays up and is not read only, no failover or rolling *)
(* restart is under way and no point-in-time recovery is asked for: these  *)
(* are the early returns of JobInsertTask and JobsCheckStates.             *)
(***************************************************************************)
EXTENDS Naturals, FiniteSets

CONSTANTS
  Tasks,       \* the reseeds that are asked for
  Callers,     \* goroutines that ask for one
  Senders,     \* goroutines that wait for the script and send the backup
  Scripts,     \* runs of the job script on the database host
  MaxLoop,     \* looks of a waiting sender at the job, 10 in the code
  Prompt,      \* whether a script that has taken a job listens before the
               \* last of these looks, 150 seconds later
  MaxCall,     \* bound: requests
  MaxFault     \* bound: cancellations, restarts of the manager, broken streams
               \* and statements or file checks that fail

Reseed == "reseedxtrabackup"
Flashback == "flashbackxtrabackup"
ReseedLogical == "reseedmysqldump"
FlashbackLogical == "flashbackmysqldump"
Direct == "direct"
None == ""

ASSUME TasksAssumption ==
  Tasks \subseteq {Reseed, Flashback, ReseedLogical, FlashbackLogical, Direct}
ASSUME PromptAssumption == Prompt \in BOOLEAN
ASSUME BoundAssumption ==
  {MaxLoop, MaxCall, MaxFault} \subseteq Nat

VARIABLES
  flag,        \* server.IsReseeding
  jobs,        \* the row of a task in the jobs table
  pc, task,    \* where a caller is, and the reseed it asks for
  tick,        \* where Refresh and StateProcessing are
  opened,      \* tasks whose waiting state was open in the last tick
  found,       \* tasks whose waiting state this tick has seen
  todo,        \* tasks a query of the tick has returned
  release,     \* the deferred SetInReseedBackup("") of a function of the tick
  send, sent, loop, \* where a sender is, its task, how often it has looked
  script, job, \* where a run of the script is, and its task
  spent        \* environment steps taken, against the bounds

callVars   == <<pc, task>>
tickVars   == <<tick, opened, found, todo, release>>
sendVars   == <<send, sent, loop>>
scriptVars == <<script, job>>
vars == <<flag, jobs, pc, task, tick, opened, found, todo, release, send, sent, loop, script, job, spent>>

Physical == Tasks \cap {Reseed, Flashback}
JobTasks == Tasks \ {Direct}

(* A row of the jobs table.  States: 0 available, 1 processing, 2 halted,   *)
(* 3 finished, 4 success, 5 error, 6 error after the job.                   *)
Row(s, d) == [state |-> s, done |-> d]
Rows == [state : 0..6, done : 0..1]
NoRow == [state |-> 7, done |-> 1]
Available == Row(0, 0)
Active(r) == r.state <= 3 /\ r.done = 0

Events == {"call", "overlap", "fault"}
Spend(e) == spent' = [spent EXCEPT ![e] = @ + 1]
Fault == spent["fault"] < MaxFault /\ Spend("fault")

(* The statements of a step succeed together or fail together. *)
Succeeds == UNCHANGED spent
Fails == Fault

(* JobsUpdateState: the UPDATE of the rows of a set of tasks. *)
Update(T, r) == [t \in JobTasks |-> IF t \in T /\ jobs[t] # NoRow THEN r ELSE jobs[t]]
JobsUpdateState(T, r) == \/ Succeeds /\ jobs' = Update(T, r)
                         \/ Fails /\ UNCHANGED jobs

(* SetInReseedBackup("") behind a test of HasReseedingState. *)
ReleaseOwn(t) == flag' = IF flag = t THEN None ELSE flag

--------------------------------------------------------------------------------
(* A request. *)

Goto(c, l) == pc' = [pc EXCEPT ![c] = l]
Refused(c) == ReleaseOwn(task[c]) /\ Goto(c, "idle")

(* The test of the flag.  A request it refuses changes nothing. *)
HasAnyReseedingState(c, t) ==
  /\ pc[c] = "idle" /\ flag = None
  /\ spent["call"] + spent["overlap"] < MaxCall
  /\ Spend(IF \A o \in Callers : pc[o] = "idle" THEN "call" ELSE "overlap")
  /\ Goto(c, "set") /\ task' = [task EXCEPT ![c] = t]
  /\ UNCHANGED <<flag, jobs, tickVars, sendVars, scriptVars>>

SetInReseedBackup(c) ==
  /\ pc[c] = "set"
  /\ flag' = task[c]
  /\ Goto(c, IF task[c] = Direct THEN "dump" ELSE "select")
  /\ UNCHANGED <<jobs, task, tickVars, sendVars, scriptVars, spent>>

(* JobInsertTask: a job of this task that has not ended refuses the new one. *)
JobInsertTask(c) ==
  /\ pc[c] = "select"
  /\ \/ Active(jobs[task[c]]) /\ Succeeds /\ Refused(c)
     \/ Fails /\ Refused(c)
     \/ /\ ~Active(jobs[task[c]]) /\ Succeeds /\ UNCHANGED flag
        /\ Goto(c, IF jobs[task[c]] = NoRow THEN "create" ELSE "replace")
  /\ UNCHANGED <<jobs, task, tickVars, sendVars, scriptVars>>

(* The row of the last job of the task goes. *)
DeleteRow(c) ==
  /\ pc[c] = "replace"
  /\ \/ Succeeds /\ jobs' = [jobs EXCEPT ![task[c]] = NoRow] /\ Goto(c, "create") /\ UNCHANGED flag
     \/ Fails /\ UNCHANGED jobs /\ Refused(c)
  /\ UNCHANGED <<task, tickVars, sendVars, scriptVars>>

(* The unique key on the task refuses a second row. *)
InsertRow(c) ==
  LET t == task[c] IN
  /\ pc[c] = "create"
  /\ \/ /\ jobs[t] = NoRow /\ Succeeds
        /\ jobs' = [jobs EXCEPT ![t] = Available] /\ Goto(c, "change") /\ UNCHANGED flag
     \/ jobs[t] # NoRow /\ Succeeds /\ UNCHANGED jobs /\ Refused(c)
     \/ Fails /\ UNCHANGED jobs /\ Refused(c)
  /\ UNCHANGED <<task, tickVars, sendVars, scriptVars>>

(* STOP SLAVE and CHANGE MASTER.  After an error the physical reseed keeps  *)
(* the flag, the others take it down.                                       *)
ChangeMaster(c) ==
  /\ pc[c] = "change"
  /\ \/ /\ Fails /\ Goto(c, "idle")
        /\ IF task[c] = Reseed THEN UNCHANGED flag ELSE ReleaseOwn(task[c])
     \/ /\ Succeeds /\ UNCHANGED flag
        /\ Goto(c, CASE task[c] \in Physical -> "idle"
                     [] task[c] = ReseedLogical -> "begin"
                     [] OTHER -> "load")
  /\ UNCHANGED <<jobs, task, tickVars, sendVars, scriptVars>>

(* JobReseedLogicalBackup marks its job before it starts the goroutine. *)
BeginLoad(c) ==
  /\ pc[c] = "begin"
  /\ JobsUpdateState({task[c]}, Row(1, 0))
  /\ Goto(c, "load")
  /\ UNCHANGED <<flag, task, tickVars, sendVars, scriptVars>>

(* RejoinDirectDump: the tools must be there and a master known. *)
RejoinDirectDump(c) ==
  /\ pc[c] = "dump"
  /\ \/ Succeeds /\ Goto(c, "load") /\ UNCHANGED flag
     \/ Fails /\ Refused(c)
  /\ UNCHANGED <<jobs, task, tickVars, sendVars, scriptVars>>

(* JobReseedMysqldump, JobReseedMyLoader and JobRejoinMysqldumpFromSource   *)
(* take the flag down whoever holds it.                                     *)
LoadEnds(c) ==
  /\ pc[c] = "load"
  /\ flag' = None
  /\ Goto(c, IF task[c] = Direct THEN "idle" ELSE "report")
  /\ UNCHANGED <<jobs, task, tickVars, sendVars, scriptVars, spent>>

ReportLoad(c) ==
  /\ pc[c] = "report"
  /\ \E r \in {Row(3, 1), Row(5, 1)} : JobsUpdateState({task[c]}, r)
  /\ Goto(c, "idle")
  /\ UNCHANGED <<flag, task, tickVars, sendVars, scriptVars>>

(* JobsCancelTasks, under a lock of the table, for all physical tasks: the  *)
(* jobs that wait end, and if there is one the flag goes.                   *)
JobsCancelTasks ==
  /\ Fault
  /\ \E t \in Physical : jobs[t] = Available
  /\ jobs' = Update({t \in Physical : jobs[t] = Available}, Row(5, 1))
  /\ flag' = IF flag \in Physical THEN None ELSE flag
  /\ UNCHANGED <<callVars, tickVars, sendVars, scriptVars>>

(* Forced, for the task named: its job ends wherever it is. *)
ForceCancelTask(t) ==
  /\ Fault
  /\ jobs[t] # NoRow
  /\ jobs' = Update({t}, Row(5, 1))
  /\ ReleaseOwn(t)
  /\ UNCHANGED <<callVars, tickVars, sendVars, scriptVars>>

--------------------------------------------------------------------------------
(* The tick: JobsCheckStates and JobsCheckRunning in Refresh, then          *)
(* StateProcessing.                                                         *)

(* The jobs that have ended well. *)
JobsCheckFinished ==
  /\ tick = "finished"
  /\ \/ Succeeds /\ todo' = {t \in JobTasks : jobs[t] = Row(3, 1)}
     \/ Fails /\ todo' = {}
  /\ tick' = "after"
  /\ UNCHANGED <<flag, jobs, callVars, opened, found, release, sendVars, scriptVars>>

(* Mutant: any job that has ended takes the flag down. *)
HasReseedingStateAny ==
  /\ tick \in {"after", "ended"}
  /\ release' = (todo # {})
  /\ tick' = IF tick = "after" THEN "start" ELSE "acknowledge"
  /\ UNCHANGED <<flag, jobs, callVars, opened, found, todo, sendVars, scriptVars, spent>>

(* Whether one of the jobs of the query holds the flag by now. *)
HasReseedingState ==
  /\ tick \in {"after", "ended"}
  /\ release' = (flag \in todo \cap Physical)
  /\ tick' = IF tick = "after" THEN "start" ELSE "acknowledge"
  /\ UNCHANGED <<flag, jobs, callVars, opened, found, todo, sendVars, scriptVars, spent>>

(* AfterJobProcess: START SLAVE, then the row if it is still finished.      *)
AfterJobProcess ==
  LET T == {t \in todo : jobs[t] = Row(3, 1)} IN
  /\ tick = "start"
  /\ \/ Succeeds /\ jobs' = Update(T, Row(4, 1))
     \/ todo # {} /\ Fails /\ jobs' = Update(T, Row(6, 1))
  /\ flag' = IF release THEN None ELSE flag
  /\ tick' = "errors" /\ release' = FALSE /\ todo' = {}
  /\ UNCHANGED <<callVars, opened, found, sendVars, scriptVars>>

JobsCheckErrors ==
  /\ tick = "errors"
  /\ \/ Succeeds /\ todo' = {t \in JobTasks : jobs[t] = Row(5, 0)}
     \/ Fails /\ todo' = {}
  /\ tick' = "ended"
  /\ UNCHANGED <<flag, jobs, callVars, opened, found, release, sendVars, scriptVars>>

(* Mutant: the error is acknowledged, the flag stays. *)
AcknowledgeErrorsKeepsFlag ==
  /\ tick = "acknowledge"
  /\ JobsUpdateState({t \in JobTasks : t \in todo /\ jobs[t] = Row(5, 0)}, Row(5, 1))
  /\ UNCHANGED flag
  /\ tick' = "pending" /\ release' = FALSE /\ todo' = {}
  /\ UNCHANGED <<callVars, opened, found, sendVars, scriptVars>>

(* The UPDATE of JobsCheckErrors, then its deferred calls. *)
AcknowledgeErrors ==
  /\ tick = "acknowledge"
  /\ JobsUpdateState({t \in JobTasks : t \in todo /\ jobs[t] = Row(5, 0)}, Row(5, 1))
  /\ flag' = IF release THEN None ELSE flag
  /\ tick' = "pending" /\ release' = FALSE /\ todo' = {}
  /\ UNCHANGED <<callVars, opened, found, sendVars, scriptVars>>

(* JobsCheckPending leaves everything alone during a reseed.  Otherwise     *)
(* jobs that waited for an hour end, and the halted ones are looked up.     *)
JobsCheckPending ==
  /\ tick = "pending"
  /\ \/ flag # None /\ Succeeds /\ todo' = {} /\ UNCHANGED jobs
     \/ /\ flag = None
        /\ \E T \in SUBSET {t \in JobTasks : jobs[t].state = 0} : jobs' = Update(T, Row(5, 1))
        /\ \/ Succeeds /\ todo' = {t \in JobTasks : jobs[t].state = 2}
           \/ Fails /\ todo' = {}
  /\ tick' = "halted"
  /\ UNCHANGED <<flag, callVars, opened, found, release, sendVars, scriptVars>>

(* Mutant: halted jobs are left alone. *)
CancelHaltedNot ==
  /\ tick = "halted"
  /\ tick' = "running" /\ todo' = {}
  /\ UNCHANGED <<flag, jobs, callVars, opened, found, release, sendVars, scriptVars, spent>>

(* The UPDATE by task of JobsCheckPending, whatever the row is by now. *)
CancelHalted ==
  /\ tick = "halted"
  /\ JobsUpdateState(todo, Row(5, 1))
  /\ tick' = "running" /\ todo' = {}
  /\ UNCHANGED <<flag, callVars, opened, found, release, sendVars, scriptVars>>

(* JobsCheckRunning raises WARN0074 or WARN0076 for a job that waits. *)
JobsCheckRunning ==
  /\ tick = "running"
  /\ \/ Succeeds /\ found' = {t \in Physical : jobs[t].state = 0}
     \/ Fails /\ found' = {}
  /\ tick' = "process"
  /\ UNCHANGED <<flag, jobs, callVars, opened, todo, release, sendVars, scriptVars>>

Resolved == opened \ found

(* StateProcessing for one resolved state: ProcessReseedPhysical or         *)
(* ProcessFlashbackPhysical starts a sender for the holder of the flag.     *)
ProcessReseedPhysical(w, t) ==
  /\ tick = "process" /\ t \in Resolved /\ flag = t
  /\ send[w] = "idle"
  /\ send' = [send EXCEPT ![w] = "look"] /\ sent' = [sent EXCEPT ![w] = t] /\ loop' = [loop EXCEPT ![w] = 0]
  /\ opened' = opened \ {t}
  /\ UNCHANGED <<flag, jobs, callVars, tick, found, todo, release, scriptVars, spent>>

(* Another holder, no master or no backup file. *)
ProcessRefused(t) ==
  /\ tick = "process" /\ t \in Resolved
  /\ \/ flag # t /\ JobsUpdateState({t}, Row(2, 1)) /\ UNCHANGED flag
     \/ flag = t /\ Fails /\ jobs' = Update({t}, Row(2, 1)) /\ flag' = None
  /\ opened' = opened \ {t}
  /\ UNCHANGED <<callVars, tick, found, todo, release, sendVars, scriptVars>>

StateProcessing ==
  /\ tick = "process" /\ Resolved = {}
  /\ opened' = found /\ found' = {} /\ tick' = "finished"
  /\ UNCHANGED <<flag, jobs, callVars, todo, release, sendVars, scriptVars, spent>>

--------------------------------------------------------------------------------
(* WaitAndSendSST and SSTRunSender. *)

SendGoto(w, l) == send' = [send EXCEPT ![w] = l] /\ UNCHANGED <<sent, loop>>

(* One look: the flag, then the count of halted rows. *)
WaitAndSendSST(w) ==
  LET t == sent[w] IN
  /\ send[w] = "look"
  /\ (Prompt /\ loop[w] = MaxLoop) => \A s \in Scripts : script[s] = "taken" => job[s] # t
  /\ \/ flag # t /\ Succeeds /\ SendGoto(w, "idle") /\ UNCHANGED flag
     \/ flag = t /\ Fails /\ SendGoto(w, "idle") /\ ReleaseOwn(t)
     \/ /\ flag = t /\ Succeeds /\ UNCHANGED flag
        /\ SendGoto(w, IF jobs[t].state = 2 THEN "halted" ELSE "sleep")
  /\ UNCHANGED <<jobs, callVars, tickVars, scriptVars>>

(* Mutant: one look too many. *)
LookAgainOnce(w) ==
  /\ send[w] = "sleep" /\ loop[w] <= MaxLoop
  /\ send' = [send EXCEPT ![w] = "look"] /\ loop' = [loop EXCEPT ![w] = @ + 1]
  /\ UNCHANGED <<flag, jobs, callVars, tickVars, sent, scriptVars, spent>>

(* Fifteen seconds later, with no halted row seen. *)
LookAgain(w) ==
  /\ send[w] = "sleep" /\ loop[w] < MaxLoop
  /\ send' = [send EXCEPT ![w] = "look"] /\ loop' = [loop EXCEPT ![w] = @ + 1]
  /\ UNCHANGED <<flag, jobs, callVars, tickVars, sent, scriptVars, spent>>

WaitEnds(w) ==
  /\ \/ /\ send[w] = "sleep" /\ loop[w] >= MaxLoop
        /\ JobsUpdateState({sent[w]}, Row(5, 0))
        /\ SendGoto(w, "release") /\ UNCHANGED flag
     \/ /\ send[w] = "release" /\ ReleaseOwn(sent[w])
        /\ SendGoto(w, "idle") /\ UNCHANGED <<jobs, spent>>
  /\ UNCHANGED <<callVars, tickVars, scriptVars>>

(* Fifteen seconds after a halted row was seen, whatever it is now. *)
StartSender(w) ==
  /\ send[w] = "halted"
  /\ JobsUpdateState({sent[w]}, Row(1, 0))
  /\ SendGoto(w, "send")
  /\ UNCHANGED <<flag, callVars, tickVars, scriptVars>>

(* The port belongs to the server, not to the job.  The stream may break.   *)
SSTRunSender(w) ==
  /\ send[w] = "send"
  /\ \/ \E s \in Scripts :
           /\ script[s] = "listen"
           /\ \/ script' = [script EXCEPT ![s] = "restore"] /\ SendGoto(w, "idle") /\ UNCHANGED spent
              \/ /\ Fault
                 /\ script' = [script EXCEPT ![s] = "broken"] /\ SendGoto(w, "fail")
     \/ /\ \A s \in Scripts : script[s] # "listen"
        /\ SendGoto(w, "fail") /\ UNCHANGED <<script, spent>>
  /\ UNCHANGED <<flag, jobs, callVars, tickVars, job>>

SendFails(w) ==
  /\ send[w] = "fail"
  /\ JobsUpdateState({sent[w]}, Row(5, 0))
  /\ SendGoto(w, "idle")
  /\ UNCHANGED <<flag, callVars, tickVars, scriptVars>>

--------------------------------------------------------------------------------
(* The job script, which cron starts again and again.  Its statements name  *)
(* the row by an id that the next job of the task will have too.            *)

ScriptTakes(s, t) ==
  /\ script[s] = "idle" /\ jobs[t] = Available
  /\ jobs' = [jobs EXCEPT ![t] = Row(1, 0)]
  /\ script' = [script EXCEPT ![s] = "taken"] /\ job' = [job EXCEPT ![s] = t]
  /\ UNCHANGED <<flag, callVars, tickVars, sendVars, spent>>

(* socatCleaner kills the listener of an earlier run. *)
ScriptListens(s) ==
  /\ script[s] = "taken"
  /\ script' = [o \in Scripts |-> IF o = s THEN "listen"
                                  ELSE IF script[o] = "listen" THEN "broken" ELSE script[o]]
  /\ jobs' = Update({job[s]}, [jobs[job[s]] EXCEPT !.state = 2])
  /\ UNCHANGED <<flag, callVars, tickVars, sendVars, job, spent>>

(* doneJob: finished, or no trace of a complete restore. *)
ScriptEnds(s) ==
  /\ script[s] \in {"restore", "broken"}
  /\ \E r \in {Row(3, 1), Row(5, 0)} :
       /\ script[s] = "broken" => r = Row(5, 0)
       /\ jobs' = Update({job[s]}, r)
  /\ script' = [script EXCEPT ![s] = "idle"]
  /\ UNCHANGED <<flag, callVars, tickVars, sendVars, job, spent>>

--------------------------------------------------------------------------------
(* A new manager process: the flag and the goroutines are gone, the rows    *)
(* and the script are not.                                                  *)
Restart ==
  /\ Fault
  /\ flag' = None
  /\ pc' = [c \in Callers |-> "idle"]
  /\ tick' = "finished" /\ opened' = {} /\ found' = {} /\ todo' = {} /\ release' = FALSE
  /\ send' = [w \in Senders |-> "idle"]
  /\ UNCHANGED <<jobs, task, sent, loop, scriptVars>>

Init ==
  /\ flag = None
  /\ jobs = [t \in JobTasks |-> NoRow]
  /\ pc = [c \in Callers |-> "idle"] /\ task = [c \in Callers |-> None]
  /\ tick = "finished" /\ opened = {} /\ found = {} /\ todo = {} /\ release = FALSE
  /\ send = [w \in Senders |-> "idle"] /\ sent = [w \in Senders |-> None] /\ loop = [w \in Senders |-> 0]
  /\ script = [s \in Scripts |-> "idle"] /\ job = [s \in Scripts |-> None]
  /\ spent = [e \in Events |-> 0]

CallerStep(c) ==
  \/ SetInReseedBackup(c) \/ JobInsertTask(c) \/ DeleteRow(c) \/ InsertRow(c) \/ ChangeMaster(c)
  \/ BeginLoad(c) \/ RejoinDirectDump(c) \/ LoadEnds(c) \/ ReportLoad(c)
TickStep ==
  \/ JobsCheckFinished \/ HasReseedingState \/ AfterJobProcess \/ JobsCheckErrors \/ AcknowledgeErrors
  \/ JobsCheckPending \/ CancelHalted \/ JobsCheckRunning \/ StateProcessing
  \/ \E t \in Physical : ProcessRefused(t) \/ \E w \in Senders : ProcessReseedPhysical(w, t)
SenderStep(w) == WaitAndSendSST(w) \/ LookAgain(w) \/ WaitEnds(w) \/ StartSender(w) \/ SSTRunSender(w) \/ SendFails(w)
ScriptStep(s) == ScriptListens(s) \/ ScriptEnds(s) \/ \E t \in Physical : ScriptTakes(s, t)

Next ==
  \/ \E c \in Callers : CallerStep(c) \/ \E t \in Tasks : HasAnyReseedingState(c, t)
  \/ TickStep
  \/ \E w \in Senders : SenderStep(w)
  \/ \E s \in Scripts : ScriptStep(s)
  \/ JobsCancelTasks
  \/ \E t \in JobTasks : ForceCancelTask(t)
  \/ Restart

Spec == Init /\ [][Next]_vars

(* Goroutines go on, the tick comes back, cron starts the script again.     *)
FairSpec ==
  /\ Spec
  /\ WF_vars(TickStep)
  /\ \A c \in Callers : WF_vars(CallerStep(c))
  /\ \A w \in Senders : WF_vars(SenderStep(w))
  /\ \A s \in Scripts : WF_vars(ScriptStep(s))

--------------------------------------------------------------------------------
TypeOK ==
  /\ flag \in Tasks \cup {None}
  /\ jobs \in [JobTasks -> Rows \cup {NoRow}]
  /\ pc \in [Callers -> {"idle", "set", "select", "replace", "create", "change", "begin", "dump", "load", "report"}]
  /\ task \in [Callers -> Tasks \cup {None}]
  /\ tick \in {"finished", "after", "start", "errors", "ended", "acknowledge", "pending", "halted", "running", "process"}
  /\ opened \subseteq Physical /\ found \subseteq Physical
  /\ todo \subseteq JobTasks /\ release \in BOOLEAN
  /\ send \in [Senders -> {"idle", "look", "sleep", "halted", "send", "fail", "release"}]
  /\ sent \in [Senders -> Physical \cup {None}] /\ loop \in [Senders -> 0..MaxLoop]
  /\ script \in [Scripts -> {"idle", "taken", "listen", "restore", "broken"}]
  /\ job \in [Scripts -> Physical \cup {None}]
  /\ spent \in [Events -> Nat]

(* The tasks whose data is being written into the server. *)
Restores == {<<c, task[c]>> : c \in {x \in Callers : pc[x] = "load"}}
       \cup {<<s, job[s]>> : s \in {x \in Scripts : script[x] = "restore"}}

(* As long as nothing fails or is cancelled and no request comes while      *)
(* another one is being started, data is only written into the server for   *)
(* the request that the flag names, so never by two at a time.              *)
RestoreFlagged == spent["overlap"] + spent["fault"] = 0 => \A r \in Restores : flag = r[2]

(* The error a physical job ends in takes its flag down, when no request,   *)
(* no script and no earlier query of the tick is about to change the job.   *)
Quiet == /\ \A c \in Callers : pc[c] = "idle"
         /\ \A s \in Scripts : script[s] = "idle"
         /\ todo = {}
ErrorReleases == \A t \in Physical : (flag = t /\ jobs[t] = Row(5, 0) /\ Quiet) ~> flag # t

(* Once the manager has forgotten a reseed, its halted job is cancelled. *)
HaltedCancelled == \A t \in Physical : (flag = None /\ jobs[t].state = 2) ~> (flag # None \/ jobs[t].state # 2)
================================================================================
