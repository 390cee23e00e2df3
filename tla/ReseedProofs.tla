------------------------------ MODULE ReseedProofs ------------------------------
(***************************************************************************)
(* What holds of the reseeding of a server for every number of callers,     *)
(* senders and runs of the script, and for every number of requests.        *)
(***************************************************************************)
EXTENDS Reseed, TLAPS

(* The request a caller serves fits the place where the caller is. *)
Asked ==
  \A c \in Callers :
    /\ pc[c] # "idle" => task[c] \in Tasks
    /\ pc[c] \in {"select", "replace", "create", "change", "begin", "report"} => task[c] \in JobTasks
    /\ pc[c] \in {"begin", "dump", "load", "report"} => task[c] \notin Physical

(* As long as nothing fails, is cancelled or overlaps, these hold together. *)
Calm == spent["overlap"] + spent["fault"] = 0

(* Rows of jobs that are over. *)
Ended == {NoRow, Row(4, 1), Row(5, 1)}

(* One request is being started at a time, and the flag names it. *)
OneRequest ==
  /\ \A c, d \in Callers : pc[c] # "idle" /\ pc[d] # "idle" => c = d
  /\ \A c \in Callers :
       /\ pc[c] \in {"set", "report"} => flag = None
       /\ pc[c] \in {"select", "replace", "create", "begin", "dump", "load"} => flag = task[c]
       /\ pc[c] = "change" => flag = task[c] \/ (task[c] \in Physical /\ flag = None)
       /\ pc[c] \in {"select", "replace", "create"} /\ task[c] \in Physical => jobs[task[c]] \in Ended

(* Requests that have been started; a script may take a row before the      *)
(* request has done its CHANGE MASTER.                                      *)
Started == \A c \in Callers : pc[c] \in {"idle", "change"}
NoScript == \A s \in Scripts : script[s] = "idle"
NoSender == \A w \in Senders : send[w] = "idle"
Listening == \E s \in Scripts : script[s] = "listen"
Taken == \E s \in Scripts : script[s] \in {"taken", "listen"}
Watched == opened \cup found

(* The row of a physical task tells how far its job is. *)
RowsTell ==
  \A t \in Physical :
    /\ jobs[t] \in Ended \cup {Available, Row(1, 0), Row(2, 0), Row(3, 1), Row(5, 0)}
    /\ flag # t => jobs[t] \in Ended
    /\ jobs[t] = Available => Started /\ NoScript /\ NoSender
    /\ jobs[t] \in {Row(3, 1), Row(5, 0)} => Started /\ NoScript /\ NoSender /\ t \notin Watched

(* One run of the script works for the holder of the flag. *)
OneScript ==
  /\ \A s, o \in Scripts : script[s] # "idle" /\ script[o] # "idle" => s = o
  /\ \A s \in Scripts :
       /\ script[s] # "idle" => Started /\ job[s] = flag /\ flag \in Physical /\ script[s] # "broken"
       /\ script[s] = "taken" => jobs[flag] = Row(1, 0)
       /\ script[s] = "listen" => jobs[flag] = Row(2, 0) \/ \E w \in Senders : send[w] = "send"
       /\ script[s] = "restore" => NoSender /\ flag \notin Watched

(* One sender waits for that run; it never gives up. *)
OneSender ==
  /\ \A w, v \in Senders : send[w] # "idle" /\ send[v] # "idle" => w = v
  /\ \A w \in Senders :
       /\ send[w] # "idle" => sent[w] = flag /\ flag \notin Watched /\ Taken /\ send[w] \notin {"fail", "release"}
       /\ send[w] = "sleep" => loop[w] < MaxLoop
       /\ send[w] \in {"halted", "send"} => Listening

(* What the tick has seen is still so. *)
TickKnows ==
  /\ \A t \in Watched : t = flag /\ NoSender /\ (jobs[t] = Available \/ Taken)
  /\ tick = "process" => \A t \in Resolved : jobs[t] # Available
  /\ tick = "halted" => todo \cap Physical = {}
  /\ tick = "after" => \A t \in todo \cap Physical : jobs[t] = Row(3, 1)
  /\ tick = "ended" => \A t \in todo \cap Physical : jobs[t] = Row(5, 0)
  /\ release => \/ tick = "start" /\ flag \in todo \cap Physical /\ jobs[flag] = Row(3, 1)
                \/ tick = "acknowledge" /\ flag \in todo \cap Physical /\ jobs[flag] = Row(5, 0)

InOrder == OneRequest /\ RowsTell /\ OneScript /\ OneSender /\ TickKnows
Served == Calm => InOrder

--------------------------------------------------------------------------------
(* Types. *)

(* The kinds of tasks. *)
LEMMA TaskFacts == Physical \subseteq JobTasks /\ JobTasks \subseteq Tasks /\ None \notin Tasks /\ Direct \notin JobTasks
BY TasksAssumption DEF Physical, JobTasks, None, Reseed, Flashback, ReseedLogical, FlashbackLogical, Direct

(* The rows the code writes are rows of the table. *)
LEMMA RowTypes ==
  {Available, Row(1, 0), Row(2, 0), Row(2, 1), Row(3, 1), Row(4, 1), Row(5, 0), Row(5, 1), Row(6, 1)} \subseteq Rows
BY DEF Row, Rows, Available

(* A fault or its absence keeps the counters natural numbers. *)
LEMMA CountType ==
  ASSUME spent \in [Events -> Nat], Succeeds \/ Fails \/ Fault \/ UNCHANGED spent
  PROVE  spent' \in [Events -> Nat]
BY DEF Succeeds, Fails, Fault, Spend, Events

(* An update of some rows keeps the type of the table. *)
LEMMA UpdateType ==
  ASSUME jobs \in [JobTasks -> Rows \cup {NoRow}], NEW T, NEW r \in Rows
  PROVE  Update(T, r) \in [JobTasks -> Rows \cup {NoRow}]
BY DEF Update

(* JobsUpdateState keeps the types of the table and the counters. *)
LEMMA UpdateStateType ==
  ASSUME TypeOK, NEW T, NEW r \in Rows, JobsUpdateState(T, r)
  PROVE  jobs' \in [JobTasks -> Rows \cup {NoRow}] /\ spent' \in [Events -> Nat]
BY UpdateType, CountType DEF JobsUpdateState, TypeOK

Places == {"idle", "set", "select", "replace", "create", "change", "begin", "dump", "load", "report"}

(* A request that moves on moves alone. *)
LEMMA GotoType ==
  ASSUME TypeOK, NEW c \in Callers, NEW l \in Places, Goto(c, l)
  PROVE  pc' \in [Callers -> Places] /\ pc'[c] = l /\ \A d \in Callers \ {c} : pc'[d] = pc[d]
BY DEF TypeOK, Goto, Places

(* A refused request ends and leaves a flag. *)
LEMMA RefusedType ==
  ASSUME TypeOK, NEW c \in Callers, Refused(c)
  PROVE  /\ flag' \in Tasks \cup {None}
         /\ pc' \in [Callers -> Places] /\ pc'[c] = "idle" /\ \A d \in Callers \ {c} : pc'[d] = pc[d]
BY GotoType DEF Refused, ReleaseOwn, TypeOK, Places

Typed == TypeOK /\ Asked

(* The steps of a request keep Typed. *)
LEMMA CallerTyped ==
  ASSUME Typed, NEW c \in Callers, CallerStep(c)
  PROVE  Typed'
<1> USE DEF Typed, tickVars, sendVars, scriptVars
<1>1. CASE SetInReseedBackup(c)
  <2>1. task[c] \in Tasks /\ flag' = task[c]
    BY <1>1 DEF SetInReseedBackup, Asked
  <2>2. pc' \in [Callers -> Places] /\ pc'[c] = (IF task[c] = Direct THEN "dump" ELSE "select")
        /\ \A d \in Callers \ {c} : pc'[d] = pc[d]
    BY <1>1, GotoType DEF SetInReseedBackup, Places
  <2>3. task[c] # Direct => task[c] \in JobTasks
    BY <2>1 DEF JobTasks
  <2>4. Direct \notin Physical
    BY TaskFacts
  <2> QED
    BY <1>1, <2>1, <2>2, <2>3, <2>4 DEF SetInReseedBackup, TypeOK, Asked, Places
<1>2. CASE JobInsertTask(c)
  <2>1. spent' \in [Events -> Nat]
    BY <1>2, CountType DEF JobInsertTask, TypeOK
  <2>2. /\ flag' \in Tasks \cup {None}
        /\ pc' \in [Callers -> Places] /\ pc'[c] \in {"idle", "create", "replace"} /\ \A d \in Callers \ {c} : pc'[d] = pc[d]
    <3>1. CASE Refused(c)
      BY <3>1, RefusedType
    <3>2. CASE UNCHANGED flag /\ Goto(c, IF jobs[task[c]] = NoRow THEN "create" ELSE "replace")
      BY <3>2, GotoType DEF TypeOK, Places
    <3> QED
      BY <1>2, <3>1, <3>2 DEF JobInsertTask
  <2>3. task[c] \in JobTasks /\ UNCHANGED <<jobs, task, tickVars, sendVars, scriptVars>>
    BY <1>2 DEF JobInsertTask, Asked
  <2> QED
    BY <2>1, <2>2, <2>3, TaskFacts DEF TypeOK, Asked, Places
<1>3. CASE DeleteRow(c) \/ InsertRow(c)
  <2>1. spent' \in [Events -> Nat]
    BY <1>3, CountType DEF DeleteRow, InsertRow, TypeOK
  <2>2. task[c] \in JobTasks /\ UNCHANGED <<task, tickVars, sendVars, scriptVars>>
    BY <1>3 DEF DeleteRow, InsertRow, Asked
  <2>3. jobs' \in [JobTasks -> Rows \cup {NoRow}]
    BY <1>3, <2>2, RowTypes DEF DeleteRow, InsertRow, TypeOK
  <2>4. /\ flag' \in Tasks \cup {None}
        /\ pc' \in [Callers -> Places] /\ pc'[c] \in {"idle", "create", "change"}
        /\ \A d \in Callers \ {c} : pc'[d] = pc[d]
    <3>1. CASE Refused(c)
      BY <3>1, RefusedType
    <3>2. CASE UNCHANGED flag /\ (Goto(c, "create") \/ Goto(c, "change"))
      BY <3>2, GotoType DEF TypeOK, Places
    <3> QED
      BY <1>3, <3>1, <3>2 DEF DeleteRow, InsertRow
  <2> QED
    BY <2>1, <2>2, <2>3, <2>4, TaskFacts DEF TypeOK, Asked, Places
<1>4. CASE ChangeMaster(c)
  <2>1. spent' \in [Events -> Nat]
    BY <1>4, CountType DEF ChangeMaster, TypeOK
  <2>2. task[c] \in JobTasks /\ UNCHANGED <<jobs, task, tickVars, sendVars, scriptVars>>
    BY <1>4 DEF ChangeMaster, Asked
  <2>3. flag' \in Tasks \cup {None}
    BY <1>4 DEF ChangeMaster, ReleaseOwn, TypeOK
  <2>4. /\ pc' \in [Callers -> Places] /\ pc'[c] \in {"idle", "begin", "load"} /\ \A d \in Callers \ {c} : pc'[d] = pc[d]
        /\ pc'[c] # "idle" => task[c] \notin Physical
    <3>1. CASE Goto(c, "idle")
      BY <3>1, GotoType DEF Places
    <3>2. CASE Goto(c, CASE task[c] \in Physical -> "idle" [] task[c] = ReseedLogical -> "begin" [] OTHER -> "load")
      <4>1. CASE task[c] \in Physical
        <5>1. ReseedLogical \notin Physical
          BY DEF Physical, Reseed, Flashback, ReseedLogical
        <5>2. Goto(c, "idle")
          BY <3>2, <4>1, <5>1
        <5> QED
          BY <5>2, GotoType DEF Places
      <4>2. CASE task[c] \notin Physical /\ task[c] = ReseedLogical
        <5>1. Goto(c, "begin")
          BY <3>2, <4>2
        <5> QED
          BY <4>2, <5>1, GotoType DEF Places
      <4>3. CASE task[c] \notin Physical /\ task[c] # ReseedLogical
        <5>1. Goto(c, "load")
          BY <3>2, <4>3
        <5> QED
          BY <4>3, <5>1, GotoType DEF Places
      <4> QED
        BY <4>1, <4>2, <4>3
    <3> QED
      BY <1>4, <3>1, <3>2 DEF ChangeMaster
  <2> QED
    BY <2>1, <2>2, <2>3, <2>4, TaskFacts DEF TypeOK, Asked, Places
<1>5. CASE BeginLoad(c)
  <2>1. jobs' \in [JobTasks -> Rows \cup {NoRow}] /\ spent' \in [Events -> Nat]
    BY <1>5, RowTypes, UpdateStateType DEF BeginLoad
  <2>2. pc' \in [Callers -> Places] /\ pc'[c] = "load" /\ \A d \in Callers \ {c} : pc'[d] = pc[d]
    BY <1>5, GotoType DEF BeginLoad, Places
  <2> QED
    BY <1>5, <2>1, <2>2 DEF BeginLoad, TypeOK, Asked, Places
<1>6. CASE RejoinDirectDump(c)
  <2>1. spent' \in [Events -> Nat]
    BY <1>6, CountType DEF RejoinDirectDump, TypeOK
  <2>2. /\ flag' \in Tasks \cup {None}
        /\ pc' \in [Callers -> Places] /\ pc'[c] \in {"idle", "load"} /\ \A d \in Callers \ {c} : pc'[d] = pc[d]
    BY <1>6, RefusedType, GotoType DEF RejoinDirectDump, TypeOK, Places
  <2> QED
    BY <1>6, <2>1, <2>2 DEF RejoinDirectDump, TypeOK, Asked, Places
<1>7. CASE LoadEnds(c)
  <2>1. pc' \in [Callers -> Places] /\ pc'[c] = (IF task[c] = Direct THEN "idle" ELSE "report")
        /\ \A d \in Callers \ {c} : pc'[d] = pc[d]
    BY <1>7, GotoType DEF LoadEnds, Places
  <2>2. task[c] \in Tasks /\ task[c] \notin Physical
    BY <1>7 DEF LoadEnds, Asked
  <2> QED
    BY <1>7, <2>1, <2>2 DEF LoadEnds, TypeOK, Asked, Places, JobTasks
<1>8. CASE ReportLoad(c)
  <2>1. jobs' \in [JobTasks -> Rows \cup {NoRow}] /\ spent' \in [Events -> Nat]
    BY <1>8, RowTypes, UpdateStateType DEF ReportLoad
  <2>2. pc' \in [Callers -> Places] /\ pc'[c] = "idle" /\ \A d \in Callers \ {c} : pc'[d] = pc[d]
    BY <1>8, GotoType DEF ReportLoad, Places
  <2> QED
    BY <1>8, <2>1, <2>2 DEF ReportLoad, TypeOK, Asked, Places
<1> QED
  BY <1>1, <1>2, <1>3, <1>4, <1>5, <1>6, <1>7, <1>8 DEF CallerStep

(* The steps of the tick keep Typed. *)
LEMMA TickTyped ==
  ASSUME Typed, TickStep
  PROVE  Typed'
<1> USE DEF Typed, callVars, sendVars, scriptVars
<1>1. \A T, r : r \in Rows => Update(T, r) \in [JobTasks -> Rows \cup {NoRow}]
  BY UpdateType DEF TypeOK
<1>2. \A T, r : r \in Rows /\ JobsUpdateState(T, r) => jobs' \in [JobTasks -> Rows \cup {NoRow}] /\ spent' \in [Events -> Nat]
  BY UpdateStateType
<1>3. Succeeds \/ Fails \/ UNCHANGED spent => spent' \in [Events -> Nat]
  BY CountType DEF TypeOK
<1>4. UNCHANGED callVars => Asked'
  BY DEF Asked
<1>5. CASE JobsCheckFinished
  BY <1>3, <1>4, <1>5 DEF JobsCheckFinished, TypeOK
<1>x. CASE HasReseedingState
  <2>1. tick' \in {"start", "acknowledge"} /\ release' \in BOOLEAN
    BY <1>x DEF HasReseedingState
  <2> QED
    BY <1>3, <1>4, <1>x, <2>1 DEF HasReseedingState, TypeOK
<1>6. CASE AfterJobProcess
  <2>1. jobs' \in [JobTasks -> Rows \cup {NoRow}]
    BY <1>1, <1>6, RowTypes DEF AfterJobProcess
  <2> QED
    BY <1>3, <1>4, <1>6, <2>1 DEF AfterJobProcess, TypeOK
<1>7. CASE JobsCheckErrors
  BY <1>3, <1>4, <1>7 DEF JobsCheckErrors, TypeOK
<1>8. CASE AcknowledgeErrors
  <2>1. jobs' \in [JobTasks -> Rows \cup {NoRow}] /\ spent' \in [Events -> Nat]
    BY <1>2, <1>8, RowTypes DEF AcknowledgeErrors
  <2> QED
    BY <1>4, <1>8, <2>1 DEF AcknowledgeErrors, TypeOK
<1>9. CASE JobsCheckPending
  BY <1>1, <1>3, <1>4, <1>9, RowTypes DEF JobsCheckPending, TypeOK
<1>10. CASE CancelHalted
  BY <1>2, <1>4, <1>10, RowTypes DEF CancelHalted, TypeOK
<1>11. CASE JobsCheckRunning
  BY <1>3, <1>4, <1>11 DEF JobsCheckRunning, TypeOK
<1>12. CASE StateProcessing
  BY <1>4, <1>12 DEF StateProcessing, TypeOK
<1>13. ASSUME NEW t \in Physical, ProcessRefused(t)
       PROVE  Typed'
  BY <1>1, <1>2, <1>3, <1>4, <1>13, RowTypes DEF ProcessRefused, TypeOK
<1>14. ASSUME NEW t \in Physical, NEW w \in Senders, ProcessReseedPhysical(w, t)
       PROVE  Typed'
  <2>1. /\ send' \in [Senders -> {"idle", "look", "sleep", "halted", "send", "fail", "release"}]
        /\ sent' \in [Senders -> Physical \cup {None}]
        /\ loop' \in [Senders -> 0..MaxLoop]
    BY <1>14, BoundAssumption DEF ProcessReseedPhysical, TypeOK
  <2> QED
    BY <1>4, <1>14, <2>1 DEF ProcessReseedPhysical, TypeOK
<1> QED
  BY <1>x, <1>5, <1>6, <1>7, <1>8, <1>9, <1>10, <1>11, <1>12, <1>13, <1>14 DEF TickStep

(* The steps of a sender keep Typed. *)
LEMMA SenderTyped ==
  ASSUME Typed, NEW w \in Senders, SenderStep(w)
  PROVE  Typed'
<1> USE DEF Typed, callVars, tickVars, scriptVars
<1>1. \A T, r : r \in Rows /\ JobsUpdateState(T, r) => jobs' \in [JobTasks -> Rows \cup {NoRow}] /\ spent' \in [Events -> Nat]
  BY UpdateStateType
<1>2. Succeeds \/ Fails \/ Fault \/ UNCHANGED spent => spent' \in [Events -> Nat]
  BY CountType DEF TypeOK
<1>3. UNCHANGED callVars => Asked'
  BY DEF Asked
<1> DEFINE sendTyped == /\ send' \in [Senders -> {"idle", "look", "sleep", "halted", "send", "fail", "release"}]
                        /\ sent' \in [Senders -> Physical \cup {None}] /\ loop' \in [Senders -> 0..MaxLoop]
<1>4. \A l \in {"idle", "sleep", "halted", "send", "fail", "release"} : SendGoto(w, l) => sendTyped
  BY DEF SendGoto, TypeOK
<1>5. CASE WaitAndSendSST(w)
  <2>1. sendTyped
    BY <1>4, <1>5 DEF WaitAndSendSST
  <2>2. flag' \in Tasks \cup {None}
    BY <1>5 DEF WaitAndSendSST, ReleaseOwn, TypeOK
  <2> QED
    BY <1>2, <1>3, <1>5, <2>1, <2>2 DEF WaitAndSendSST, TypeOK
<1>6. CASE LookAgain(w)
  <2>1. sendTyped
    BY <1>6, BoundAssumption DEF LookAgain, TypeOK
  <2> QED
    BY <1>3, <1>6, <2>1 DEF LookAgain, TypeOK
<1>7. CASE WaitEnds(w)
  <2>1. sendTyped
    BY <1>4, <1>7 DEF WaitEnds
  <2>2. flag' \in Tasks \cup {None}
    BY <1>7 DEF WaitEnds, ReleaseOwn, TypeOK
  <2>3. jobs' \in [JobTasks -> Rows \cup {NoRow}] /\ spent' \in [Events -> Nat]
    BY <1>1, <1>7, RowTypes DEF WaitEnds, TypeOK
  <2> QED
    BY <1>3, <1>7, <2>1, <2>2, <2>3 DEF WaitEnds, TypeOK
<1>8. CASE StartSender(w)
  <2>1. sendTyped
    BY <1>4, <1>8 DEF StartSender
  <2> QED
    BY <1>1, <1>3, <1>8, <2>1, RowTypes DEF StartSender, TypeOK
<1>9. CASE SSTRunSender(w)
  <2>1. sendTyped
    BY <1>4, <1>9 DEF SSTRunSender
  <2>2. script' \in [Scripts -> {"idle", "taken", "listen", "restore", "broken"}]
    BY <1>9 DEF SSTRunSender, TypeOK
  <2>3. spent' \in [Events -> Nat]
    BY <1>2, <1>9 DEF SSTRunSender
  <2> QED
    BY <1>3, <1>9, <2>1, <2>2, <2>3 DEF SSTRunSender, TypeOK
<1>10. CASE SendFails(w)
  <2>1. sendTyped
    BY <1>4, <1>10 DEF SendFails
  <2> QED
    BY <1>1, <1>3, <1>10, <2>1, RowTypes DEF SendFails, TypeOK
<1> QED
  BY <1>5, <1>6, <1>7, <1>8, <1>9, <1>10 DEF SenderStep

(* The steps of the script keep Typed. *)
LEMMA ScriptTyped ==
  ASSUME Typed, NEW s \in Scripts, ScriptStep(s)
  PROVE  Typed'
<1> USE DEF Typed, callVars, tickVars, sendVars
<1>1. \A T, r : r \in Rows => Update(T, r) \in [JobTasks -> Rows \cup {NoRow}]
  BY UpdateType DEF TypeOK
<1>2. UNCHANGED callVars => Asked'
  BY DEF Asked
<1>3. ASSUME NEW t \in Physical, ScriptTakes(s, t)
      PROVE  Typed'
  <2>1. jobs' \in [JobTasks -> Rows \cup {NoRow}]
    BY <1>3, RowTypes DEF ScriptTakes, TypeOK
  <2> QED
    BY <1>2, <1>3, <2>1 DEF ScriptTakes, TypeOK
<1>4. CASE ScriptListens(s)
  <2> DEFINE t == job[s]
  <2>1. jobs' \in [JobTasks -> Rows \cup {NoRow}]
    <3>1. CASE t \in JobTasks
      <4>1. jobs[t] \in Rows \cup {NoRow}
        BY <3>1 DEF TypeOK
      <4>2. [jobs[t] EXCEPT !.state = 2] \in Rows
        BY <4>1 DEF Rows, NoRow
      <4> QED
        BY <1>1, <1>4, <4>2 DEF ScriptListens
    <3>2. CASE t \notin JobTasks
      BY <1>4, <3>2 DEF ScriptListens, Update, TypeOK
    <3> QED
      BY <3>1, <3>2
  <2>2. script' \in [Scripts -> {"idle", "taken", "listen", "restore", "broken"}]
    BY <1>4 DEF ScriptListens, TypeOK
  <2> QED
    BY <1>2, <1>4, <2>1, <2>2 DEF ScriptListens, TypeOK
<1>5. CASE ScriptEnds(s)
  <2>1. jobs' \in [JobTasks -> Rows \cup {NoRow}]
    BY <1>1, <1>5, RowTypes DEF ScriptEnds
  <2> QED
    BY <1>2, <1>5, <2>1 DEF ScriptEnds, TypeOK
<1> QED
  BY <1>3, <1>4, <1>5 DEF ScriptStep

(* Every step keeps Typed. *)
LEMMA NextTyped == Typed /\ [Next]_vars => Typed'
<1> SUFFICES ASSUME Typed, [Next]_vars
             PROVE  Typed'
  OBVIOUS
<1> USE DEF callVars, tickVars, sendVars, scriptVars
<1>1. CASE UNCHANGED vars
  BY <1>1 DEF vars, Typed, TypeOK, Asked
<1>2. ASSUME NEW c \in Callers, CallerStep(c)
      PROVE  Typed'
  BY <1>2, CallerTyped
<1>3. ASSUME NEW c \in Callers, NEW t \in Tasks, HasAnyReseedingState(c, t)
      PROVE  Typed'
  <2>1. spent' \in [Events -> Nat]
    BY <1>3 DEF HasAnyReseedingState, Spend, Typed, TypeOK, Events
  <2>2. pc' \in [Callers -> Places] /\ pc'[c] = "set" /\ \A d \in Callers \ {c} : pc'[d] = pc[d]
    BY <1>3, GotoType DEF HasAnyReseedingState, Places, Typed
  <2>3. task' \in [Callers -> Tasks \cup {None}] /\ task'[c] = t /\ \A d \in Callers \ {c} : task'[d] = task[d]
    BY <1>3 DEF HasAnyReseedingState, Typed, TypeOK
  <2> QED
    BY <1>3, <2>1, <2>2, <2>3 DEF HasAnyReseedingState, Typed, TypeOK, Asked, Places
<1>4. CASE TickStep \/ (\E w \in Senders : SenderStep(w)) \/ (\E s \in Scripts : ScriptStep(s))
  BY <1>4, TickTyped, SenderTyped, ScriptTyped
<1>5. CASE JobsCancelTasks \/ \E t \in JobTasks : ForceCancelTask(t)
  <2>1. spent' \in [Events -> Nat]
    BY <1>5, CountType DEF JobsCancelTasks, ForceCancelTask, Typed, TypeOK
  <2>2. jobs' \in [JobTasks -> Rows \cup {NoRow}]
    <3>1. \A T : Update(T, Row(5, 1)) \in [JobTasks -> Rows \cup {NoRow}]
      BY UpdateType, RowTypes DEF Typed, TypeOK
    <3> QED
      BY <1>5, <3>1 DEF JobsCancelTasks, ForceCancelTask
  <2>3. flag' \in Tasks \cup {None}
    BY <1>5 DEF JobsCancelTasks, ForceCancelTask, ReleaseOwn, Typed, TypeOK
  <2> QED
    BY <1>5, <2>1, <2>2, <2>3 DEF JobsCancelTasks, ForceCancelTask, Typed, TypeOK, Asked
<1>6. CASE Restart
  <2>1. spent' \in [Events -> Nat]
    BY <1>6, CountType DEF Restart, Typed, TypeOK
  <2> QED
    BY <1>6, <2>1 DEF Restart, Typed, TypeOK, Asked
<1> QED
  BY <1>1, <1>2, <1>3, <1>4, <1>5, <1>6 DEF Next

(* Typed holds in every reachable state. *)
LEMMA SpecTyped == Spec => []Typed
<1>1. Init => Typed
  <2> SUFFICES ASSUME Init
               PROVE  Typed
    OBVIOUS
  <2>1. spent \in [Events -> Nat] /\ loop \in [Senders -> 0..MaxLoop]
    BY BoundAssumption DEF Init, Events
  <2> QED
    BY <2>1 DEF Init, Typed, TypeOK, Asked
<1> QED
  BY <1>1, NextTyped, PTL DEF Spec

(* Every field, row and counter of the reseeds keeps its type, whatever     *)
(* requests, cancellations, restarts and errors come in between; a request  *)
(* is only handled by the code of its own kind.                             *)
THEOREM ReseedTypes == Spec => []TypeOK
<1>1. Typed => TypeOK
  BY DEF Typed
<1> QED
  BY <1>1, SpecTyped, PTL

--------------------------------------------------------------------------------
(* Requests in order. *)

(* The rows of the stages of a job are different rows. *)
LEMMA RowFacts ==
  /\ Available \notin Ended /\ Row(1, 0) \notin Ended /\ Row(2, 0) \notin Ended
  /\ Row(3, 1) \notin Ended /\ Row(5, 0) \notin Ended
  /\ NoRow \in Ended /\ Row(4, 1) \in Ended /\ Row(5, 1) \in Ended
  /\ Available \notin {Row(1, 0), Row(2, 0), Row(3, 1), Row(5, 0)}
  /\ Row(1, 0) \notin {Row(2, 0), Row(3, 1), Row(5, 0)}
  /\ Row(2, 0) \notin {Row(3, 1), Row(5, 0)} /\ Row(3, 1) # Row(5, 0)
  /\ {Available, Row(1, 0), Row(2, 0), Row(3, 1), Row(5, 0)} \cap {NoRow} = {}
BY DEF Row, Available, NoRow, Ended

(* The states of those rows. *)
LEMMA RowStates ==
  /\ Available.state = 0 /\ Row(1, 0).state = 1 /\ Row(2, 0).state = 2 /\ Row(3, 1).state = 3 /\ Row(5, 0).state = 5
  /\ \A r \in Ended : r.state \in {4, 5, 7}
  /\ [Row(1, 0) EXCEPT !.state = 2] = Row(2, 0)
BY DEF Row, Available, NoRow, Ended

(* In a calm step nothing fails and no request overlaps. *)
LEMMA CalmStep ==
  ASSUME Typed, [Next]_vars, Calm'
  PROVE  Calm /\ ~Fails /\ ~Fault /\ ~Spend("overlap")
<1> DEFINE grow == \A e \in {"overlap", "fault"} : spent[e] \in Nat /\ spent'[e] \in Nat /\ spent[e] <= spent'[e]
<1>1. spent \in [Events -> Nat]
  BY DEF Typed, TypeOK
<1>2. ASSUME NEW e \in Events, Spend(e)
      PROVE  grow /\ spent'[e] > 0
  BY <1>1, <1>2 DEF Spend, Events
<1>3. ASSUME UNCHANGED spent
      PROVE  grow
  BY <1>1, <1>3 DEF Events
<1>4. Fault => grow /\ spent'["fault"] > 0
  BY <1>2 DEF Fault, Events
<1>5. Succeeds \/ Fails => grow
  BY <1>3, <1>4 DEF Succeeds, Fails
<1>6. \A T, r : JobsUpdateState(T, r) => grow
  BY <1>5 DEF JobsUpdateState
<1>7. ASSUME NEW c \in Callers, CallerStep(c)
      PROVE  grow
  BY <1>3, <1>5, <1>6, <1>7
     DEF CallerStep, SetInReseedBackup, JobInsertTask, DeleteRow, InsertRow, ChangeMaster, BeginLoad, RejoinDirectDump,
         LoadEnds, ReportLoad
<1>8. ASSUME TickStep
      PROVE  grow
  BY <1>3, <1>5, <1>6, <1>8
     DEF TickStep, JobsCheckFinished, HasReseedingState, AfterJobProcess, JobsCheckErrors, AcknowledgeErrors, JobsCheckPending, CancelHalted,
         JobsCheckRunning, StateProcessing, ProcessRefused, ProcessReseedPhysical
<1>9. ASSUME NEW w \in Senders, SenderStep(w)
      PROVE  grow
  BY <1>3, <1>4, <1>5, <1>6, <1>9 DEF SenderStep, WaitAndSendSST, LookAgain, WaitEnds, StartSender, SSTRunSender, SendFails
<1>10. ASSUME NEW s \in Scripts, ScriptStep(s)
       PROVE  grow
  BY <1>3, <1>10 DEF ScriptStep, ScriptListens, ScriptEnds, ScriptTakes
<1>11. ASSUME NEW c \in Callers, NEW t \in Tasks, HasAnyReseedingState(c, t)
       PROVE  grow
  BY <1>2, <1>11 DEF HasAnyReseedingState, Events
<1>12. ASSUME JobsCancelTasks \/ (\E t \in JobTasks : ForceCancelTask(t)) \/ Restart \/ UNCHANGED vars
       PROVE  grow
  BY <1>3, <1>4, <1>12 DEF JobsCancelTasks, ForceCancelTask, Restart, vars
<1>13. grow
  BY <1>7, <1>8, <1>9, <1>10, <1>11, <1>12 DEF Next
<1>14. spent'["overlap"] = 0 /\ spent'["fault"] = 0 /\ Calm
  BY <1>13 DEF Calm
<1> QED
  BY <1>2, <1>4, <1>14 DEF Fails, Events

(* What the steps of the tick that only look, and the end of a logical      *)
(* load, leave as it was.                                                   *)
LEMMA OnlyTheTick ==
  ASSUME InOrder, UNCHANGED <<flag, callVars, opened, found, sendVars, scriptVars>>,
         \A t \in Physical : jobs'[t] = jobs[t]
  PROVE  (OneRequest /\ RowsTell /\ OneScript /\ OneSender)'
<1> USE DEF InOrder, callVars, sendVars, scriptVars
<1>1. OneRequest'
  BY DEF OneRequest
<1>2. (Started <=> Started') /\ (NoScript <=> NoScript') /\ (NoSender <=> NoSender') /\ (Taken <=> Taken')
      /\ (Listening <=> Listening') /\ Watched' = Watched
  BY DEF Started, NoScript, NoSender, Taken, Listening, Watched
<1>3. RowsTell'
  BY <1>2 DEF RowsTell
<1>4. OneScript'
  BY <1>2 DEF OneScript
<1>5. OneSender'
  BY <1>2 DEF OneSender
<1> QED
  BY <1>1, <1>3, <1>4, <1>5

(* An update writes the rows of its tasks and no other. *)
LEMMA UpdateFacts ==
  ASSUME NEW T, NEW r, NEW t \in JobTasks
  PROVE  /\ t \notin T => Update(T, r)[t] = jobs[t]
         /\ t \in T /\ jobs[t] # NoRow => Update(T, r)[t] = r
BY DEF Update

(* Only the job that the flag names can be one that a query found ended. *)
LEMMA NoneEnded ==
  ASSUME InOrder, \A t \in Physical : flag = t => jobs[t] \notin {Row(3, 1), Row(5, 0)}
  PROVE  tick \in {"after", "ended"} => todo \cap Physical = {}
<1>1. \A t \in Physical : jobs[t] \notin {Row(3, 1), Row(5, 0)}
  BY RowFacts DEF InOrder, RowsTell
<1> QED
  BY <1>1 DEF InOrder, TickKnows

(* The steps of the tick keep InOrder while nothing fails. *)
LEMMA TickInOrder ==
  ASSUME Typed, InOrder, ~Fails, TickStep
  PROVE  InOrder'
<1> USE DEF callVars, tickVars, sendVars, scriptVars
<1>a. TypeOK /\ OneRequest /\ RowsTell /\ OneScript /\ OneSender /\ TickKnows
  BY DEF Typed, InOrder
<1>b. None \notin Physical /\ Physical \subseteq JobTasks
  BY TaskFacts
<1>c. release \in BOOLEAN /\ (release => flag \in Physical)
  BY <1>a DEF TypeOK, TickKnows
<1>1. CASE JobsCheckFinished
  <2>1. (OneRequest /\ RowsTell /\ OneScript /\ OneSender)'
    BY <1>1, OnlyTheTick DEF JobsCheckFinished
  <2>2. TickKnows'
    BY <1>1, <1>a DEF JobsCheckFinished, TickKnows, Watched, NoSender, Taken, TypeOK
  <2> QED
    BY <2>1, <2>2 DEF InOrder
<1>2. CASE JobsCheckErrors
  <2>1. (OneRequest /\ RowsTell /\ OneScript /\ OneSender)'
    BY <1>2, OnlyTheTick DEF JobsCheckErrors
  <2>2. TickKnows'
    BY <1>2, <1>a DEF JobsCheckErrors, TickKnows, Watched, NoSender, Taken, TypeOK
  <2> QED
    BY <2>1, <2>2 DEF InOrder
<1>x. CASE HasReseedingState
  <2>1. (OneRequest /\ RowsTell /\ OneScript /\ OneSender)'
    BY <1>x, OnlyTheTick DEF HasReseedingState
  <2>2. TickKnows'
    BY <1>x, <1>a DEF HasReseedingState, TickKnows, Watched, NoSender, Taken, TypeOK
  <2> QED
    BY <2>1, <2>2 DEF InOrder
<1>3. CASE JobsCheckPending
  <2>1. \A t \in Physical : jobs'[t] = jobs[t] /\ (flag = None => jobs[t].state # 2)
    <3>1. ASSUME NEW t \in Physical
          PROVE  jobs'[t] = jobs[t] /\ (flag = None => jobs[t].state # 2)
      <4>1. CASE flag # None
        BY <1>3, <4>1 DEF JobsCheckPending
      <4>2. CASE flag = None
        <5>1. jobs[t].state # 0 /\ jobs[t].state # 2
          BY <1>a, <1>b, <4>2, RowStates DEF RowsTell
        <5>2. PICK T \in SUBSET {x \in JobTasks : jobs[x].state = 0} : jobs' = Update(T, Row(5, 1))
          BY <1>3, <4>2 DEF JobsCheckPending
        <5> QED
          BY <1>b, <5>1, <5>2, UpdateFacts
      <4> QED
        BY <4>1, <4>2
    <3> QED
      BY <3>1
  <2>2. (OneRequest /\ RowsTell /\ OneScript /\ OneSender)'
    BY <1>3, <2>1, OnlyTheTick DEF JobsCheckPending
  <2>3. todo' \cap Physical = {} /\ ~release'
    BY <1>3, <1>a, <2>1 DEF JobsCheckPending, TickKnows
  <2>4. TickKnows'
    BY <1>3, <1>a, <2>1, <2>3 DEF JobsCheckPending, TickKnows, Watched, NoSender, Taken, TypeOK
  <2> QED
    BY <2>2, <2>4 DEF InOrder
<1>4. CASE CancelHalted
  <2>1. \A t \in Physical : jobs'[t] = jobs[t]
    BY <1>4, <1>a, <1>b, UpdateFacts DEF CancelHalted, JobsUpdateState, TickKnows
  <2>2. (OneRequest /\ RowsTell /\ OneScript /\ OneSender)'
    BY <1>4, <2>1, OnlyTheTick DEF CancelHalted
  <2>3. TickKnows'
    BY <1>4, <1>a, <2>1 DEF CancelHalted, TickKnows, Watched, NoSender, Taken, TypeOK
  <2> QED
    BY <2>2, <2>3 DEF InOrder
<1>5. CASE AfterJobProcess \/ AcknowledgeErrors
  <2> DEFINE over == IF tick = "start" THEN Row(3, 1) ELSE Row(5, 0)
             T == {t \in JobTasks : t \in todo /\ jobs[t] = over}
             last == IF tick = "start" THEN Row(4, 1) ELSE Row(5, 1)
  <2>1. jobs' = Update(T, last) /\ flag' = (IF release THEN None ELSE flag) /\ ~release'
        /\ UNCHANGED <<callVars, opened, found, sendVars, scriptVars>> /\ tick' \in {"errors", "pending"}
    <3>1. CASE AfterJobProcess
      <4>1. {t \in todo : jobs[t] = Row(3, 1)} = T
        BY <1>a, <3>1 DEF AfterJobProcess, TypeOK
      <4> QED
        BY <3>1, <4>1 DEF AfterJobProcess
    <3>2. CASE AcknowledgeErrors
      BY <3>2 DEF AcknowledgeErrors, JobsUpdateState
    <3> QED
      BY <1>5, <3>1, <3>2
  <2>2. over \in {Row(3, 1), Row(5, 0)} /\ last \in Ended
    BY RowFacts
  <2>3. \A t \in JobTasks : \/ jobs'[t] = jobs[t]
                            \/ jobs[t] \in {Row(3, 1), Row(5, 0)} /\ jobs'[t] \in Ended
    <3>1. ASSUME NEW t \in JobTasks, t \notin T
          PROVE  jobs'[t] = jobs[t]
      <4> HIDE DEF T, last
      <4> QED
        BY <2>1, <3>1, UpdateFacts
    <3>2. ASSUME NEW t \in JobTasks, t \in T
          PROVE  jobs[t] \in {Row(3, 1), Row(5, 0)} /\ jobs'[t] \in Ended
      <4>1. jobs[t] \in {Row(3, 1), Row(5, 0)} /\ jobs[t] # NoRow
        BY <2>2, <3>2, RowFacts
      <4> HIDE DEF T, last
      <4> QED
        BY <2>1, <2>2, <3>2, <4>1, UpdateFacts
    <3> QED
      BY <3>1, <3>2
  <2>4. release => flag \in Physical /\ jobs[flag] \in {Row(3, 1), Row(5, 0)} /\ jobs'[flag] \in Ended
    <3>1. ASSUME release
          PROVE  flag \in T /\ jobs[flag] = over /\ jobs[flag] # NoRow
      BY <1>5, <1>a, <1>b, <3>1, RowFacts DEF TickKnows, AfterJobProcess, AcknowledgeErrors
    <3> QED
      BY <1>c, <1>b, <2>1, <2>2, <3>1, UpdateFacts
  <2> HIDE DEF over, T, last
  <2>5. ASSUME NEW t \in Physical, jobs[t] \in {Row(3, 1), Row(5, 0)}
        PROVE  flag = t /\ Started /\ NoScript /\ NoSender /\ t \notin Watched
    BY <1>a, <2>5, RowFacts DEF RowsTell
  <2>6. (Started <=> Started') /\ (NoScript <=> NoScript') /\ (NoSender <=> NoSender') /\ (Taken <=> Taken')
        /\ (Listening <=> Listening') /\ Watched' = Watched
    BY <2>1 DEF Started, NoScript, NoSender, Taken, Listening, Watched
  <2>7. release => Started /\ NoScript /\ NoSender /\ Watched = {}
    <3>1. Watched \subseteq {flag}
      BY <1>a DEF TickKnows
    <3> QED
      BY <2>4, <2>5, <3>1
  <2>8. OneRequest'
    <3>1. ASSUME NEW c \in Callers, pc[c] \in {"select", "replace", "create"}, task[c] \in Physical
          PROVE  jobs'[task[c]] \in Ended
      BY <1>a, <1>b, <2>3, <3>1 DEF OneRequest
    <3>2. ASSUME release, NEW c \in Callers
          PROVE  pc[c] = "idle" \/ (pc[c] = "change" /\ task[c] = flag /\ task[c] \in Physical)
      BY <1>a, <1>b, <1>c, <2>7, <3>2 DEF OneRequest, Started
    <3> QED
      BY <1>a, <2>1, <3>1, <3>2 DEF OneRequest
  <2>9. RowsTell'
    <3>1. ASSUME NEW t \in Physical
          PROVE  /\ jobs'[t] \in Ended \cup {Available, Row(1, 0), Row(2, 0), Row(3, 1), Row(5, 0)}
                 /\ flag' # t => jobs'[t] \in Ended
                 /\ jobs'[t] = Available => Started /\ NoScript /\ NoSender
                 /\ jobs'[t] \in {Row(3, 1), Row(5, 0)} => Started /\ NoScript /\ NoSender /\ t \notin Watched
      <4>1. jobs'[t] = jobs[t] \/ jobs'[t] \in Ended
        BY <1>b, <2>3
      <4>2. flag' # t => jobs'[t] \in Ended
        BY <1>a, <2>1, <2>4, <4>1 DEF RowsTell
      <4> QED
        BY <1>a, <4>1, <4>2, RowFacts DEF RowsTell
    <3> QED
      BY <2>6, <3>1 DEF RowsTell
  <2>10. ASSUME ~NoScript
         PROVE  ~release /\ flag' = flag /\ jobs'[flag] = jobs[flag]
    BY <1>a, <1>b, <2>1, <2>3, <2>5, <2>7, <2>10 DEF OneScript, NoScript
  <2>11. OneScript'
    BY <1>a, <2>1, <2>6, <2>10 DEF OneScript, NoScript
  <2>12. OneSender'
    BY <1>a, <2>1, <2>6, <2>10 DEF OneSender, NoScript, Taken
  <2>13. TickKnows'
    <3>1. ASSUME NEW t \in Watched
          PROVE  t = flag' /\ NoSender /\ (jobs'[t] = Available \/ Taken)
      <4>1. t = flag /\ ~release /\ t \in Physical
        BY <1>a, <2>7 DEF TickKnows, TypeOK, Watched
      <4> QED
        BY <1>a, <1>b, <2>1, <2>3, <2>5, <4>1 DEF TickKnows
    <3> QED
      BY <2>1, <2>6, <3>1 DEF TickKnows
  <2> QED
    BY <2>8, <2>9, <2>11, <2>12, <2>13 DEF InOrder
<1>6. CASE JobsCheckRunning
  <2>1. found' = {t \in Physical : jobs[t].state = 0} /\ tick' = "process"
        /\ UNCHANGED <<flag, jobs, callVars, opened, todo, release, sendVars, scriptVars>>
    BY <1>6 DEF JobsCheckRunning
  <2>2. \A t \in found' : t \in Physical /\ jobs[t] = Available
    BY <1>a, <2>1, RowStates DEF RowsTell
  <2>3. \A t \in found' : flag = t /\ NoSender /\ NoScript
    BY <1>a, <2>2, RowFacts DEF RowsTell
  <2>4. \A t \in Watched' : t \in Watched \/ (t \in Physical /\ jobs[t] = Available)
    BY <2>1, <2>2 DEF Watched
  <2>5. (Started <=> Started') /\ (NoScript <=> NoScript') /\ (NoSender <=> NoSender') /\ (Taken <=> Taken')
        /\ (Listening <=> Listening')
    BY <2>1 DEF Started, NoScript, NoSender, Taken, Listening
  <2>6. OneRequest'
    BY <1>a, <2>1 DEF OneRequest
  <2>7. RowsTell'
    BY <1>a, <2>1, <2>4, <2>5, RowFacts DEF RowsTell
  <2>8. OneScript'
    BY <1>a, <2>1, <2>4, <2>5, RowFacts DEF OneScript, RowsTell, NoScript
  <2>9. OneSender'
    BY <1>a, <2>1, <2>4, <2>5, RowFacts DEF OneSender, RowsTell, NoSender
  <2>10. TickKnows'
    <3>1. \A t \in Watched' : t = flag /\ NoSender /\ (jobs[t] = Available \/ Taken)
      BY <1>a, <2>2, <2>3, <2>4, RowFacts DEF TickKnows, RowsTell
    <3>2. \A t \in Resolved' : jobs[t] # Available
      BY <1>a, <2>1, RowStates DEF Resolved, TypeOK
    <3>3. ~release
      BY <1>6, <1>a DEF JobsCheckRunning, TickKnows
    <3> QED
      BY <2>1, <2>5, <3>1, <3>2, <3>3 DEF TickKnows
  <2> QED
    BY <2>6, <2>7, <2>8, <2>9, <2>10 DEF InOrder
<1>7. CASE StateProcessing
  <2>1. Watched' \subseteq Watched
    BY <1>7 DEF StateProcessing, Watched
  <2>2. (Started <=> Started') /\ (NoScript <=> NoScript') /\ (NoSender <=> NoSender') /\ (Taken <=> Taken')
        /\ (Listening <=> Listening')
    BY <1>7 DEF StateProcessing, Started, NoScript, NoSender, Taken, Listening
  <2>3. OneRequest' /\ RowsTell' /\ OneScript' /\ OneSender'
    BY <1>7, <1>a, <2>1, <2>2 DEF StateProcessing, OneRequest, RowsTell, OneScript, OneSender
  <2>4. TickKnows'
    BY <1>7, <1>a, <2>1, <2>2 DEF StateProcessing, TickKnows
  <2> QED
    BY <2>3, <2>4 DEF InOrder
<1>8. ASSUME NEW t \in Physical, ProcessRefused(t)
      PROVE  FALSE
  BY <1>8, <1>a DEF ProcessRefused, TickKnows, Resolved, Watched
<1>9. ASSUME NEW t \in Physical, NEW w \in Senders, ProcessReseedPhysical(w, t)
      PROVE  InOrder'
  <2>1. /\ tick = "process" /\ t \in Resolved /\ flag = t
        /\ UNCHANGED <<flag, jobs, callVars, tick, found, todo, release, scriptVars>>
        /\ opened' = opened \ {t}
    BY <1>9 DEF ProcessReseedPhysical
  <2>2. /\ send'[w] = "look" /\ sent'[w] = t
        /\ \A v \in Senders \ {w} : send'[v] = send[v] /\ sent'[v] = sent[v] /\ loop'[v] = loop[v]
    BY <1>9, <1>a DEF ProcessReseedPhysical, TypeOK
  <2>3. NoSender /\ Taken /\ jobs[t] # Available
    BY <1>a, <2>1 DEF TickKnows, Resolved, Watched
  <2>4. Watched' = {} /\ ~release
    BY <1>a, <2>1 DEF TickKnows, Resolved, Watched
  <2>5. (Started <=> Started') /\ (NoScript <=> NoScript') /\ (Taken <=> Taken') /\ (Listening <=> Listening')
    BY <2>1 DEF Started, NoScript, Taken, Listening
  <2>6. \A v \in Senders : send'[v] # "idle" => v = w
    BY <2>2, <2>3 DEF NoSender
  <2>7. OneRequest'
    BY <1>a, <2>1 DEF OneRequest
  <2>8. ~NoScript
    BY <2>3 DEF Taken, NoScript
  <2>9. RowsTell'
    BY <1>a, <2>1, <2>4, <2>5, <2>8, RowFacts DEF RowsTell
  <2>10. OneScript'
    <3>1. \A s \in Scripts : script[s] # "idle" => script[s] # "restore"
      BY <1>a, <2>1, <2>3 DEF OneScript, Resolved, Watched
    <3>2. \A s \in Scripts : script[s] = "listen" => jobs[flag] = Row(2, 0)
      BY <1>a, <2>3 DEF OneScript, NoSender
    <3> QED
      BY <1>a, <2>1, <2>5, <3>1, <3>2 DEF OneScript
  <2>11. OneSender'
    BY <2>1, <2>2, <2>3, <2>4, <2>5, <2>6 DEF OneSender
  <2>12. TickKnows'
    BY <1>a, <2>1, <2>4 DEF TickKnows, Resolved, Watched
  <2> QED
    BY <2>7, <2>9, <2>10, <2>11, <2>12 DEF InOrder
<1> QED
  BY <1>1, <1>2, <1>3, <1>4, <1>5, <1>6, <1>7, <1>8, <1>9, <1>x DEF TickStep

(* The steps of a request. *)
LEMMA CallerInOrder ==
  ASSUME Typed, InOrder, ~Fails, NEW c \in Callers, CallerStep(c)
  PROVE  InOrder'
<1> USE DEF callVars, tickVars, sendVars, scriptVars
<1>a. TypeOK /\ Asked /\ OneRequest /\ RowsTell /\ OneScript /\ OneSender /\ TickKnows
  BY DEF Typed, InOrder
<1>b. None \notin Tasks /\ Physical \subseteq JobTasks /\ JobTasks \subseteq Tasks
  BY TaskFacts
<1>c. pc[c] # "idle" /\ UNCHANGED <<task, tickVars, sendVars, scriptVars>>
  BY DEF CallerStep, SetInReseedBackup, JobInsertTask, DeleteRow, InsertRow, ChangeMaster, BeginLoad, RejoinDirectDump,
         LoadEnds, ReportLoad
<1>d. task[c] \in Tasks /\ \A d \in Callers \ {c} : pc[d] = "idle"
  BY <1>a, <1>c DEF Asked, OneRequest
<1>e. \A l \in Places : Goto(c, l) => pc'[c] = l /\ \A d \in Callers \ {c} : pc'[d] = "idle"
  BY <1>a, <1>d, GotoType
<1>f. Watched' = Watched /\ (NoScript <=> NoScript') /\ (NoSender <=> NoSender') /\ (Taken <=> Taken')
      /\ (Listening <=> Listening') /\ Resolved' = Resolved
  BY <1>c DEF Watched, NoScript, NoSender, Taken, Listening, Resolved
(* Where no script works, nothing of it can be disturbed. *)
<1>g. ASSUME ~Started
      PROVE  /\ NoScript /\ NoSender /\ Watched = {} /\ ~release
             /\ tick \in {"after", "ended"} => todo \cap Physical = {}
             /\ \A t \in Physical : jobs[t] \notin {Available, Row(3, 1), Row(5, 0)}
  <2>1. \A t \in Physical : jobs[t] \notin {Available, Row(3, 1), Row(5, 0)}
    BY <1>a, <1>g DEF RowsTell
  <2>2. NoScript
    BY <1>a, <1>g DEF OneScript, NoScript
  <2>3. NoSender
    BY <1>a, <2>2 DEF OneSender, NoSender, NoScript, Taken
  <2>4. Watched \subseteq Physical
    BY <1>a DEF TypeOK, Watched
  <2>5. ~release /\ (tick \in {"after", "ended"} => todo \cap Physical = {})
    BY <1>a, <2>1 DEF TickKnows
  <2> QED
    BY <1>a, <2>1, <2>2, <2>3, <2>4, <2>5 DEF TickKnows, Taken, NoScript
<1>h. ASSUME ~Started, OneRequest', RowsTell'
      PROVE  InOrder'
  <2>1. NoScript' /\ NoSender' /\ Watched' = {} /\ ~release' /\ Resolved' = {}
    BY <1>c, <1>f, <1>g, <1>h DEF Resolved, Watched
  <2>2. OneScript' /\ OneSender'
    BY <2>1 DEF OneScript, OneSender, NoScript, NoSender
  <2>3. tick' \in {"after", "ended"} => todo' \cap Physical = {}
    BY <1>c, <1>g, <1>h
  <2>4. TickKnows'
    BY <1>a, <1>c, <2>1, <2>3 DEF TickKnows
  <2> QED
    BY <1>h, <2>2, <2>4 DEF InOrder
(* The rows of the physical tasks stay, and the flag was not one of them    *)
(* or names a job that is over.                                             *)
<1>i. ASSUME ~Started, \A t \in Physical : jobs'[t] = jobs[t], flag \in Physical => jobs[flag] \in Ended
      PROVE  RowsTell'
  BY <1>a, <1>f, <1>g, <1>i, RowFacts DEF RowsTell
<1>1. CASE SetInReseedBackup(c)
  <2>1. ~Started /\ flag = None /\ flag' = task[c] /\ UNCHANGED jobs
    BY <1>1, <1>a DEF SetInReseedBackup, Started, OneRequest
  <2>2. pc'[c] \in {"dump", "select"} /\ \A d \in Callers \ {c} : pc'[d] = "idle"
    BY <1>1, <1>e DEF SetInReseedBackup, Places
  <2>3. task[c] \in Physical => jobs[task[c]] \in Ended
    BY <1>a, <1>b, <2>1 DEF RowsTell
  <2>4. OneRequest'
    BY <1>c, <2>1, <2>2, <2>3 DEF OneRequest
  <2> QED
    BY <1>h, <1>i, <2>1, <2>4, <1>b
<1>2. CASE JobInsertTask(c)
  <2>1. ~Started /\ flag = task[c] /\ UNCHANGED jobs /\ task[c] # None /\ (task[c] \in Physical => jobs[task[c]] \in Ended)
    BY <1>2, <1>a, <1>b, <1>d DEF JobInsertTask, Started, OneRequest
  <2>2. RowsTell'
    BY <1>i, <2>1
  <2>3. \/ flag' = None /\ Goto(c, "idle")
        \/ flag' = flag /\ Goto(c, IF jobs[task[c]] = NoRow THEN "create" ELSE "replace")
    BY <1>2, <2>1 DEF JobInsertTask, Refused, ReleaseOwn
  <2>4. /\ \A d \in Callers \ {c} : pc'[d] = "idle"
        /\ pc'[c] = "idle" \/ (flag' = flag /\ pc'[c] \in {"create", "replace"})
    BY <1>e, <2>3 DEF Places
  <2>5. OneRequest'
    BY <1>c, <2>1, <2>4 DEF OneRequest
  <2> QED
    BY <1>h, <2>1, <2>2, <2>5
<1>3. CASE DeleteRow(c) \/ InsertRow(c)
  <2>1. ~Started /\ flag = task[c] /\ task[c] \in JobTasks /\ task[c] # None
        /\ (task[c] \in Physical => jobs[task[c]] \in Ended) /\ pc[c] \in {"replace", "create"}
    BY <1>3, <1>a, <1>b, <1>d DEF DeleteRow, InsertRow, Started, OneRequest, Asked
  <2>2. CASE Refused(c) /\ UNCHANGED jobs
    <3>1. RowsTell'
      BY <1>i, <2>1, <2>2
    <3>2. \A d \in Callers : pc'[d] = "idle"
      BY <1>e, <2>2 DEF Refused, Places
    <3>3. OneRequest'
      BY <3>2 DEF OneRequest
    <3> QED
      BY <1>h, <2>1, <3>1, <3>3
  <2>3. CASE jobs' = [jobs EXCEPT ![task[c]] = Available] /\ Goto(c, "change") /\ UNCHANGED flag
    <3>1. pc'[c] = "change" /\ \A d \in Callers \ {c} : pc'[d] = "idle"
      BY <1>e, <2>3 DEF Places
    <3>2. OneRequest'
      BY <1>c, <2>1, <2>3, <3>1 DEF OneRequest
    <3>3. Started' /\ NoScript' /\ NoSender' /\ Watched' = {}
      BY <1>f, <1>g, <2>1, <3>1 DEF Started
    <3>4. \A t \in Physical : jobs'[t] = IF t = flag THEN Available ELSE jobs[t]
      BY <1>a, <1>b, <2>1, <2>3 DEF TypeOK
    <3>5. RowsTell'
      BY <1>a, <2>3, <3>3, <3>4 DEF RowsTell
    <3> QED
      BY <1>h, <2>1, <3>2, <3>5
  <2>4. CASE jobs' = [jobs EXCEPT ![task[c]] = NoRow] /\ Goto(c, "create") /\ UNCHANGED flag
    <3>1. pc'[c] = "create" /\ \A d \in Callers \ {c} : pc'[d] = "idle"
      BY <1>e, <2>4 DEF Places
    <3>2. \A t \in Physical : jobs'[t] = IF t = flag THEN NoRow ELSE jobs[t]
      BY <1>a, <1>b, <2>1, <2>4 DEF TypeOK
    <3>3. OneRequest'
      BY <1>c, <2>1, <2>4, <3>1, <3>2, RowFacts DEF OneRequest
    <3>4. NoScript' /\ NoSender' /\ Watched' = {}
      BY <1>f, <1>g, <2>1
    <3>5. RowsTell'
      BY <1>a, <1>g, <2>1, <2>4, <3>2, <3>4, RowFacts DEF RowsTell
    <3> QED
      BY <1>h, <2>1, <3>3, <3>5
  <2> QED
    BY <1>3, <2>2, <2>3, <2>4 DEF DeleteRow, InsertRow
<1>4. CASE ChangeMaster(c)
  <2>1. UNCHANGED <<flag, jobs>> /\ pc[c] = "change" /\ task[c] \in JobTasks
    BY <1>4, <1>a DEF ChangeMaster, Asked
  <2>2. CASE task[c] \in Physical
    <3>1. Goto(c, "idle")
      <4>1. ReseedLogical \notin Physical
        BY DEF Physical, Reseed, Flashback, ReseedLogical
      <4> QED
        BY <1>4, <2>2, <4>1 DEF ChangeMaster
    <3>2. \A d \in Callers : pc'[d] = "idle"
      BY <1>e, <3>1 DEF Places
    <3>3. OneRequest' /\ Started'
      BY <3>2 DEF OneRequest, Started
    <3>4. RowsTell' /\ OneScript' /\ OneSender'
      BY <1>a, <1>c, <1>f, <2>1, <3>3 DEF RowsTell, OneScript, OneSender
    <3>5. TickKnows'
      BY <1>a, <1>c, <1>f, <2>1 DEF TickKnows
    <3> QED
      BY <3>3, <3>4, <3>5 DEF InOrder
  <2>3. CASE task[c] \notin Physical
    <3>1. Goto(c, "begin") \/ Goto(c, "load")
      BY <1>4, <2>3 DEF ChangeMaster
    <3>2. pc'[c] \in {"begin", "load"} /\ \A d \in Callers \ {c} : pc'[d] = "idle"
      BY <1>e, <3>1 DEF Places
    <3>3. flag = task[c] /\ flag \notin Physical
      BY <1>a, <2>1, <2>3 DEF OneRequest
    <3>4. NoScript /\ \A t \in Physical : jobs[t] \in Ended
      BY <1>a, <3>3 DEF RowsTell, OneScript, NoScript
    <3>5. NoSender /\ Watched = {} /\ ~release
      <4>1. NoSender
        BY <1>a, <3>4 DEF OneSender, NoSender, Taken, NoScript
      <4>2. Watched \subseteq Physical
        BY <1>a DEF TypeOK, Watched
      <4> QED
        BY <1>a, <3>3, <4>1, <4>2 DEF TickKnows
    <3>6. OneRequest'
      BY <1>c, <2>1, <2>3, <3>2, <3>3 DEF OneRequest
    <3>7. RowsTell'
      BY <2>1, <3>4, RowFacts DEF RowsTell
    <3>8. OneScript' /\ OneSender'
      BY <1>f, <3>4, <3>5 DEF OneScript, OneSender, NoScript, NoSender
    <3>9. TickKnows'
      BY <1>a, <1>c, <1>f, <2>1, <3>5 DEF TickKnows, Resolved, Watched
    <3> QED
      BY <3>6, <3>7, <3>8, <3>9 DEF InOrder
  <2> QED
    BY <2>2, <2>3
<1>5. CASE BeginLoad(c) \/ RejoinDirectDump(c) \/ LoadEnds(c) \/ ReportLoad(c)
  <2>1. ~Started /\ task[c] \notin Physical /\ pc[c] \in {"begin", "dump", "load", "report"}
    BY <1>5, <1>a DEF BeginLoad, RejoinDirectDump, LoadEnds, ReportLoad, Started, Asked
  <2>2. \A t \in Physical : jobs'[t] = jobs[t]
    <3>1. \A r, t : t \in Physical => Update({task[c]}, r)[t] = jobs[t]
      BY <1>b, <2>1, UpdateFacts
    <3>2. \A r : JobsUpdateState({task[c]}, r) => \A t \in Physical : jobs'[t] = jobs[t]
      BY <3>1 DEF JobsUpdateState
    <3> QED
      BY <1>5, <3>2 DEF BeginLoad, RejoinDirectDump, LoadEnds, ReportLoad
  <2>3. flag = task[c] \/ (pc[c] = "report" /\ flag = None)
    BY <1>a, <2>1 DEF OneRequest
  <2>4. flag \notin Physical
    BY <1>b, <2>1, <2>3
  <2>5. RowsTell'
    BY <1>i, <2>1, <2>2, <2>4
  <2>6. /\ \A d \in Callers \ {c} : pc'[d] = "idle"
        /\ \/ pc'[c] = "idle"
           \/ pc'[c] = "load" /\ flag' = task[c]
           \/ pc'[c] = "report" /\ flag' = None
    <3>1. CASE BeginLoad(c)
      BY <1>e, <2>3, <3>1 DEF BeginLoad, Places
    <3>2. CASE RejoinDirectDump(c)
      BY <1>e, <2>3, <3>2 DEF RejoinDirectDump, Refused, Places
    <3>3. CASE LoadEnds(c)
      BY <1>e, <3>3 DEF LoadEnds, Places
    <3>4. CASE ReportLoad(c)
      BY <1>e, <3>4 DEF ReportLoad, Places
    <3> QED
      BY <1>5, <3>1, <3>2, <3>3, <3>4
  <2>7. OneRequest'
    BY <1>c, <2>6 DEF OneRequest
  <2> QED
    BY <1>h, <2>1, <2>5, <2>7
<1> QED
  BY <1>1, <1>2, <1>3, <1>4, <1>5 DEF CallerStep

(* A request that meets no other keeps InOrder. *)
LEMMA AskInOrder ==
  ASSUME Typed, InOrder, ~Spend("overlap"), NEW c \in Callers, NEW t \in Tasks, HasAnyReseedingState(c, t)
  PROVE  InOrder'
<1> USE DEF callVars, tickVars, sendVars, scriptVars
<1>a. TypeOK /\ OneRequest /\ RowsTell /\ OneScript /\ OneSender /\ TickKnows
  BY DEF Typed, InOrder
<1>1. flag = None /\ (\A d \in Callers : pc[d] = "idle") /\ UNCHANGED <<flag, jobs, tickVars, sendVars, scriptVars>>
  BY DEF HasAnyReseedingState
<1>2. pc'[c] = "set" /\ \A d \in Callers \ {c} : pc'[d] = "idle"
  BY <1>1, <1>a, GotoType DEF HasAnyReseedingState, Places
<1>3. None \notin Physical
  BY TaskFacts
<1>4. NoScript /\ \A x \in Physical : jobs[x] \in Ended
  BY <1>a, <1>1, <1>3 DEF OneScript, RowsTell, NoScript
<1>5. NoSender
  BY <1>a, <1>4 DEF OneSender, NoSender, NoScript, Taken
<1>6. Watched = {} /\ ~release
  BY <1>a, <1>1, <1>3 DEF TypeOK, TickKnows, Watched
<1>7. OneRequest'
  BY <1>1, <1>2 DEF OneRequest
<1>8. RowsTell' /\ OneScript' /\ OneSender'
  BY <1>1, <1>4, <1>5, RowFacts DEF RowsTell, OneScript, OneSender, NoScript, NoSender
<1>9. TickKnows'
  BY <1>a, <1>1, <1>6 DEF TickKnows, Watched, Resolved
<1> QED
  BY <1>7, <1>8, <1>9 DEF InOrder

(* The steps of the sender.  The last look finds the script listening, so   *)
(* the wait never ends without a backup to send.                            *)
LEMMA SenderInOrder ==
  ASSUME Typed, InOrder, ~Fails, ~Fault, Prompt, NEW w \in Senders, SenderStep(w)
  PROVE  InOrder'
<1> USE DEF callVars, tickVars, scriptVars
<1>a. TypeOK /\ OneRequest /\ RowsTell /\ OneScript /\ OneSender /\ TickKnows
  BY DEF Typed, InOrder
<1>b. send[w] # "idle" /\ UNCHANGED <<callVars, tickVars>>
  BY DEF SenderStep, WaitAndSendSST, LookAgain, WaitEnds, StartSender, SSTRunSender, SendFails
<1>c. /\ sent[w] = flag /\ flag \notin Watched /\ Taken /\ send[w] \notin {"fail", "release"}
      /\ \A v \in Senders \ {w} : send[v] = "idle"
  BY <1>a, <1>b DEF OneSender
<1>d. PICK s \in Scripts : script[s] \in {"taken", "listen"}
  BY <1>c DEF Taken
<1>e. /\ \A o \in Scripts \ {s} : script[o] = "idle"
      /\ Started /\ job[s] = flag /\ flag \in Physical
  BY <1>a, <1>d DEF OneScript
<1>f. Watched' = Watched /\ Watched = {} /\ (Started <=> Started') /\ Resolved' = Resolved /\ Resolved = {}
  <2>1. Watched = {}
    BY <1>a, <1>c DEF TickKnows
  <2> QED
    BY <1>b, <2>1 DEF Watched, Started, Resolved
<1>g. ~release /\ (tick \in {"after", "ended"} => todo \cap Physical = {})
  <2>1. ~NoScript
    BY <1>d DEF NoScript
  <2>2. jobs[flag] \notin {Available, Row(3, 1), Row(5, 0)}
    BY <1>a, <1>e, <2>1 DEF RowsTell
  <2> QED
    BY <1>a, <2>2, NoneEnded DEF TickKnows
<1>h. \A l : SendGoto(w, l) => /\ send'[w] = l /\ sent'[w] = sent[w] /\ loop'[w] = loop[w]
                               /\ \A v \in Senders \ {w} : send'[v] = "idle"
  BY <1>a, <1>c DEF SendGoto, TypeOK
(* The sender goes on, with the same row and the same script. *)
<1>i. ASSUME UNCHANGED <<flag, jobs, scriptVars>>, sent'[w] = sent[w], \A v \in Senders \ {w} : send'[v] = "idle",
             send[w] \in {"look", "sleep"}, send'[w] \in {"look", "sleep", "halted"},
             send'[w] = "sleep" => loop'[w] < MaxLoop, send'[w] = "halted" => Listening
      PROVE  InOrder'
  <2>1. (NoScript <=> NoScript') /\ (Taken <=> Taken') /\ (Listening <=> Listening') /\ ~NoScript
    BY <1>i, <1>d DEF NoScript, Taken, Listening
  <2>2. OneRequest'
    BY <1>a, <1>b, <1>i DEF OneRequest
  <2>3. RowsTell'
    BY <1>a, <1>b, <1>f, <1>i, <2>1 DEF RowsTell
  <2>4. \A o \in Scripts : script[o] = "listen" => jobs[flag] = Row(2, 0)
    BY <1>a, <1>c, <1>i DEF OneScript
  <2>5. OneScript'
    <3>1. \A o \in Scripts : script[o] # "restore"
      BY <1>d, <1>e
    <3> QED
      BY <1>a, <1>f, <1>i, <2>1, <2>4, <3>1 DEF OneScript
  <2>6. OneSender'
    BY <1>c, <1>f, <1>i, <2>1 DEF OneSender
  <2>7. TickKnows'
    BY <1>a, <1>b, <1>f, <1>g DEF TickKnows
  <2> QED
    BY <2>2, <2>3, <2>5, <2>6, <2>7 DEF InOrder
<1>1. CASE WaitAndSendSST(w)
  <2>1. send[w] = "look" /\ UNCHANGED <<flag, jobs, scriptVars>>
        /\ SendGoto(w, IF jobs[flag].state = 2 THEN "halted" ELSE "sleep")
    BY <1>1, <1>c DEF WaitAndSendSST
  <2>2. script[s] = "listen" => jobs[flag].state = 2
    BY <1>a, <1>c, <2>1, RowStates DEF OneScript
  <2>3. script[s] = "taken" => jobs[flag].state = 1
    BY <1>a, RowStates DEF OneScript
  <2>4. jobs[flag].state = 2 => Listening
    BY <1>d, <2>3 DEF Listening
  <2>5. jobs[flag].state # 2 => loop[w] < MaxLoop
    <3>1. jobs[flag].state # 2 => script[s] = "taken"
      BY <1>d, <2>2
    <3>2. script[s] = "taken" => loop[w] # MaxLoop
      BY <1>1, <1>c, <1>e DEF WaitAndSendSST
    <3>3. loop[w] \in 0..MaxLoop /\ MaxLoop \in Nat
      BY <1>a, BoundAssumption DEF TypeOK
    <3> QED
      BY <3>1, <3>2, <3>3
  <2> QED
    BY <1>h, <1>i, <2>1, <2>4, <2>5
<1>2. CASE LookAgain(w)
  BY <1>2, <1>a, <1>c, <1>i DEF LookAgain, TypeOK
<1>3. CASE WaitEnds(w)
  <2>1. send[w] = "sleep" /\ loop[w] >= MaxLoop
    BY <1>3, <1>c DEF WaitEnds
  <2>2. loop[w] \in 0..MaxLoop /\ MaxLoop \in Nat /\ loop[w] < MaxLoop
    BY <1>a, <2>1, BoundAssumption DEF TypeOK, OneSender
  <2> QED
    BY <2>1, <2>2
<1>4. CASE StartSender(w)
  <2>1. send[w] = "halted" /\ SendGoto(w, "send") /\ UNCHANGED <<flag, scriptVars>> /\ jobs' = Update({flag}, Row(1, 0))
    BY <1>4, <1>c DEF StartSender, JobsUpdateState
  <2>2. script[s] = "listen"
    BY <1>a, <1>d, <1>e, <2>1 DEF OneSender, Listening
  <2>3. jobs[flag] = Row(2, 0)
    BY <1>a, <1>c, <2>1, <2>2 DEF OneScript
  <2>4. \A t \in Physical : jobs'[t] = IF t = flag THEN Row(1, 0) ELSE jobs[t]
    BY <2>1, <2>3, TaskFacts, UpdateFacts, RowFacts
  <2>5. send'[w] = "send" /\ sent'[w] = flag /\ \A v \in Senders \ {w} : send'[v] = "idle"
    BY <1>c, <1>h, <2>1
  <2>6. (NoScript <=> NoScript') /\ (Taken <=> Taken') /\ (Listening <=> Listening') /\ ~NoScript
    BY <1>d, <2>1 DEF NoScript, Taken, Listening
  <2>7. OneRequest'
    BY <1>a, <1>b, <1>e, <2>1 DEF OneRequest, Started
  <2>8. RowsTell'
    BY <1>a, <1>f, <2>1, <2>4, <2>6, RowFacts DEF RowsTell
  <2>9. OneScript'
    BY <1>a, <1>d, <1>e, <1>f, <2>1, <2>2, <2>5 DEF OneScript
  <2>10. OneSender'
    BY <1>c, <1>f, <2>1, <2>2, <2>5, <2>6 DEF OneSender, Listening
  <2>11. TickKnows'
    BY <1>a, <1>b, <1>f, <1>g DEF TickKnows
  <2> QED
    BY <2>7, <2>8, <2>9, <2>10, <2>11 DEF InOrder
<1>5. CASE SSTRunSender(w)
  <2>1. send[w] = "send" /\ UNCHANGED <<flag, jobs, job>>
    BY <1>5 DEF SSTRunSender
  <2>2. script[s] = "listen"
    BY <1>a, <1>d, <1>e, <2>1 DEF OneSender, Listening
  <2>3. script' = [script EXCEPT ![s] = "restore"] /\ SendGoto(w, "idle")
    BY <1>5, <1>e, <2>2 DEF SSTRunSender
  <2>4. script'[s] = "restore" /\ \A o \in Scripts \ {s} : script'[o] = "idle"
    BY <1>a, <1>e, <2>3 DEF TypeOK
  <2>5. NoSender'
    BY <1>h, <2>3 DEF NoSender
  <2>6. OneRequest'
    BY <1>a, <1>b, <1>e, <2>1 DEF OneRequest, Started
  <2>7. RowsTell'
    <3>1. ~NoScript
      BY <2>2 DEF NoScript
    <3>2. jobs[flag] \notin {Available, Row(3, 1), Row(5, 0)}
      BY <1>a, <1>e, <3>1 DEF RowsTell
    <3> QED
      BY <1>a, <1>e, <2>1, <3>2, RowFacts DEF RowsTell
  <2>8. OneScript'
    BY <1>e, <1>f, <2>1, <2>4, <2>5 DEF OneScript
  <2>9. OneSender'
    BY <2>5 DEF OneSender, NoSender
  <2>10. TickKnows'
    BY <1>a, <1>b, <1>f, <1>g DEF TickKnows
  <2> QED
    BY <2>6, <2>7, <2>8, <2>9, <2>10 DEF InOrder
<1>6. CASE SendFails(w)
  BY <1>6, <1>c DEF SendFails
<1> QED
  BY <1>1, <1>2, <1>3, <1>4, <1>5, <1>6 DEF SenderStep

(* The steps of the script. *)
LEMMA ScriptInOrder ==
  ASSUME Typed, InOrder, NEW s \in Scripts, ScriptStep(s)
  PROVE  InOrder'
<1> USE DEF callVars, tickVars, sendVars
<1>a. TypeOK /\ OneRequest /\ RowsTell /\ OneScript /\ OneSender /\ TickKnows
  BY DEF Typed, InOrder
<1>b. UNCHANGED <<flag, callVars, tickVars, sendVars>>
  BY DEF ScriptStep, ScriptTakes, ScriptListens, ScriptEnds
<1>c. Watched' = Watched /\ (Started <=> Started') /\ (NoSender <=> NoSender') /\ Resolved' = Resolved
  BY <1>b DEF Watched, Started, NoSender, Resolved
<1>1. ASSUME NEW t \in Physical, ScriptTakes(s, t)
      PROVE  InOrder'
  <2>1. jobs[t] = Available /\ flag = t /\ Started /\ NoScript /\ NoSender
    BY <1>1, <1>a, RowFacts DEF ScriptTakes, RowsTell
  <2>2. \A x \in Physical : jobs'[x] = IF x = t THEN Row(1, 0) ELSE jobs[x]
    BY <1>1, <1>a, TaskFacts DEF ScriptTakes, TypeOK
  <2>3. script'[s] = "taken" /\ job'[s] = t /\ \A o \in Scripts \ {s} : script'[o] = "idle"
    BY <1>1, <1>a, <2>1 DEF ScriptTakes, TypeOK, NoScript
  <2>4. OneRequest'
    BY <1>a, <1>b, <2>1 DEF OneRequest, Started
  <2>5. RowsTell'
    BY <1>a, <1>b, <1>c, <2>1, <2>2, RowFacts DEF RowsTell
  <2>6. OneScript'
    BY <1>b, <1>c, <2>1, <2>2, <2>3 DEF OneScript
  <2>7. OneSender'
    BY <1>b, <2>1 DEF OneSender, NoSender
  <2>8. Taken'
    BY <2>3 DEF Taken
  <2>9. TickKnows'
    <3>1. \A x \in Watched' : x = flag' /\ NoSender' /\ (jobs'[x] = Available \/ Taken')
      BY <1>a, <1>b, <1>c, <2>8 DEF TickKnows
    <3>2. tick' = "process" => \A x \in Resolved' : jobs'[x] # Available
      <4>1. tick = "process" => Resolved = {}
        BY <1>a, <2>1 DEF TickKnows, Resolved, Watched
      <4> QED
        BY <4>1, <1>b, <1>c
    <3>3. ~release'
      BY <1>a, <1>b, <2>1, RowFacts DEF TickKnows
    <3>4. tick' = "halted" => todo' \cap Physical = {}
      BY <1>a, <1>b DEF TickKnows
    <3>5. tick' \in {"after", "ended"} => todo' \cap Physical = {}
      BY <1>b, <2>1, NoneEnded, RowFacts
    <3> QED
      BY <3>1, <3>2, <3>3, <3>4, <3>5 DEF TickKnows
  <2> QED
    BY <2>4, <2>5, <2>6, <2>7, <2>9 DEF InOrder
<1>2. CASE ScriptListens(s)
  <2>1. script[s] = "taken" /\ Started /\ job[s] = flag /\ flag \in Physical /\ jobs[flag] = Row(1, 0)
        /\ \A o \in Scripts \ {s} : script[o] = "idle"
    BY <1>2, <1>a DEF ScriptListens, OneScript
  <2>2. jobs' = Update({flag}, Row(2, 0)) /\ UNCHANGED job
    BY <1>2, <2>1, RowStates DEF ScriptListens
  <2>3. \A x \in Physical : jobs'[x] = IF x = flag THEN Row(2, 0) ELSE jobs[x]
    BY <2>1, <2>2, TaskFacts, UpdateFacts, RowFacts
  <2>4. script'[s] = "listen" /\ \A o \in Scripts \ {s} : script'[o] = "idle"
    BY <1>2, <2>1 DEF ScriptListens
  <2>5. Taken /\ Taken' /\ Listening'
    BY <2>1, <2>4 DEF Taken, Listening
  <2>6. ~release /\ (tick \in {"after", "ended"} => todo \cap Physical = {})
    BY <1>a, <2>1, NoneEnded, RowFacts DEF TickKnows
  <2>7. OneRequest'
    BY <1>a, <1>b, <2>1 DEF OneRequest, Started
  <2>8. RowsTell'
    BY <1>a, <1>b, <1>c, <2>1, <2>3, RowFacts DEF RowsTell
  <2>9. OneScript'
    BY <1>b, <1>c, <2>1, <2>2, <2>3, <2>4 DEF OneScript
  <2>10. OneSender'
    BY <1>a, <1>b, <1>c, <2>5 DEF OneSender
  <2>11. TickKnows'
    <3>1. \A t \in Resolved : t = flag /\ jobs'[t] # Available
      BY <1>a, <2>1, <2>3, RowFacts DEF TickKnows, Resolved, Watched
    <3> QED
      BY <1>a, <1>b, <1>c, <2>5, <2>6, <3>1 DEF TickKnows
  <2> QED
    BY <2>7, <2>8, <2>9, <2>10, <2>11 DEF InOrder
<1>3. CASE ScriptEnds(s)
  <2>1. script[s] = "restore" /\ Started /\ job[s] = flag /\ flag \in Physical /\ NoSender /\ flag \notin Watched
        /\ \A o \in Scripts \ {s} : script[o] = "idle"
    BY <1>3, <1>a DEF ScriptEnds, OneScript
  <2>2. PICK r \in {Row(3, 1), Row(5, 0)} : jobs' = Update({flag}, r)
    BY <1>3, <2>1 DEF ScriptEnds
  <2>3. jobs'[flag] \in {jobs[flag], r} /\ \A x \in Physical : x # flag => jobs'[x] = jobs[x]
    BY <2>1, <2>2, TaskFacts DEF Update
  <2>4. NoScript'
    BY <1>3, <1>a, <2>1 DEF ScriptEnds, TypeOK, NoScript
  <2>5. jobs[flag] \notin {Available, Row(3, 1), Row(5, 0)} /\ ~release /\ Watched = {}
    <3>1. jobs[flag] \notin {Available, Row(3, 1), Row(5, 0)}
      BY <1>a, <2>1 DEF RowsTell, NoScript
    <3> QED
      BY <1>a, <2>1, <3>1 DEF TickKnows
  <2>6. OneRequest'
    BY <1>a, <1>b, <2>1 DEF OneRequest, Started
  <2>7. RowsTell'
    BY <1>a, <1>b, <1>c, <2>1, <2>2, <2>3, <2>4, <2>5, RowFacts DEF RowsTell
  <2>8. OneScript'
    BY <2>4 DEF OneScript, NoScript
  <2>9. OneSender'
    BY <1>b, <2>1 DEF OneSender, NoSender
  <2>10. tick \in {"after", "ended"} => todo \cap Physical = {}
    BY <2>5, NoneEnded
  <2>11. TickKnows'
    BY <1>a, <1>b, <1>c, <2>5, <2>10 DEF TickKnows, Resolved, Watched
  <2> QED
    BY <2>6, <2>7, <2>8, <2>9, <2>11 DEF InOrder
<1> QED
  BY <1>1, <1>2, <1>3 DEF ScriptStep

(* Every step keeps Served. *)
LEMMA NextServed == Prompt /\ Typed /\ Served /\ [Next]_vars => Served'
<1> SUFFICES ASSUME Prompt, Typed, Served, [Next]_vars, Calm'
             PROVE  InOrder'
  BY DEF Served
<1>1. InOrder /\ ~Fails /\ ~Fault /\ ~Spend("overlap")
  BY CalmStep DEF Served
<1>2. CASE UNCHANGED vars
  <2>1. UNCHANGED <<flag, jobs, callVars, opened, found, sendVars, scriptVars, tick, todo, release>>
    BY <1>2 DEF vars, callVars, sendVars, scriptVars
  <2>2. (OneRequest /\ RowsTell /\ OneScript /\ OneSender)'
    BY <1>1, <2>1, OnlyTheTick
  <2>3. TickKnows'
    BY <1>1, <2>1 DEF InOrder, TickKnows, Watched, Resolved, NoSender, Taken, callVars, sendVars, scriptVars
  <2> QED
    BY <2>2, <2>3 DEF InOrder
<1>3. CASE JobsCancelTasks \/ (\E t \in JobTasks : ForceCancelTask(t)) \/ Restart
  BY <1>1, <1>3 DEF JobsCancelTasks, ForceCancelTask, Restart
<1> QED
  BY <1>1, <1>2, <1>3, CallerInOrder, AskInOrder, TickInOrder, SenderInOrder, ScriptInOrder DEF Next

(* As long as nothing fails or is cancelled and no request comes while      *)
(* another one is being started, data is only written into the server for   *)
(* the request that IsReseeding names.  The flag is set and taken down by   *)
(* four goroutines that only compare names, and the script works from the   *)
(* row alone; the assumption is that a script that has taken a job listens  *)
(* before the sender gives up.                                              *)
THEOREM RestoresAreFlagged == Prompt /\ Spec => []RestoreFlagged
<1>1. Init => Served
  BY RowFacts DEF Init, Served, InOrder, OneRequest, RowsTell, OneScript, OneSender, TickKnows, Started, NoScript, NoSender,
                  Watched, Resolved, Physical, JobTasks, Direct, Reseed, Flashback
<1>2. Served => RestoreFlagged
  <2> SUFFICES ASSUME Served, spent["overlap"] + spent["fault"] = 0, NEW r \in Restores
               PROVE  flag = r[2]
    BY DEF RestoreFlagged
  <2>1. OneRequest /\ OneScript
    BY DEF Served, Calm, InOrder
  <2>2. CASE \E c \in Callers : pc[c] = "load" /\ r = <<c, task[c]>>
    BY <2>1, <2>2 DEF OneRequest
  <2>3. CASE \E s \in Scripts : script[s] = "restore" /\ r = <<s, job[s]>>
    BY <2>1, <2>3 DEF OneScript
  <2> QED
    BY <2>2, <2>3 DEF Restores
<1> SUFFICES ASSUME Prompt
             PROVE  Spec => []RestoreFlagged
  OBVIOUS
<1>3. Typed /\ Served /\ [Next]_vars => Served'
  BY NextServed
<1> QED
  BY <1>1, <1>2, <1>3, SpecTyped, PTL DEF Spec

=================================================================================
