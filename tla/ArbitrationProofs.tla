-------------------------- MODULE ArbitrationProofs ----------------------------
(***************************************************************************)
(* The safety properties of module Arbitration, for any number of managers *)
(* and servers and any bounds, and the refinement of Arbiter.              *)
(***************************************************************************)
EXTENDS Arbitration, FiniteSetTheorems, TLAPS

(* What a manager reports as its number of failed servers is a number. *)
LEMMA CountFailedType ==
  ASSUME TypeOK, NEW m \in Managers
  PROVE  CountFailed(m) \in Nat
<1>1. down[m] \subseteq Hosts
  BY DEF TypeOK
<1>2. IsFiniteSet(down[m])
  BY <1>1, HostsAssumption, FS_Subset
<1> QED
  BY <1>2, FS_CardinalityType DEF CountFailed

(* The initial states are well typed. *)
LEMMA TypeInit == Init => TypeOK
BY BoundAssumption DEF Init, TypeOK, Row, NoRow, Call, NoCall, Masters, Events

(* A row that is reset or ages stays a row. *)
LEMMA RowEditType ==
  ASSUME NEW r \in Row
  PROVE  /\ [r EXCEPT !.status = "U"] \in Row
         /\ [r EXCEPT !.fresh = FALSE] \in Row
BY DEF Row

(* Storing a well-formed call keeps the calls well-formed. *)
LEMMA ServeType ==
  ASSUME TypeOK, NEW m \in Managers, NEW s \in Slots, NEW c \in Call, Serve(m, s, c)
  PROVE  call' \in [Managers -> [Slots -> Call]]
BY DEF TypeOK, Serve

(* A posted call is well typed. *)
LEMMA PostType ==
  ASSUME TypeOK, NEW m \in Managers, NEW f \in {"insert", "request"}, NEW n \in Nat,
         Post(m, f, n)
  PROVE  /\ call' \in [Managers -> [Slots -> Call]]
         /\ slot' \in [Managers -> Slots \cup {0}]
<1>1. PICK s \in Slots : /\ slot' = [slot EXCEPT ![m] = s]
                         /\ Serve(m, s, [NoCall EXCEPT !.step = f, !.master = master[m], !.failed = n])
  BY DEF Post
<1>2. [NoCall EXCEPT !.step = f, !.master = master[m], !.failed = n] \in Call
  BY DEF TypeOK, NoCall, Call, Masters
<1>3. call' \in [Managers -> [Slots -> Call]]
  BY <1>1, <1>2, ServeType
<1> QED
  BY <1>1, <1>3 DEF TypeOK

(* So is the table of calls once an answer has been taken. *)
LEMMA TakeAnswerType ==
  ASSUME TypeOK, NEW m \in Managers, Answered(m), TakeAnswer(m)
  PROVE  /\ call' \in [Managers -> [Slots -> Call]]
         /\ slot' \in [Managers -> Slots \cup {0}]
<1>1. slot[m] \in Slots
  BY DEF TypeOK, Answered
<1>2. NoCall \in Call
  BY DEF NoCall, Call, Masters
<1>3. call' \in [Managers -> [Slots -> Call]]
  BY <1>1, <1>2, ServeType DEF TakeAnswer
<1> QED
  BY <1>3 DEF TypeOK, TakeAnswer

(* And once a call has been given up. *)
LEMMA GiveUpType ==
  ASSUME TypeOK, NEW m \in Managers, GiveUp(m)
  PROVE  /\ call' \in [Managers -> [Slots -> Call]]
         /\ slot' \in [Managers -> Slots \cup {0}]
         /\ spent' \in [Events -> Nat]
<1>1. slot[m] \in Slots
  BY DEF TypeOK, GiveUp
<1>2. NoCall \in Call
  BY DEF NoCall, Call, Masters
<1>3. call' \in [Managers -> [Slots -> Call]]
  <2>1. CASE UNCHANGED call
    BY <2>1 DEF TypeOK
  <2>2. CASE Serve(m, slot[m], NoCall)
    BY <2>2, <1>1, <1>2, ServeType
  <2> QED
    BY <2>1, <2>2 DEF GiveUp
<1>4. spent' \in [Events -> Nat]
  BY DEF TypeOK, GiveUp, Spend, Events
<1> QED
  BY <1>3, <1>4 DEF TypeOK, GiveUp

(* Every step keeps the type invariant. *)
LEMMA TypeNext == TypeOK /\ [Next]_vars => TypeOK'
<1> SUFFICES ASSUME TypeOK, [Next]_vars
             PROVE  TypeOK'
  OBVIOUS
<1>1. ASSUME NEW m \in Managers, NEW s \in Slots, WriteHeartbeatInsert(m, s)
      PROVE  TypeOK'
  <2>1. call[m][s] \in Call
    BY DEF TypeOK
  <2>2. [call[m][s] EXCEPT !.step = "count"] \in Call
    BY <2>1 DEF Call
  <2>3. call' \in [Managers -> [Slots -> Call]]
    BY <1>1, <2>2, ServeType DEF WriteHeartbeatInsert
  <2>4. row' \in [Managers -> Row]
    BY <1>1, <2>1 DEF WriteHeartbeatInsert, TypeOK, Row, Call
  <2> QED
    BY <1>1, <2>3, <2>4 DEF WriteHeartbeatInsert, Arbitrated, TypeOK, loopVars, viewVars
<1>2. ASSUME NEW m \in Managers, NEW s \in Slots, WriteHeartbeatCount(m, s)
      PROVE  TypeOK'
  <2>1. call[m][s] \in Call
    BY DEF TypeOK
  <2>2. \A st \in {"reset", "reply"} : [call[m][s] EXCEPT !.step = st] \in Call
    BY <2>1 DEF Call
  <2>3. call' \in [Managers -> [Slots -> Call]]
    BY <1>2, <2>2, ServeType DEF WriteHeartbeatCount
  <2> QED
    BY <1>2, <2>3 DEF WriteHeartbeatCount, Arbitrated, TypeOK, loopVars, viewVars
<1>3. ASSUME NEW m \in Managers, NEW s \in Slots, WriteHeartbeatReset(m, s)
      PROVE  TypeOK'
  <2>1. call[m][s] \in Call
    BY DEF TypeOK
  <2>2. [call[m][s] EXCEPT !.step = "reply"] \in Call
    BY <2>1 DEF Call
  <2>3. call' \in [Managers -> [Slots -> Call]]
    BY <1>3, <2>2, ServeType DEF WriteHeartbeatReset
  <2>4. row' \in [Managers -> Row]
    <3>1. \A o \in Managers : row[o] \in Row
      BY DEF TypeOK
    <3> QED
      BY <1>3, <3>1, RowEditType DEF WriteHeartbeatReset
  <2> QED
    BY <1>3, <2>3, <2>4 DEF WriteHeartbeatReset, Arbitrated, TypeOK, loopVars, viewVars
<1>4. ASSUME NEW m \in Managers, NEW s \in Slots, RequestArbitration(m, s)
      PROVE  TypeOK'
  <2>1. call[m][s] \in Call
    BY DEF TypeOK
  <2>2. Wins(m, call[m][s].failed) \in BOOLEAN
    BY DEF Wins
  <2>3. \A w \in BOOLEAN : [call[m][s] EXCEPT !.step = "master", !.won = w] \in Call
    BY <2>1 DEF Call
  <2>4. call' \in [Managers -> [Slots -> Call]]
    BY <1>4, <2>2, <2>3, ServeType DEF RequestArbitration
  <2>5. row' \in [Managers -> Row]
    BY <1>4, <2>1 DEF RequestArbitration, TypeOK, Row, Call
  <2> QED
    BY <1>4, <2>4, <2>5 DEF RequestArbitration, Arbitrated, TypeOK, loopVars, viewVars
<1>5. ASSUME NEW m \in Managers, NEW s \in Slots, GetArbitrationMaster(m, s)
      PROVE  TypeOK'
  <2>1. call[m][s] \in Call
    BY DEF TypeOK
  <2>2. PICK w \in IF Elected = {} THEN {NoMaster} ELSE {row[o].master : o \in Elected} :
          Serve(m, s, [call[m][s] EXCEPT !.step = "reply", !.winner = w])
    BY <1>5 DEF GetArbitrationMaster
  <2>3. w \in Masters
    BY <2>2 DEF TypeOK, Row, Elected, Masters
  <2>4. [call[m][s] EXCEPT !.step = "reply", !.winner = w] \in Call
    BY <2>1, <2>3 DEF Call
  <2>5. call' \in [Managers -> [Slots -> Call]]
    BY <2>2, <2>4, ServeType
  <2> QED
    BY <1>5, <2>5 DEF GetArbitrationMaster, Arbitrated, TypeOK, loopVars, viewVars
<1>6. ASSUME NEW m \in Managers, NEW s \in Slots, DatabaseError(m, s)
      PROVE  TypeOK'
  <2>1. call[m][s] \in Call
    BY DEF TypeOK
  <2>2. \A st \in {"master", "reply"} : [call[m][s] EXCEPT !.step = st] \in Call
    BY <2>1 DEF Call
  <2>3. call' \in [Managers -> [Slots -> Call]]
    BY <1>6, <2>2, ServeType DEF DatabaseError
  <2>4. spent' \in [Events -> Nat]
    BY <1>6 DEF DatabaseError, Spend, TypeOK, Events
  <2> QED
    BY <1>6, <2>3, <2>4 DEF DatabaseError, TypeOK, loopVars, viewVars
<1>7. ASSUME NEW m \in Managers, NEW s \in Slots, AnswerDropped(m, s)
      PROVE  TypeOK'
  <2>1. NoCall \in Call
    BY DEF NoCall, Call, Masters
  <2>2. call' \in [Managers -> [Slots -> Call]]
    BY <1>7, <2>1, ServeType DEF AnswerDropped
  <2> QED
    BY <1>7, <2>2 DEF AnswerDropped, TypeOK, loopVars, viewVars
<1>8. ASSUME NEW m \in Managers, HeartbeatStart(m)
      PROVE  TypeOK'
  <2>1. /\ call' \in [Managers -> [Slots -> Call]]
        /\ slot' \in [Managers -> Slots \cup {0}]
    <3>1. CASE Post(m, "insert", CountFailed(m))
      BY <3>1, CountFailedType, PostType
    <3>2. CASE UNCHANGED <<call, slot>>
      BY <3>2 DEF TypeOK
    <3> QED
      BY <1>8, <3>1, <3>2 DEF HeartbeatStart
  <2> QED
    BY <1>8, <2>1 DEF HeartbeatStart, Goto, TypeOK, viewVars
<1>9. ASSUME NEW m \in Managers, ReportAnswered(m)
      PROVE  TypeOK'
  <2>1. /\ call' \in [Managers -> [Slots -> Call]]
        /\ slot' \in [Managers -> Slots \cup {0}]
    BY <1>9, TakeAnswerType DEF ReportAnswered
  <2>2. tries' \in [Managers -> 1..ElectionTries]
    BY <1>9, BoundAssumption DEF ReportAnswered, TypeOK
  <2> QED
    BY <1>9, <2>1, <2>2 DEF ReportAnswered, Goto, TypeOK, viewVars
<1>10. ASSUME NEW m \in Managers, ReportFails(m)
       PROVE  TypeOK'
  <2>1. /\ call' \in [Managers -> [Slots -> Call]]
        /\ slot' \in [Managers -> Slots \cup {0}]
        /\ spent' \in [Events -> Nat]
    BY <1>10, GiveUpType DEF ReportFails
  <2>2. tries' \in [Managers -> 1..ElectionTries]
    BY <1>10, BoundAssumption DEF ReportFails, TypeOK
  <2> QED
    BY <1>10, <2>1, <2>2 DEF ReportFails, Goto, TypeOK, viewVars
<1>11. ASSUME NEW m \in Managers, ArbitratorElection(m)
       PROVE  TypeOK'
  <2>1. /\ call' \in [Managers -> [Slots -> Call]]
        /\ slot' \in [Managers -> Slots \cup {0}]
    <3>1. CASE Post(m, "request", CountFailed(m))
      BY <3>1, CountFailedType, PostType
    <3>2. CASE UNCHANGED <<call, slot>>
      BY <3>2 DEF TypeOK
    <3> QED
      BY <1>11, <3>1, <3>2 DEF ArbitratorElection
  <2> QED
    BY <1>11, <2>1 DEF ArbitratorElection, Goto, TypeOK, viewVars
<1>12. ASSUME NEW m \in Managers, ElectionAnswered(m)
       PROVE  TypeOK'
  <2>1. /\ call' \in [Managers -> [Slots -> Call]]
        /\ slot' \in [Managers -> Slots \cup {0}]
    <3>1. CASE UNCHANGED <<call, slot>>
      BY <3>1 DEF TypeOK
    <3>2. CASE TakeAnswer(m)
      BY <1>12, <3>2, TakeAnswerType DEF ElectionAnswered
    <3> QED
      BY <1>12, <3>1, <3>2 DEF ElectionAnswered
  <2> QED
    BY <1>12, <2>1 DEF ElectionAnswered, Goto, TypeOK, viewVars
<1>13. ASSUME NEW m \in Managers, ElectionFails(m)
       PROVE  TypeOK'
  <2>1. /\ call' \in [Managers -> [Slots -> Call]]
        /\ slot' \in [Managers -> Slots \cup {0}]
        /\ spent' \in [Events -> Nat]
    BY <1>13, GiveUpType DEF ElectionFails
  <2>2. tries' \in [Managers -> 1..ElectionTries]
    BY <1>13, BoundAssumption DEF ElectionFails, TypeOK
  <2> QED
    BY <1>13, <2>1, <2>2 DEF ElectionFails, Goto, TypeOK, viewVars
<1>14. ASSUME NEW m \in Managers, HeartbeatEnd(m)
       PROVE  TypeOK'
  BY <1>14 DEF HeartbeatEnd, Goto, TypeOK, viewVars
<1>15. ASSUME NEW m \in Managers, CheckFailed(m)
       PROVE  TypeOK'
  <2>1. /\ call' \in [Managers -> [Slots -> Call]]
        /\ slot' \in [Managers -> Slots \cup {0}]
    <3>1. CASE Post(m, "request", 0)
      BY <3>1, PostType
    <3>2. CASE UNCHANGED <<call, slot>>
      BY <3>2 DEF TypeOK
    <3> QED
      BY <1>15, <3>1, <3>2 DEF CheckFailed
  <2> QED
    BY <1>15, <2>1 DEF CheckFailed, Goto, TypeOK, viewVars
<1>16. ASSUME NEW m \in Managers, Failover(m)
       PROVE  TypeOK'
  <2>1. /\ call' \in [Managers -> [Slots -> Call]]
        /\ slot' \in [Managers -> Slots \cup {0}]
    BY <1>16, TakeAnswerType DEF Failover
  <2>2. master' \in [Managers -> Masters]
    BY <1>16 DEF Failover, Candidates, TypeOK, Masters
  <2> QED
    BY <1>16, <2>1, <2>2 DEF Failover, Goto, TypeOK, viewVars
<1>17. ASSUME NEW m \in Managers, FailoverRefused(m)
       PROVE  TypeOK'
  <2>1. /\ call' \in [Managers -> [Slots -> Call]]
        /\ slot' \in [Managers -> Slots \cup {0}]
    BY <1>17, TakeAnswerType DEF FailoverRefused
  <2> QED
    BY <1>17, <2>1 DEF FailoverRefused, Goto, TypeOK, viewVars
<1>18. ASSUME NEW m \in Managers, AskFails(m)
       PROVE  TypeOK'
  <2>1. /\ call' \in [Managers -> [Slots -> Call]]
        /\ slot' \in [Managers -> Slots \cup {0}]
        /\ spent' \in [Events -> Nat]
    BY <1>18, GiveUpType DEF AskFails
  <2> QED
    BY <1>18, <2>1 DEF AskFails, Goto, TypeOK, viewVars
<1>19. ASSUME NEW m \in Managers, PeerHeartbeat(m)
       PROVE  TypeOK'
  <2>1. HeartbeatPeerSplitBrain(m) \in BOOLEAN
    BY DEF HeartbeatPeerSplitBrain
  <2> QED
    BY <1>19, <2>1 DEF PeerHeartbeat, TypeOK, tableVars, loopVars
<1>20. ASSUME NEW m \in Managers, RowAges(m)
       PROVE  TypeOK'
  <2>1. row' \in [Managers -> Row]
    <3>1. row[m] \in Row
      BY DEF TypeOK
    <3> QED
      BY <1>20, <3>1, RowEditType DEF RowAges, TypeOK
  <2> QED
    BY <1>20, <2>1 DEF RowAges, TypeOK, loopVars, viewVars
<1>21. ASSUME NEW m \in Managers, ViewChanges(m)
       PROVE  TypeOK'
  <2>1. /\ down' \in [Managers -> SUBSET Hosts]
        /\ master' \in [Managers -> Masters]
    BY <1>21 DEF ViewChanges, TypeOK, Masters
  <2>2. spent' \in [Events -> Nat]
    BY <1>21 DEF ViewChanges, Spend, TypeOK, Events
  <2> QED
    BY <1>21, <2>1, <2>2 DEF ViewChanges, TypeOK, tableVars
<1>22. ASSUME NEW m \in Managers, NEW p \in Managers, LinkChanges(m, p)
       PROVE  TypeOK'
  <2>1. spent' \in [Events -> Nat]
    BY <1>22 DEF LinkChanges, Spend, TypeOK, Events
  <2>2. cut' \in SUBSET SUBSET Managers
    BY <1>22 DEF LinkChanges, TypeOK
  <2> QED
    BY <1>22, <2>1, <2>2 DEF LinkChanges, TypeOK, tableVars, loopVars
<1>23. ASSUME NEW m \in Managers, Crash(m)
       PROVE  TypeOK'
  <2>1. spent' \in [Events -> Nat]
    BY <1>23 DEF Crash, Spend, TypeOK, Events
  <2> QED
    BY <1>23, <2>1 DEF Crash, TypeOK, tableVars
<1>24. ASSUME NEW m \in Managers, Restart(m)
       PROVE  TypeOK'
  <2>1. spent' \in [Events -> Nat]
    BY <1>24 DEF Restart, Spend, TypeOK, Events
  <2>2. /\ tries' \in [Managers -> 1..ElectionTries]
        /\ master' \in [Managers -> Masters]
    BY <1>24, BoundAssumption DEF Restart, TypeOK
  <2> QED
    BY <1>24, <2>1, <2>2 DEF Restart, TypeOK, tableVars
<1>25. ASSUME NEW m \in Managers, LostArbitration(m)
       PROVE  TypeOK'
  <2>1. /\ call' \in [Managers -> [Slots -> Call]]
        /\ slot' \in [Managers -> Slots \cup {0}]
    BY <1>25, TakeAnswerType DEF LostArbitration
  <2>2. slot[m] \in Slots
    BY <1>25 DEF LostArbitration, Answered, TypeOK
  <2>3. Answer(m).winner \in Masters
    BY <2>2 DEF Answer, TypeOK, Call
  <2>4. source' \in [Hosts -> Masters]
    BY <1>25, <2>3 DEF LostArbitration, TypeOK
  <2> QED
    BY <1>25, <2>1, <2>4 DEF LostArbitration, Goto, TypeOK
<1>26. CASE UNCHANGED vars
  BY <1>26 DEF vars, TypeOK
<1> QED
  BY <1>1, <1>2, <1>3, <1>4, <1>5, <1>6, <1>7, <1>8, <1>9, <1>10, <1>11, <1>12, <1>13,
     <1>14, <1>15, <1>16, <1>17, <1>18, <1>19, <1>20, <1>21, <1>22, <1>23, <1>24, <1>25,
     <1>26 DEF Next, Handler, Loop

(* The type invariant of the managers, the table and the calls. *)
THEOREM TypeCorrect == Spec => []TypeOK
BY TypeInit, TypeNext, PTL DEF Spec

--------------------------------------------------------------------------------
(* Only four statements write the heartbeat table. *)
LEMMA RowWriters ==
  ASSUME [Next]_vars
  PROVE  \/ row' = row
         \/ \E m \in Managers, s \in Slots :
              \/ WriteHeartbeatInsert(m, s)
              \/ WriteHeartbeatReset(m, s)
              \/ RequestArbitration(m, s)
         \/ \E m \in Managers : RowAges(m)
<1>1. CASE UNCHANGED vars
  BY <1>1 DEF vars
<1>2. ASSUME NEW m \in Managers, NEW s \in Slots,
             DatabaseError(m, s) \/ AnswerDropped(m, s) \/ WriteHeartbeatCount(m, s)
             \/ GetArbitrationMaster(m, s)
      PROVE  row' = row
  BY <1>2 DEF DatabaseError, AnswerDropped, WriteHeartbeatCount, GetArbitrationMaster
<1>3. ASSUME NEW m \in Managers, Loop(m)
      PROVE  row' = row
  BY <1>3 DEF Loop, HeartbeatStart, ReportAnswered, ReportFails, ArbitratorElection,
     ElectionAnswered, ElectionFails, LostArbitration, HeartbeatEnd, CheckFailed, Failover,
     FailoverRefused, AskFails
<1>4. ASSUME NEW m \in Managers,
             PeerHeartbeat(m) \/ ViewChanges(m) \/ Crash(m) \/ Restart(m)
      PROVE  row' = row
  BY <1>4 DEF PeerHeartbeat, ViewChanges, Crash, Restart, tableVars
<1>5. ASSUME NEW m \in Managers, NEW p \in Managers, LinkChanges(m, p)
      PROVE  row' = row
  BY <1>5 DEF LinkChanges, tableVars
<1> QED
  BY <1>1, <1>2, <1>3, <1>4, <1>5 DEF Next, Handler

(* The effect of a step on the table: no row disappears, and either no      *)
(* election is added, or one is granted while nobody else holds any.        *)
LEMMA RowStep ==
  ASSUME TypeOK, [Next]_vars
  PROVE  /\ \A o \in Managers : row[o].status # "none" => row'[o].status # "none"
         /\ \/ Elected' \subseteq Elected
            \/ \E m \in Managers : Elected \subseteq {m} /\ Elected' = {m}
<1>1. CASE row' = row
  BY <1>1 DEF Elected
<1>2. ASSUME NEW m \in Managers, NEW s \in Slots, WriteHeartbeatInsert(m, s)
      PROVE  /\ \A o \in Managers : row[o].status # "none" => row'[o].status # "none"
             /\ Elected' \subseteq Elected
  <2>1. \A o \in Managers : row'[o].status = IF o = m THEN "U" ELSE row[o].status
    BY <1>2 DEF WriteHeartbeatInsert, TypeOK, Row
  <2> QED
    BY <2>1 DEF Elected
<1>3. ASSUME NEW m \in Managers, NEW s \in Slots, WriteHeartbeatReset(m, s)
      PROVE  /\ \A o \in Managers : row[o].status # "none" => row'[o].status # "none"
             /\ Elected' \subseteq Elected
  <2>1. \A o \in Managers : row[o] \in Row
    BY DEF TypeOK
  <2>2. \A o \in Managers :
          row'[o].status = IF row[o].status = "E" THEN "U" ELSE row[o].status
    BY <1>3, <2>1 DEF WriteHeartbeatReset, Row
  <2> QED
    BY <2>2 DEF Elected
<1>4. ASSUME NEW m \in Managers, NEW s \in Slots, RequestArbitration(m, s)
      PROVE  /\ \A o \in Managers : row[o].status # "none" => row'[o].status # "none"
             /\ \/ Elected' \subseteq Elected
                \/ Elected \subseteq {m} /\ Elected' = {m}
  <2>1. CASE Wins(m, call[m][s].failed)
    <3>1. \A o \in Managers : row'[o].status = IF o = m THEN "E" ELSE row[o].status
      BY <1>4, <2>1 DEF RequestArbitration, TypeOK, Row
    <3>2. Elected \subseteq {m}
      BY <2>1 DEF Wins
    <3> QED
      BY <3>1, <3>2 DEF Elected
  <2>2. CASE ~Wins(m, call[m][s].failed)
    BY <1>4, <2>2 DEF RequestArbitration, Elected
  <2> QED
    BY <2>1, <2>2
<1>5. ASSUME NEW m \in Managers, RowAges(m)
      PROVE  /\ \A o \in Managers : row[o].status # "none" => row'[o].status # "none"
             /\ Elected' \subseteq Elected
  <2>1. \A o \in Managers : row[o] \in Row
    BY DEF TypeOK
  <2>2. \A o \in Managers : row'[o].status = row[o].status
    BY <1>5, <2>1 DEF RowAges, TypeOK, Row
  <2> QED
    BY <2>2 DEF Elected
<1> QED
  BY <1>1, <1>2, <1>3, <1>4, <1>5, RowWriters

(* The heartbeat table holds at most one elected manager. *)
THEOREM ElectionUnique == Spec => []AtMostOneElected
<1>1. Init => AtMostOneElected
  BY DEF Init, AtMostOneElected, NoRow
<1>2. TypeOK /\ AtMostOneElected /\ [Next]_vars => AtMostOneElected'
  <2> SUFFICES ASSUME TypeOK, AtMostOneElected, [Next]_vars,
                      NEW m \in Managers, NEW n \in Managers,
                      row'[m].status = "E", row'[n].status = "E"
               PROVE  m = n
    BY DEF AtMostOneElected
  <2>1. m \in Elected' /\ n \in Elected'
    BY DEF Elected
  <2>2. CASE Elected' \subseteq Elected
    BY <2>1, <2>2 DEF Elected, AtMostOneElected
  <2>3. CASE \E o \in Managers : Elected' = {o}
    BY <2>1, <2>3
  <2> QED
    BY <2>2, <2>3, RowStep
<1> QED
  BY <1>1, <1>2, TypeCorrect, PTL DEF Spec

(* The table and its concurrent handlers implement the abstract arbiter.    *)
THEOREM ImplementsArbiter == Spec => ArbiterSpec
<1>1. Init => Arbiter!Init
  BY DEF Init, Arbiter!Init, Elected, NoRow
<1>2. TypeOK /\ AtMostOneElected /\ [Next]_vars => [Arbiter!Next]_Elected
  <2> SUFFICES ASSUME TypeOK, AtMostOneElected, [Next]_vars
               PROVE  [Arbiter!Next]_Elected
    OBVIOUS
  <2>1. CASE Elected' \subseteq Elected
    <3>1. Elected' = Elected \/ Elected' = {}
      BY <2>1 DEF Elected, AtMostOneElected
    <3> QED
      BY <3>1 DEF Arbiter!Next, Arbiter!Clear
  <2>2. CASE \E m \in Managers : Elected \subseteq {m} /\ Elected' = {m}
    BY <2>2 DEF Arbiter!Next, Arbiter!Elect
  <2> QED
    BY <2>1, <2>2, RowStep
<1> QED
  BY <1>1, <1>2, TypeCorrect, ElectionUnique, PTL DEF Spec, ArbiterSpec, Arbiter!Spec

--------------------------------------------------------------------------------
(* Storing one call leaves the others alone. *)
LEMMA ServeEffect ==
  ASSUME TypeOK, NEW m \in Managers, NEW s \in Slots, NEW c, Serve(m, s, c)
  PROVE  \A n \in Managers, t \in Slots :
           call'[n][t] = IF n = m /\ t = s THEN c ELSE call[n][t]
BY DEF TypeOK, Serve

(* The answer LostArbitration works with is still in its slot, and names    *)
(* another master than the loser's as long as no view changes.              *)
Kept(m) == /\ Answered(m)
           /\ spent["view"] = 0 => Answer(m).winner # master[m]
Compared == \A m \in Managers : alive[m] /\ pc[m] = "lost" => Kept(m)

(* The arbitrator has done with the call of a manager in LostArbitration.   *)
LEMMA HandlerKeeps ==
  ASSUME TypeOK, Compared, NEW n \in Managers, NEW s \in Slots,
         Handler(n, s) \/ DatabaseError(n, s) \/ AnswerDropped(n, s)
  PROVE  Compared'
<1> SUFFICES ASSUME NEW m \in Managers, alive'[m], pc'[m] = "lost"
             PROVE  Kept(m)'
  BY DEF Compared
<1>1. UNCHANGED <<alive, pc, slot, master>>
  BY DEF Handler, WriteHeartbeatInsert, WriteHeartbeatCount, WriteHeartbeatReset,
     RequestArbitration, GetArbitrationMaster, DatabaseError, AnswerDropped, Arbitrated,
     loopVars, viewVars
<1>2. Kept(m) /\ slot[m] \in Slots
  BY <1>1 DEF Compared, Kept, Answered, TypeOK
<1>3. spent'["view"] = spent["view"]
  BY DEF Handler, WriteHeartbeatInsert, WriteHeartbeatCount, WriteHeartbeatReset,
     RequestArbitration, GetArbitrationMaster, DatabaseError, AnswerDropped, Arbitrated,
     Spend, TypeOK, Events
<1>4. PICK c : Serve(n, s, c)
  BY DEF Handler, WriteHeartbeatInsert, WriteHeartbeatCount, WriteHeartbeatReset,
     RequestArbitration, GetArbitrationMaster, DatabaseError, AnswerDropped
<1>5. call[n][s].step # "reply" \/ slot[n] # s
  BY DEF Handler, WriteHeartbeatInsert, WriteHeartbeatCount, WriteHeartbeatReset,
     RequestArbitration, GetArbitrationMaster, DatabaseError, AnswerDropped, At
<1>6. call'[m][slot[m]] = call[m][slot[m]]
  BY <1>2, <1>4, <1>5, ServeEffect DEF Kept, Answered, At
<1> QED
  BY <1>1, <1>2, <1>3, <1>6 DEF Kept, Answered, Answer, At

(* A manager's own steps touch its own calls, and none of them belongs to   *)
(* LostArbitration but itself.                                              *)
LEMMA LoopKeeps ==
  ASSUME TypeOK, Compared, NEW n \in Managers, Loop(n)
  PROVE  Compared'
<1> SUFFICES ASSUME NEW m \in Managers, alive'[m], pc'[m] = "lost"
             PROVE  Kept(m)'
  BY DEF Compared
<1>1. CASE m = n
  <2>1. ElectionAnswered(m) /\ IsVictim(m) /\ UNCHANGED <<call, slot>>
    BY <1>1 DEF Loop, HeartbeatStart, ReportAnswered, ReportFails, ArbitratorElection,
       ElectionAnswered, ElectionFails, LostArbitration, HeartbeatEnd, CheckFailed, Failover,
       FailoverRefused, AskFails, Goto, TypeOK
  <2> QED
    BY <2>1 DEF ElectionAnswered, IsVictim, Kept, Answered, Answer, At
<1>2. CASE m # n
  <2>1. alive'[m] = alive[m] /\ pc'[m] = pc[m]
    BY <1>2 DEF Loop, HeartbeatStart, ReportAnswered, ReportFails, ArbitratorElection,
       ElectionAnswered, ElectionFails, LostArbitration, HeartbeatEnd, CheckFailed, Failover,
       FailoverRefused, AskFails, Goto, viewVars, TypeOK
  <2>2. slot'[m] = slot[m] /\ master'[m] = master[m]
    BY <1>2 DEF Loop, HeartbeatStart, ReportAnswered, ReportFails, ArbitratorElection,
       ElectionAnswered, ElectionFails, LostArbitration, HeartbeatEnd, CheckFailed, Failover,
       FailoverRefused, AskFails, Post, TakeAnswer, GiveUp, TypeOK
  <2>3. spent'["view"] = spent["view"]
    BY DEF Loop, HeartbeatStart, ReportAnswered, ReportFails, ArbitratorElection,
       ElectionAnswered, ElectionFails, LostArbitration, HeartbeatEnd, CheckFailed, Failover,
       FailoverRefused, AskFails, GiveUp, Spend, TypeOK, Events
  <2>4. call' = call \/ \E t, c : Serve(n, t, c)
    BY DEF Loop, HeartbeatStart, ReportAnswered, ReportFails, ArbitratorElection,
       ElectionAnswered, ElectionFails, LostArbitration, HeartbeatEnd, CheckFailed, Failover,
       FailoverRefused, AskFails, Post, TakeAnswer, GiveUp
  <2>5. call'[m] = call[m]
    BY <1>2, <2>4 DEF Serve, TypeOK
  <2> QED
    BY <2>1, <2>2, <2>3, <2>5 DEF Compared, Kept, Answered, Answer, At
<1> QED
  BY <1>1, <1>2

(* Every step keeps the result of the comparison. *)
LEMMA ComparedNext == TypeOK /\ Compared /\ [Next]_vars => Compared'
<1> SUFFICES ASSUME TypeOK, Compared, [Next]_vars
             PROVE  Compared'
  OBVIOUS
<1>1. ASSUME NEW n \in Managers, PeerHeartbeat(n) \/ RowAges(n)
      PROVE  Compared'
  BY <1>1 DEF PeerHeartbeat, RowAges, tableVars, loopVars, viewVars, Compared, Kept, Answered,
     Answer, At
<1>2. ASSUME NEW n \in Managers, ViewChanges(n)
      PROVE  Compared'
  <2>1. spent'["view"] # 0
    BY <1>2 DEF ViewChanges, Spend, TypeOK, Events
  <2> QED
    BY <1>2, <2>1 DEF ViewChanges, tableVars, Compared, Kept, Answered, At
<1>3. ASSUME NEW n \in Managers, Crash(n) \/ Restart(n)
      PROVE  Compared'
  <2> SUFFICES ASSUME NEW m \in Managers, alive'[m], pc'[m] = "lost"
               PROVE  Kept(m)'
    BY DEF Compared
  <2>1. m # n
    BY <1>3 DEF Crash, Restart, TypeOK
  <2>2. /\ alive'[m] = alive[m] /\ pc'[m] = pc[m] /\ slot'[m] = slot[m]
        /\ master'[m] = master[m] /\ spent'["view"] = spent["view"] /\ call' = call
    BY <1>3, <2>1 DEF Crash, Restart, Spend, tableVars, TypeOK, Events
  <2> QED
    BY <2>2 DEF Compared, Kept, Answered, Answer, At
<1>4. ASSUME NEW n \in Managers, NEW p \in Managers, LinkChanges(n, p)
      PROVE  Compared'
  BY <1>4 DEF LinkChanges, Spend, tableVars, loopVars, Compared, Kept, Answered, Answer, At,
     TypeOK, Events
<1>5. CASE UNCHANGED vars
  BY <1>5 DEF vars, Compared, Kept, Answered, Answer, At
<1> QED
  BY <1>1, <1>2, <1>3, <1>4, <1>5, HandlerKeeps, LoopKeeps DEF Next

(* LostArbitration is the only code that points a server at another one. *)
LEMMA SourceWriters ==
  ASSUME [Next]_vars
  PROVE  source' = source \/ \E m \in Managers : LostArbitration(m)
<1>1. CASE UNCHANGED vars
  BY <1>1 DEF vars
<1>2. ASSUME NEW m \in Managers, NEW s \in Slots,
             Handler(m, s) \/ DatabaseError(m, s) \/ AnswerDropped(m, s)
      PROVE  source' = source
  BY <1>2 DEF Handler, WriteHeartbeatInsert, WriteHeartbeatCount, WriteHeartbeatReset,
     RequestArbitration, GetArbitrationMaster, DatabaseError, AnswerDropped, Arbitrated, loopVars
<1>3. ASSUME NEW m \in Managers, Loop(m)
      PROVE  source' = source \/ LostArbitration(m)
  BY <1>3 DEF Loop, HeartbeatStart, ReportAnswered, ReportFails, ArbitratorElection,
     ElectionAnswered, ElectionFails, HeartbeatEnd, CheckFailed, Failover,
     FailoverRefused, AskFails
<1>4. ASSUME NEW m \in Managers,
             PeerHeartbeat(m) \/ RowAges(m) \/ ViewChanges(m) \/ Crash(m) \/ Restart(m)
      PROVE  source' = source
  BY <1>4 DEF PeerHeartbeat, RowAges, ViewChanges, Crash, Restart, loopVars
<1>5. ASSUME NEW m \in Managers, NEW p \in Managers, LinkChanges(m, p)
      PROVE  source' = source
  BY <1>5 DEF LinkChanges, loopVars
<1> QED
  BY <1>1, <1>2, <1>3, <1>4, <1>5 DEF Next

(* A step counts one event of the environment, or none. *)
LEMMA SpentStep ==
  ASSUME [Next]_vars
  PROVE  spent' = spent \/ \E e \in Events : Spend(e)
<1>1. ASSUME NEW m \in Managers, NEW s \in Slots,
             Handler(m, s) \/ DatabaseError(m, s) \/ AnswerDropped(m, s)
      PROVE  spent' = spent \/ \E e \in Events : Spend(e)
  BY <1>1 DEF Handler, WriteHeartbeatInsert, WriteHeartbeatCount, WriteHeartbeatReset,
     RequestArbitration, GetArbitrationMaster, DatabaseError, AnswerDropped, Arbitrated, Events
<1>2. ASSUME NEW m \in Managers, Loop(m)
      PROVE  spent' = spent \/ \E e \in Events : Spend(e)
  BY <1>2 DEF Loop, HeartbeatStart, ReportAnswered, ReportFails, ArbitratorElection,
     ElectionAnswered, ElectionFails, LostArbitration, HeartbeatEnd, CheckFailed, Failover,
     FailoverRefused, AskFails, GiveUp, Events
<1>3. ASSUME NEW m \in Managers,
             PeerHeartbeat(m) \/ RowAges(m) \/ ViewChanges(m) \/ Crash(m) \/ Restart(m)
      PROVE  spent' = spent \/ \E e \in Events : Spend(e)
  BY <1>3 DEF PeerHeartbeat, RowAges, ViewChanges, Crash, Restart, Events
<1>4. ASSUME NEW m \in Managers, NEW p \in Managers, LinkChanges(m, p)
      PROVE  \E e \in Events : Spend(e)
  BY <1>4 DEF LinkChanges, Events
<1>5. CASE UNCHANGED vars
  BY <1>5 DEF vars
<1> QED
  BY <1>1, <1>2, <1>3, <1>4, <1>5 DEF Next

(* The views, once changed, stay changed. *)
LEMMA ViewStep ==
  ASSUME TypeOK, [Next]_vars, spent'["view"] = 0
  PROVE  spent["view"] = 0
<1>1. CASE spent' = spent
  BY <1>1
<1>2. ASSUME NEW e \in Events, Spend(e)
      PROVE  spent["view"] = 0
  BY <1>2 DEF Spend, TypeOK, Events
<1> QED
  BY <1>1, <1>2, SpentStep

(* As long as no view changes LostArbitration attaches the server that the  *)
(* comparison found to be another one than the winner's master.             *)
THEOREM LoserNotAttachedToItself == Spec => []NeverAttachedToItself
<1>1. Init => NeverAttachedToItself /\ Compared
  BY NoMasterAssumption DEF Init, NeverAttachedToItself, Compared
<1>2. TypeOK /\ Compared /\ NeverAttachedToItself /\ [Next]_vars => NeverAttachedToItself'
  <2> SUFFICES ASSUME TypeOK, Compared, NeverAttachedToItself, [Next]_vars, spent'["view"] = 0
               PROVE  \A h \in Hosts : source'[h] # h
    BY DEF NeverAttachedToItself
  <2>1. \A h \in Hosts : source[h] # h
    BY ViewStep DEF NeverAttachedToItself
  <2>2. CASE source' = source
    BY <2>1, <2>2
  <2>3. ASSUME NEW m \in Managers, LostArbitration(m)
        PROVE  \A h \in Hosts : source'[h] # h
    <3>1. Answer(m).winner # master[m]
      BY <2>3, ViewStep DEF LostArbitration, Compared, Kept
    <3> QED
      BY <2>1, <2>3, <3>1 DEF LostArbitration, TypeOK
  <2> QED
    BY <2>2, <2>3, SourceWriters
<1> QED
  BY <1>1, <1>2, TypeCorrect, ComparedNext, PTL DEF Spec

--------------------------------------------------------------------------------
(* A call is new, is answered and forgotten, or moves on by one statement   *)
(* of its handler.                                                          *)
Begun(c) == c.step \in {"insert", "request"} /\ ~c.won
Served(c, d) == /\ d.won => c.won
                /\ d.step = "master" => spent'["error"] # 0
Won(m, c, d) == /\ c.step = "request" /\ d.step = "master"
                /\ d.won = Wins(m, c.failed)
                /\ d.won => row'[m].status = "E"

(* A handler changes the call it serves and no other. *)
LEMMA HandlerCalls ==
  ASSUME TypeOK, NEW m \in Managers, NEW s \in Slots,
         Handler(m, s) \/ DatabaseError(m, s) \/ AnswerDropped(m, s)
  PROVE  \A n \in Managers, t \in Slots :
           \/ call'[n][t] = call[n][t]
           \/ Served(call[n][t], call'[n][t])
           \/ Won(n, call[n][t], call'[n][t])
<1> DEFINE c == call[m][s]
<1>0. c \in Call
  BY DEF TypeOK
<1>1. CASE WriteHeartbeatInsert(m, s)
  BY <1>0, <1>1, ServeEffect DEF WriteHeartbeatInsert, Served, Call
<1>2. CASE WriteHeartbeatCount(m, s)
  BY <1>0, <1>2, ServeEffect DEF WriteHeartbeatCount, Served, Call
<1>3. CASE WriteHeartbeatReset(m, s)
  BY <1>0, <1>3, ServeEffect DEF WriteHeartbeatReset, Served, Call
<1>4. CASE RequestArbitration(m, s)
  <2>1. call'[m][s] = [c EXCEPT !.step = "master", !.won = Wins(m, c.failed)]
    BY <1>4, ServeEffect DEF RequestArbitration
  <2>2. Wins(m, c.failed) => row'[m].status = "E"
    BY <1>4 DEF RequestArbitration, TypeOK
  <2>3. Won(m, c, call'[m][s])
    BY <1>0, <1>4, <2>1, <2>2 DEF RequestArbitration, At, Won, Call
  <2> QED
    BY <1>4, <2>3, ServeEffect DEF RequestArbitration
<1>5. CASE GetArbitrationMaster(m, s)
  <2>1. PICK w : Serve(m, s, [c EXCEPT !.step = "reply", !.winner = w])
    BY <1>5 DEF GetArbitrationMaster
  <2>2. \A d : d = [c EXCEPT !.step = "reply", !.winner = w] => Served(c, d)
    BY <1>0 DEF Served, Call
  <2> QED
    BY <2>1, <2>2, ServeEffect
<1>6. CASE DatabaseError(m, s)
  <2>1. spent'["error"] # 0
    BY <1>6 DEF DatabaseError, Spend, TypeOK, Events
  <2> QED
    BY <1>0, <1>6, <2>1, ServeEffect DEF DatabaseError, Served, Call
<1>7. CASE AnswerDropped(m, s)
  BY <1>7, ServeEffect DEF AnswerDropped, Served, NoCall
<1> QED
  BY <1>1, <1>2, <1>3, <1>4, <1>5, <1>6, <1>7 DEF Handler

(* A manager begins a call, or drops one it no longer waits for. *)
LEMMA LoopCalls ==
  ASSUME TypeOK, NEW m \in Managers, Loop(m)
  PROVE  \A n \in Managers, t \in Slots :
           \/ call'[n][t] = call[n][t]
           \/ Begun(call'[n][t])
           \/ Served(call[n][t], call'[n][t])
<1> DEFINE Goal == \A n \in Managers, t \in Slots :
                     \/ call'[n][t] = call[n][t]
                     \/ Begun(call'[n][t])
                     \/ Served(call[n][t], call'[n][t])
<1>1. ASSUME NEW f \in {"insert", "request"}, NEW k, Post(m, f, k)
      PROVE  Goal
  <2>1. PICK s \in Slots :
          Serve(m, s, [NoCall EXCEPT !.step = f, !.master = master[m], !.failed = k])
    BY <1>1 DEF Post
  <2>2. Begun([NoCall EXCEPT !.step = f, !.master = master[m], !.failed = k])
    BY <1>1 DEF Begun, NoCall
  <2> QED
    BY <2>1, <2>2, ServeEffect
<1>2. ASSUME NEW s \in Slots, Serve(m, s, NoCall)
      PROVE  Goal
  BY <1>2, ServeEffect DEF Served, NoCall
<1>3. CASE Answered(m) /\ TakeAnswer(m)
  BY <1>2, <1>3 DEF Answered, TakeAnswer, TypeOK
<1>4. CASE GiveUp(m)
  BY <1>2, <1>4 DEF GiveUp, TypeOK
<1>5. CASE call' = call
  BY <1>5
<1> QED
  BY <1>1, <1>3, <1>4, <1>5 DEF Loop, HeartbeatStart, ReportAnswered, ReportFails,
     ArbitratorElection, ElectionAnswered, ElectionFails, LostArbitration, HeartbeatEnd, CheckFailed, Failover,
     FailoverRefused, AskFails

(* What a step of the system does to each call. *)
LEMMA CallStep ==
  ASSUME TypeOK, [Next]_vars
  PROVE  \A n \in Managers, t \in Slots :
           \/ call'[n][t] = call[n][t]
           \/ Begun(call'[n][t])
           \/ Served(call[n][t], call'[n][t])
           \/ Won(n, call[n][t], call'[n][t])
<1>1. CASE UNCHANGED vars
  BY <1>1 DEF vars
<1>2. CASE \E m \in Managers, s \in Slots :
             Handler(m, s) \/ DatabaseError(m, s) \/ AnswerDropped(m, s)
  BY <1>2, HandlerCalls
<1>3. CASE \E m \in Managers : Loop(m)
  BY <1>3, LoopCalls
<1>4. ASSUME NEW m \in Managers,
             PeerHeartbeat(m) \/ RowAges(m) \/ ViewChanges(m) \/ Crash(m) \/ Restart(m)
      PROVE  call' = call
  BY <1>4 DEF PeerHeartbeat, RowAges, ViewChanges, Crash, Restart, tableVars
<1>5. ASSUME NEW m \in Managers, NEW p \in Managers, LinkChanges(m, p)
      PROVE  call' = call
  BY <1>5 DEF LinkChanges, tableVars
<1> QED
  BY <1>1, <1>2, <1>3, <1>4, <1>5 DEF Next

(* A manager becomes active only by an answer that says it has won. *)
LEMMA StatusStep ==
  ASSUME TypeOK, [Next]_vars, NEW n \in Managers, status'[n] = "A"
  PROVE  status[n] = "A" \/ \E s \in Slots : call[n][s].won
<1>1. CASE status' = status
  BY <1>1
<1>2. ASSUME NEW m \in Managers, ElectionAnswered(m)
      PROVE  status[n] = "A" \/ \E s \in Slots : call[n][s].won
  <2>1. slot[m] \in Slots
    BY <1>2 DEF ElectionAnswered, Answered, TypeOK
  <2>2. n # m => status'[n] = status[n]
    BY <1>2 DEF ElectionAnswered, TypeOK
  <2>3. n = m => call[m][slot[m]].won
    BY <1>2 DEF ElectionAnswered, Answer, TypeOK
  <2> QED
    BY <2>1, <2>2, <2>3
<1>3. ASSUME NEW m \in Managers, Restart(m)
      PROVE  status[n] = "A"
  BY <1>3 DEF Restart, TypeOK
<1>4. ASSUME NEW m \in Managers, Loop(m), ~ElectionAnswered(m)
      PROVE  status' = status
  BY <1>4 DEF Loop, HeartbeatStart, ReportAnswered, ReportFails, ArbitratorElection,
     ElectionFails, LostArbitration, HeartbeatEnd, CheckFailed, Failover, FailoverRefused, AskFails
<1>5. ASSUME NEW m \in Managers, NEW s \in Slots,
             Handler(m, s) \/ DatabaseError(m, s) \/ AnswerDropped(m, s)
      PROVE  status' = status
  BY <1>5 DEF Handler, WriteHeartbeatInsert, WriteHeartbeatCount, WriteHeartbeatReset,
     RequestArbitration, GetArbitrationMaster, DatabaseError, AnswerDropped, Arbitrated, loopVars
<1>6. ASSUME NEW m \in Managers,
             PeerHeartbeat(m) \/ RowAges(m) \/ ViewChanges(m) \/ Crash(m)
      PROVE  status' = status
  BY <1>6 DEF PeerHeartbeat, RowAges, ViewChanges, Crash, loopVars
<1>7. ASSUME NEW m \in Managers, NEW p \in Managers, LinkChanges(m, p)
      PROVE  status' = status
  BY <1>7 DEF LinkChanges, loopVars
<1>8. CASE UNCHANGED vars
  BY <1>8 DEF vars
<1> QED
  BY <1>1, <1>2, <1>3, <1>4, <1>5, <1>6, <1>7, <1>8 DEF Next

(* Whoever is active, or has a winning answer on the way, has a row at the  *)
(* arbitrator: a request that wins inserts it in the same transaction, and  *)
(* neither reports, resets, ageing, crashes nor restarts remove a row.      *)
THEOREM ActiveRegistered == Spec => []ActiveIsRegistered
<1>1. Init => ActiveIsRegistered
  BY DEF Init, ActiveIsRegistered, NoCall
<1>2. TypeOK /\ ActiveIsRegistered /\ [Next]_vars => ActiveIsRegistered'
  <2> SUFFICES ASSUME TypeOK, ActiveIsRegistered, [Next]_vars, NEW m \in Managers,
                      status'[m] = "A" \/ (\E s \in Slots : call'[m][s].won)
               PROVE  row'[m].status # "none"
    BY DEF ActiveIsRegistered
  <2>1. ASSUME row[m].status # "none" PROVE row'[m].status # "none"
    BY <2>1, RowStep
  <2>2. CASE status'[m] = "A"
    BY <2>1, <2>2, StatusStep DEF ActiveIsRegistered
  <2>3. ASSUME NEW s \in Slots, call'[m][s].won
        PROVE  row'[m].status # "none"
    <3>1. CASE call[m][s].won
      BY <2>1, <3>1 DEF ActiveIsRegistered
    <3>2. CASE ~call[m][s].won
      <4>1. Won(m, call[m][s], call'[m][s])
        BY <2>3, <3>2, CallStep DEF Begun, Served
      <4> QED
        BY <2>3, <4>1 DEF Won
    <3> QED
      BY <3>1, <3>2
  <2> QED
    BY <2>2, <2>3
<1> QED
  BY <1>1, <1>2, TypeCorrect, PTL DEF Spec

--------------------------------------------------------------------------------
(* The count of failing statements never goes down. *)
LEMMA ErrorStep ==
  ASSUME TypeOK, [Next]_vars, spent'["error"] = 0
  PROVE  spent["error"] = 0
<1>1. CASE spent' = spent
  BY <1>1
<1>2. ASSUME NEW e \in Events, Spend(e)
      PROVE  spent["error"] = 0
  BY <1>2 DEF Spend, TypeOK, Events
<1> QED
  BY <1>1, <1>2, SpentStep

(* Without a failing statement a manager is refused only when some other    *)
(* manager has a row: a retry after a lost answer, a second election or the *)
(* question before a failover never loses to the manager's own election.    *)
THEOREM LostToAnother == Spec => []LosesOnlyToAnother
<1>1. Init => LosesOnlyToAnother
  BY DEF Init, LosesOnlyToAnother, At, NoCall
<1>2. TypeOK /\ LosesOnlyToAnother /\ [Next]_vars => LosesOnlyToAnother'
  <2> SUFFICES ASSUME TypeOK, LosesOnlyToAnother, [Next]_vars,
                      NEW m \in Managers, NEW s \in Slots,
                      spent'["error"] = 0, call'[m][s].step = "master", ~call'[m][s].won
               PROVE  \E o \in Managers \ {m} : row'[o].status # "none"
    BY DEF LosesOnlyToAnother, At
  <2>1. ASSUME \E o \in Managers \ {m} : row[o].status # "none"
        PROVE  \E o \in Managers \ {m} : row'[o].status # "none"
    BY <2>1, RowStep
  <2>2. CASE call'[m][s] = call[m][s]
    BY <2>1, <2>2, ErrorStep DEF LosesOnlyToAnother, At
  <2>3. CASE Won(m, call[m][s], call'[m][s])
    <3>1. ~Wins(m, call[m][s].failed)
      BY <2>3 DEF Won
    <3>2. CASE ~(Elected \subseteq {m})
      BY <2>1, <3>2 DEF Elected
    <3>3. CASE LessFailed(m, call[m][s].failed) # {}
      BY <2>1, <3>3 DEF LessFailed
    <3> QED
      BY <3>1, <3>2, <3>3 DEF Wins
  <2> QED
    BY <2>2, <2>3, CallStep DEF Begun, Served
<1> QED
  BY <1>1, <1>2, TypeCorrect, PTL DEF Spec
================================================================================
