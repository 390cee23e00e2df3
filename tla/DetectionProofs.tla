---------------------------- MODULE DetectionProofs -----------------------------
(***************************************************************************)
(* What holds of the detection of failures for every number of servers,    *)
(* every limit of the count and every number of outages.                   *)
(***************************************************************************)
EXTENDS Detection, FiniteSetTheorems, WellFoundedInduction, TLAPS

(* The parts of TypeOK, by the component that owns the state. *)
DbOK    == up \subseteq Servers /\ source \in [Servers -> None]
ViewOK  == State \in [Servers -> States] /\ PrevState \in [Servers -> States] /\ FailCount \in [Servers -> 0..MaxFail + 1]
CacheOK == isSlave \subseteq Servers /\ dumps \subseteq Servers /\ replication \in [Servers -> None]
RoleOK  == master \in None /\ lastmaster \in None /\ orphans \subseteq Servers
ListOK  == slots \in Seq(None) /\ slaves \in 0..Len(slots)
HandlerType == [step : {"off", "elect", "promote", "find", "move", "cut", "demote"},
                key : Nat, len : Nat, at : Nat, old : None]
SmOK    == /\ topology \in BOOLEAN /\ target \in BOOLEAN /\ discovered \in BOOLEAN /\ inFailover \in BOOLEAN
           /\ crashes \subseteq Servers \X Servers /\ missed \subseteq Servers /\ unread \subseteq Servers
           /\ handler \in HandlerType
Places  == {"idle", "connect", "connected", "missed", "blame", "find", "move", "cut", "status",
            "rejoin", "rejoinSlave", "done", "dead"}
RunOK   == /\ pc \in [Servers -> Places] /\ mark \in [Servers -> [len : Nat, at : Nat]]
           /\ tick \in {"idle", "pings", "roles", "check", "panic"}
CountOK == spent \in [Events -> Nat]

(* The index and the length a deleting Ping holds are inside the array,     *)
(* which only shrinks when no Ping runs; Pings only run in their part of    *)
(* the tick; the list FindMaster reads was rebuilt in the same tick.        *)
MarkInside == \A s \in Servers : pc[s] \in {"move", "cut"} =>
                1 <= mark[s].at /\ mark[s].at <= mark[s].len /\ mark[s].len <= Len(slots)
PingsOnly  == /\ tick \notin {"pings", "panic"} => \A s \in Servers : pc[s] = "idle"
              /\ tick = "panic" => \A s \in Servers : pc[s] = "dead"
Rebuilt    == tick = "roles" => \A k \in 1..slaves : slots[k] # nil

(* The flag is up while a handler runs, which changes the master between   *)
(* two servers; what it holds of the list is inside the array too, and is  *)
(* the list itself as long as FindMaster is about to read it.               *)
Flagged  == handler.step # "off" <=> inFailover
Steered  == /\ handler.step \notin {"off", "elect"} => master \in Servers /\ 1 <= handler.key
            /\ handler.step \in {"find", "move", "cut", "demote"} => handler.old \in Servers
Inside   == handler.step \in {"move", "cut"} =>
              /\ 1 <= handler.at /\ handler.at <= handler.len /\ handler.len <= Len(slots)
              /\ tick = "roles" => handler.len = slaves
Handling == Flagged /\ Steered /\ Inside

Sound == TypeOK /\ MarkInside /\ PingsOnly /\ Rebuilt /\ Handling

(* A Ping that counts a failure got no connection.  Without a switchover,   *)
(* the master that is blamed is the server of the Ping.                     *)
Missing == \A s \in Servers : pc[s] \in {"missed", "blame", "find", "move", "cut"} => s \in missed
Blamed  == spent["switch"] = 0 => ~inFailover /\ \A s \in Servers : pc[s] = "blame" => master = s

(* How a server leaves the state Failed, as long as no switchover ran.  A   *)
(* server that is failed was so at the end of its last Ping, or FindMaster  *)
(* has made it the master of a cluster that was down.  Without a topology   *)
(* no Ping leaves a server failed, and only an outage of the whole cluster, *)
(* which lastmaster remembers, ends a topology.  So with no last master a   *)
(* server that its Ping could read is not failed any more.                  *)
Early == {"connect", "connected", "missed"}
Remembered == \A s \in Servers : State[s] = Failed => PrevState[s] \in {Failed, Master}
Led        == topology /\ (tick = "roles" => lastmaster = nil) => master # nil
Unled      == ~topology /\ tick \in {"pings", "roles"} => \A s \in Servers :
                /\ State[s] = Failed => tick = "pings" /\ pc[s] \in Early
                /\ pc[s] # "blame"
PrevFailed == \A s \in Servers : State[s] = Failed =>
                PrevState[s] = Failed \/ (tick = "pings" /\ ~topology /\ pc[s] \in Early)
Reached    == \A s \in Servers :
                s \notin missed \cup unread /\ (pc[s] = "done" \/ tick \in {"roles", "check", "idle"}) => State[s] # Failed
Leaving    == \A s \in Servers : State[s] = Failed =>
                /\ pc[s] = "status" /\ source[s] # nil => s = master \/ s \in unread
                /\ pc[s] = "rejoinSlave" => s = master \/ s \in unread
                /\ pc[s] # "rejoin"
Recent  == Remembered /\ Led /\ Unled /\ Leaving /\ (lastmaster = nil /\ tick # "panic" => PrevFailed /\ Reached)
Settled == spent["switch"] = 0 => Recent

(* With MaxDown = 1 one server at most is out of reach or not yet seen to   *)
(* be back, so one Ping at most deletes from the list, and what others do   *)
(* meanwhile only makes the list longer.  Without an outage no Ping deletes *)
(* and the handler of a switchover does so alone.                           *)
OneOut    == \A a, b \in (Servers \ up) \cup missed : a = b
Untouched == spent["outage"] = 0 => up = Servers /\ missed = {}
Calm      == spent["switch"] = 0 \/ spent["outage"] = 0
NoHole    == tick # "panic" /\ \A k \in 1..slaves : slots[k] # nil
Within    == /\ \A s \in Servers : pc[s] \in {"move", "cut"} => mark[s].len <= slaves
             /\ handler.step \in {"promote", "find"} => handler.key <= slaves
             /\ handler.step \in {"move", "cut"} => handler.len <= slaves
Intact    == OneOut /\ Untouched /\ (Calm => NoHole /\ Within)

--------------------------------------------------------------------------------
(* TypeOK is the conjunction of its parts, in this state. *)
LEMMA Parts == TypeOK <=> DbOK /\ ViewOK /\ CacheOK /\ RoleOK /\ ListOK /\ SmOK /\ RunOK /\ CountOK
BY DEF TypeOK, DbOK, ViewOK, CacheOK, RoleOK, ListOK, SmOK, RunOK, CountOK, Places, HandlerType

(* TypeOK is the conjunction of its parts, in the next state. *)
LEMMA PartsNext == TypeOK' <=> DbOK' /\ ViewOK' /\ CacheOK' /\ RoleOK' /\ ListOK' /\ SmOK' /\ RunOK' /\ CountOK'
BY DEF TypeOK, DbOK, ViewOK, CacheOK, RoleOK, ListOK, SmOK, RunOK, CountOK, Places, HandlerType

(* A set of natural numbers has a least element. *)
LEMMA LeastNumber ==
  ASSUME NEW S \in SUBSET Nat, S # {}
  PROVE  First(S) \in S /\ \A n \in S : First(S) <= n
<1> DEFINE R == {ss \in Nat \X Nat : ss[1] < ss[2]}
<1>1. IsWellFoundedOn(R, Nat)
  BY NatLessThanWellFounded, Zenon DEF OpToRel
<1>2. PICK m \in S : \A n \in S : ~(<<n, m>> \in R)
  BY <1>1, WFMin
<1>3. ASSUME NEW n \in S
      PROVE  m <= n
  <2>1. m \in Nat /\ n \in Nat
    OBVIOUS
  <2>2. n < m => <<n, m>> \in R
    BY <2>1
  <2> QED
    BY <1>2, <2>1, <2>2
<1> QED
  BY <1>3 DEF First

(* The least bound of a set of servers is its greatest element. *)
LEMMA GreatestServer ==
  ASSUME NEW S \in SUBSET Servers, S # {}
  PROVE  Last(S) \in S
<1> DEFINE B == {n \in Nat : \A s \in S : s <= n}
<1>1. N \in B
  BY NAssumption DEF Servers
<1>2. First(B) \in B /\ \A n \in B : First(B) <= n
  BY <1>1, LeastNumber
<1> DEFINE b == First(B)
<1>3. b \in S
  <2> SUFFICES ASSUME b \notin S
               PROVE  FALSE
    OBVIOUS
  <2>1. PICK s \in S : TRUE
    OBVIOUS
  <2>2. b \in Nat /\ \A x \in S : x \in Nat /\ x <= b /\ x # b /\ 1 <= x
    BY <1>2 DEF Servers
  <2>3. b - 1 \in Nat /\ \A x \in S : x <= b - 1
    BY <2>1, <2>2
  <2> QED
    BY <1>2, <2>2, <2>3
<1>4. \A s \in S : b >= s
  BY <1>2 DEF Servers
<1> HIDE DEF b
<1> QED
  BY <1>3, <1>4 DEF Last

(* The first server of a set is one of its servers. *)
LEMMA FirstServer ==
  ASSUME NEW S \in SUBSET Servers, S # {}
  PROVE  First(S) \in S
BY LeastNumber, NAssumption DEF Servers

(* Writing a slot of the array. *)
LEMMA SetSlot ==
  ASSUME NEW q \in Seq(None), NEW k \in 1..Len(q), NEW v \in None
  PROVE  /\ [q EXCEPT ![k] = v] \in Seq(None) /\ Len([q EXCEPT ![k] = v]) = Len(q)
         /\ \A i \in 1..Len(q) : [q EXCEPT ![k] = v][i] = IF i = k THEN v ELSE q[i]
OBVIOUS

(* A counted event keeps the counters natural numbers. *)
LEMMA SpendType ==
  ASSUME CountOK, NEW e \in Events, NEW max, Spend(e, max) \/ UNCHANGED spent
  PROVE  CountOK'
BY DEF CountOK, Spend

(* A statement that succeeds or fails keeps the counters' type. *)
LEMMA OutcomeType ==
  ASSUME CountOK, NEW s, Succeeds(s) \/ Fails(s)
  PROVE  CountOK'
BY SpendType DEF Succeeds, Fails, Events

(* A Ping that moves on moves alone. *)
LEMMA GotoType ==
  ASSUME RunOK, NEW s \in Servers, NEW l \in Places, Goto(s, l)
  PROVE  pc' \in [Servers -> Places] /\ pc'[s] = l /\ \A o \in Servers \ {s} : pc'[o] = pc[o]
BY DEF RunOK, Goto

(* The end of a Ping keeps the types of State and PrevState. *)
LEMMA EndsType ==
  ASSUME ViewOK, NEW s \in Servers, NEW st \in States, Ends(s, st)
  PROVE  State' \in [Servers -> States] /\ PrevState' \in [Servers -> States]
BY DEF ViewOK, Ends

(* The fail count stays within its range. *)
LEMMA CountType ==
  ASSUME ViewOK, NEW s \in Servers
  PROVE  Count(s) \in 0..MaxFail + 1 /\ 0 \in 0..MaxFail + 1
BY MaxFailAssumption DEF ViewOK, Count

(* Steps beside the handler, while the array keeps its length or grows. *)
LEMMA HandlerKept ==
  ASSUME Sound, UNCHANGED <<handler, inFailover>>, ListOK', Len(slots) <= Len(slots'),
         master \in Servers => master' \in Servers,
         tick' # "roles" \/ UNCHANGED <<tick, slaves>>
  PROVE  Handling'
<1>1. ListOK /\ handler \in HandlerType /\ Handling
  BY Parts DEF Sound, SmOK
<1>2. handler.len \in Nat /\ Len(slots) \in Nat /\ Len(slots') \in Nat
  BY <1>1 DEF HandlerType, ListOK
<1>3. Inside'
  BY <1>1, <1>2 DEF Handling, Inside
<1> QED
  BY <1>1, <1>3 DEF Handling, Flagged, Steered

(* Steps while no handler runs. *)
LEMMA HandlerOff ==
  ASSUME Sound, ~inFailover, UNCHANGED <<handler, inFailover>>
  PROVE  Handling'
BY DEF Sound, Handling, Flagged, Steered, Inside

(* A Ping that goes on, with the array as long as before or longer. *)
LEMMA PingGoesOn ==
  ASSUME Sound, NEW s \in Servers, pc[s] \notin {"idle", "dead"},
         NEW l \in Places \ {"move", "cut"}, Goto(s, l),
         UNCHANGED <<mark, tick, handler, inFailover>>, ListOK', Len(slots) <= Len(slots'),
         master \in Servers => master' \in Servers
  PROVE  RunOK' /\ MarkInside' /\ PingsOnly' /\ Rebuilt' /\ Handling'
<1>1. RunOK /\ ListOK
  BY Parts DEF Sound
<1>2. pc' \in [Servers -> Places] /\ pc'[s] = l /\ \A o \in Servers \ {s} : pc'[o] = pc[o]
  BY <1>1, GotoType
<1>3. RunOK'
  BY <1>1, <1>2 DEF RunOK
<1>4. tick' = "pings"
  BY <1>1 DEF Sound, PingsOnly, RunOK
<1>5. MarkInside'
  <2> SUFFICES ASSUME NEW o \in Servers, pc'[o] \in {"move", "cut"}
               PROVE  1 <= mark'[o].at /\ mark'[o].at <= mark'[o].len /\ mark'[o].len <= Len(slots')
    BY DEF MarkInside
  <2>1. o # s /\ pc[o] \in {"move", "cut"}
    BY <1>2
  <2>2. 1 <= mark[o].at /\ mark[o].at <= mark[o].len /\ mark[o].len <= Len(slots)
    BY <2>1 DEF Sound, MarkInside
  <2>3. mark[o].len \in Nat /\ Len(slots) \in Nat /\ Len(slots') \in Nat
    BY <1>1 DEF RunOK, ListOK
  <2> QED
    BY <2>2, <2>3
<1>6. Handling'
  BY <1>4, HandlerKept
<1> QED
  BY <1>3, <1>4, <1>5, <1>6 DEF PingsOnly, Rebuilt

(* A connection that is made, refused or missed keeps Sound. *)
LEMMA MissedSound ==
  ASSUME Sound, NEW s \in Servers, GetNewDBConn(s) \/ AccessDenied(s) \/ PingMissed(s) \/ BlameMaster(s)
  PROVE  Sound'
<1> USE DEF dbVars, viewVars, cacheVars, roleVars, listVars, smVars
<1>1. DbOK /\ ViewOK /\ CacheOK /\ RoleOK /\ ListOK /\ SmOK /\ RunOK /\ CountOK
  BY Parts DEF Sound
<1>2. DbOK' /\ RoleOK' /\ ListOK' /\ UNCHANGED <<slots, mark, tick, handler, inFailover, master>> /\ pc[s] \notin {"idle", "dead"}
  BY <1>1 DEF DbOK, RoleOK, ListOK, GetNewDBConn, AccessDenied, PingMissed, BlameMaster
<1>3. Len(slots) <= Len(slots')
  BY <1>1, <1>2 DEF ListOK
<1>4. \E l \in Places \ {"move", "cut"} : Goto(s, l)
  BY DEF GetNewDBConn, AccessDenied, PingMissed, BlameMaster, Places
<1>5. RunOK' /\ MarkInside' /\ PingsOnly' /\ Rebuilt' /\ Handling'
  BY <1>2, <1>3, <1>4, PingGoesOn
<1>6. ViewOK'
  <2>1. CASE GetNewDBConn(s)
    BY <1>1, <2>1 DEF GetNewDBConn, ViewOK
  <2>2. CASE AccessDenied(s)
    BY <1>1, <2>2 DEF AccessDenied, ViewOK, States
  <2>3. CASE PingMissed(s)
    <3>1. FailCount' \in [Servers -> 0..MaxFail + 1]
      BY <1>1, <2>3, CountType DEF PingMissed, ViewOK
    <3>2. UNCHANGED <<State, PrevState>> \/ \E st \in States : Ends(s, st)
      BY <1>1, <2>3 DEF PingMissed, ViewOK, States
    <3> QED
      BY <1>1, <3>1, <3>2, EndsType DEF ViewOK
  <2>4. CASE BlameMaster(s)
    <3> DEFINE set == [State EXCEPT ![master] = IF FailCount[s] >= MaxFail THEN Failed ELSE Suspect]
    <3>1. set \in [Servers -> States]
      BY <1>1 DEF ViewOK, States
    <3>2. State' = set /\ PrevState' = [PrevState EXCEPT ![s] = set[s]] /\ UNCHANGED FailCount
      BY <2>4 DEF BlameMaster
    <3> HIDE DEF set
    <3> QED
      BY <1>1, <3>1, <3>2 DEF ViewOK
  <2> QED
    BY <2>1, <2>2, <2>3, <2>4
<1>7. CacheOK'
  BY <1>1 DEF CacheOK, None, GetNewDBConn, AccessDenied, PingMissed, BlameMaster
<1>8. SmOK'
  BY <1>1 DEF SmOK, GetNewDBConn, AccessDenied, PingMissed, BlameMaster
<1>9. CountOK'
  BY <1>1, SpendType DEF CountOK, GetNewDBConn, AccessDenied, PingMissed, BlameMaster, Events
<1> QED
  BY <1>2, <1>5, <1>6, <1>7, <1>8, <1>9, PartsNext DEF Sound

(* The end of the process keeps Sound. *)
LEMMA PanicSound ==
  ASSUME Sound, Panic, UNCHANGED <<dbVars, viewVars, cacheVars, roleVars, listVars, smVars, mark, spent>>
  PROVE  Sound'
<1> USE DEF dbVars, viewVars, cacheVars, roleVars, listVars, smVars
<1>1. DbOK /\ ViewOK /\ CacheOK /\ RoleOK /\ ListOK /\ SmOK /\ RunOK /\ CountOK
  BY Parts DEF Sound
<1>2. DbOK' /\ ViewOK' /\ CacheOK' /\ RoleOK' /\ ListOK' /\ SmOK' /\ CountOK'
  BY <1>1 DEF DbOK, ViewOK, CacheOK, RoleOK, ListOK, SmOK, CountOK
<1>3. RunOK' /\ MarkInside' /\ PingsOnly' /\ Rebuilt'
  BY <1>1 DEF Panic, RunOK, MarkInside, PingsOnly, Rebuilt, Places
<1>4. Handling'
  BY DEF Panic, Sound, Handling, Flagged, Steered, Inside
<1> QED
  BY <1>2, <1>3, <1>4, PartsNext DEF Sound

(* The three steps of serverList.delete keep Sound. *)
LEMMA DeleteSound ==
  ASSUME Sound, NEW s \in Servers, DeleteFind(s) \/ DeleteMove(s) \/ DeleteCut(s)
  PROVE  Sound'
<1> USE DEF dbVars, viewVars, cacheVars, roleVars, listVars, smVars
<1>1. DbOK /\ ViewOK /\ CacheOK /\ RoleOK /\ ListOK /\ SmOK /\ RunOK /\ CountOK
  BY Parts DEF Sound
<1>2. DbOK' /\ ViewOK' /\ CacheOK' /\ RoleOK' /\ SmOK' /\ CountOK' /\ pc[s] \notin {"idle", "dead"}
  BY <1>1 DEF DbOK, ViewOK, CacheOK, RoleOK, SmOK, CountOK, DeleteFind, DeleteMove, DeleteCut
<1>3. tick = "pings" /\ UNCHANGED <<handler, inFailover, master>>
  BY <1>1, <1>2 DEF Sound, PingsOnly, RunOK, DeleteFind, DeleteMove, DeleteCut
<1>4. CASE DeleteFind(s)
  <2> DEFINE at == {k \in 1..slaves : slots[k] \in {s, nil}}
  <2>1. ListOK' /\ UNCHANGED slots
    BY <1>1, <1>4 DEF DeleteFind, ListOK
  <2>2. CASE Goto(s, "done") /\ UNCHANGED <<mark, tick>>
    <3>1. RunOK' /\ MarkInside' /\ PingsOnly' /\ Rebuilt' /\ Handling'
      BY <1>1, <1>2, <1>3, <2>1, <2>2, PingGoesOn DEF ListOK, Places
    <3> QED
      BY <1>2, <2>1, <3>1, PartsNext DEF Sound
  <2>3. CASE at # {} /\ Goto(s, "move") /\ mark' = [mark EXCEPT ![s] = [len |-> slaves, at |-> First(at)]] /\ UNCHANGED tick
    <3>1. First(at) \in 1..slaves /\ slaves \in Nat /\ slaves <= Len(slots)
      <4>1. slaves \in Nat /\ slaves <= Len(slots)
        BY <1>1 DEF ListOK
      <4> QED
        BY <2>3, <4>1, LeastNumber
    <3>2. pc' \in [Servers -> Places] /\ pc'[s] = "move" /\ \A o \in Servers \ {s} : pc'[o] = pc[o]
      BY <1>1, <2>3, GotoType DEF Places
    <3> DEFINE m == [len |-> slaves, at |-> First(at)]
    <3>3. m \in [len : Nat, at : Nat] /\ 1 <= m.at /\ m.at <= m.len /\ m.len <= Len(slots)
      BY <3>1
    <3>4. mark' = [mark EXCEPT ![s] = m]
      BY <2>3
    <3> HIDE DEF m
    <3>5. RunOK'
      BY <1>1, <2>3, <3>2, <3>3, <3>4 DEF RunOK
    <3>6. MarkInside'
      BY <1>1, <2>1, <3>2, <3>3, <3>4 DEF Sound, MarkInside, RunOK
    <3>8. Handling'
      BY <1>1, <1>3, <2>1, <2>3, HandlerKept DEF ListOK
    <3>7. PingsOnly' /\ Rebuilt' /\ Handling'
      BY <1>3, <2>3, <3>8 DEF PingsOnly, Rebuilt
    <3> QED
      BY <1>2, <2>1, <3>5, <3>6, <3>7, PartsNext DEF Sound
  <2>4. CASE Panic /\ UNCHANGED mark
    BY <1>4, <2>4, PanicSound DEF DeleteFind
  <2> QED
    BY <1>4, <2>2, <2>3, <2>4 DEF DeleteFind
<1>5. CASE DeleteMove(s) \/ DeleteCut(s)
  <2>1. mark[s].at \in Nat /\ mark[s].len \in Nat /\ Len(slots) \in Nat
        /\ 1 <= mark[s].at /\ mark[s].at <= mark[s].len /\ mark[s].len <= Len(slots)
    BY <1>1, <1>5 DEF Sound, MarkInside, DeleteMove, DeleteCut, RunOK, ListOK
  <2>2. mark[s].at \in 1..Len(slots) /\ mark[s].len \in 1..Len(slots) /\ slots[mark[s].len] \in None /\ nil \in None
    BY <1>1, <2>1 DEF ListOK, None
  <2>3. slots' \in Seq(None) /\ Len(slots') = Len(slots)
    <3>1. slots' = [slots EXCEPT ![mark[s].at] = slots[mark[s].len]] \/ slots' = [slots EXCEPT ![mark[s].len] = nil]
      BY <1>5 DEF DeleteMove, DeleteCut
    <3> QED
      BY <1>1, <2>2, <3>1, SetSlot DEF ListOK
  <2>4. slaves' \in 0..Len(slots)
    BY <1>1, <1>5, <2>1 DEF DeleteMove, DeleteCut, ListOK
  <2>5. ListOK'
    BY <2>3, <2>4 DEF ListOK
  <2>6. UNCHANGED tick
    BY <1>5 DEF DeleteMove, DeleteCut
  <2>7. RunOK' /\ MarkInside'
    <3>1. CASE DeleteMove(s)
      <4>1. pc' \in [Servers -> Places] /\ pc'[s] = "cut" /\ (\A o \in Servers \ {s} : pc'[o] = pc[o]) /\ UNCHANGED mark
            /\ pc[s] = "move"
        BY <1>1, <3>1, GotoType DEF DeleteMove, Places
      <4> QED
        BY <1>1, <2>3, <2>6, <4>1 DEF RunOK, MarkInside, Sound
    <3>2. CASE DeleteCut(s)
      <4>1. pc' \in [Servers -> Places] /\ pc'[s] = "done" /\ (\A o \in Servers \ {s} : pc'[o] = pc[o])
        BY <1>1, <3>2, GotoType DEF DeleteCut, Places
      <4>2. NoMark \in [len : Nat, at : Nat] /\ mark' = [mark EXCEPT ![s] = NoMark]
        BY <3>2 DEF DeleteCut, NoMark
      <4> QED
        BY <1>1, <2>3, <2>6, <4>1, <4>2 DEF RunOK, MarkInside, Sound
    <3> QED
      BY <1>5, <3>1, <3>2
  <2>8. Handling'
    BY <1>1, <1>3, <2>3, <2>5, <2>6, HandlerKept DEF ListOK
  <2> QED
    BY <1>2, <1>3, <2>5, <2>6, <2>7, <2>8, PartsNext DEF Sound, PingsOnly, Rebuilt
<1> QED
  BY <1>4, <1>5

(* What Refresh caches keeps its type. *)
LEMMA RefreshedType ==
  ASSUME CacheOK, DbOK, NEW S \in SUBSET Servers, Refreshed(S)
  PROVE  CacheOK'
BY DEF CacheOK, DbOK, Refreshed, BinlogDumpThreads

(* Refresh and what Ping decides after it keep Sound. *)
LEMMA RefreshSound ==
  ASSUME Sound, NEW s \in Servers, Refresh(s) \/ RefreshFails(s) \/ AfterRefresh(s)
  PROVE  Sound'
<1> USE DEF dbVars, viewVars, roleVars, listVars, smVars
<1>1. DbOK /\ ViewOK /\ CacheOK /\ RoleOK /\ ListOK /\ SmOK /\ RunOK /\ CountOK
  BY Parts DEF Sound
<1>2. RoleOK' /\ ListOK' /\ UNCHANGED <<slots, mark, tick, handler, inFailover, master>> /\ pc[s] \notin {"idle", "dead"}
  BY <1>1 DEF RoleOK, ListOK, Refresh, RefreshFails, AfterRefresh
<1>3. Len(slots) <= Len(slots')
  BY <1>1, <1>2 DEF ListOK
<1>4. \E l \in Places \ {"move", "cut"} : Goto(s, l)
  BY DEF Refresh, RefreshFails, AfterRefresh, Places
<1>5. RunOK' /\ MarkInside' /\ PingsOnly' /\ Rebuilt' /\ Handling'
  BY <1>2, <1>3, <1>4, PingGoesOn
<1>6. SmOK'
  BY <1>1 DEF SmOK, Refresh, RefreshFails, AfterRefresh
<1>7. CountOK'
  <2>1. UNCHANGED spent \/ Succeeds(s) \/ Fails(s)
    BY DEF Refresh, RefreshFails, AfterRefresh
  <2> QED
    BY <1>1, <2>1, OutcomeType DEF CountOK
<1>8. Seen(s) \in States /\ State[s] \in States /\ \A st \in States : CheckReplication(s, st) \in States
  BY <1>1 DEF ViewOK, Seen, CheckReplication, States
<1>9. ASSUME NEW st, Reset(s, st)
      PROVE  FailCount' \in [Servers -> 0..MaxFail + 1]
  BY <1>1, <1>9, CountType DEF Reset, ViewOK
<1>10. CASE Refresh(s)
  <2>1. \E st \in States : State' = [State EXCEPT ![s] = st] /\ (Reset(s, st) \/ UNCHANGED FailCount)
    BY <1>8, <1>10 DEF Refresh
  <2>2. UNCHANGED <<up, source, PrevState>> /\ (UNCHANGED cacheVars \/ Refreshed({s}))
    BY <1>10 DEF Refresh
  <2>3. ViewOK'
    BY <1>1, <1>9, <2>1, <2>2 DEF ViewOK
  <2>4. DbOK' /\ CacheOK'
    <3>1. CASE UNCHANGED cacheVars
      BY <1>1, <2>2, <3>1 DEF DbOK, CacheOK, cacheVars
    <3>2. CASE Refreshed({s})
      BY <1>1, <2>2, <3>2, RefreshedType DEF DbOK
    <3> QED
      BY <2>2, <3>1, <3>2
  <2> QED
    BY <1>2, <1>5, <1>6, <1>7, <2>3, <2>4, PartsNext DEF Sound
<1>11. CASE RefreshFails(s)
  <2>1. /\ UNCHANGED <<up, source>>
        /\ \/ UNCHANGED cacheVars
           \/ /\ BinlogDumpThreads({s})
              /\ isSlave' = isSlave \ {s} /\ replication' = [replication EXCEPT ![s] = nil]
    BY <1>11 DEF RefreshFails
  <2>2. \/ /\ State' = [State EXCEPT ![s] = Seen(s)] /\ UNCHANGED PrevState
           /\ Reset(s, Seen(s)) \/ UNCHANGED FailCount
        \/ Ends(s, State[s]) /\ UNCHANGED FailCount
    BY <1>11 DEF RefreshFails
  <2>3. ViewOK'
    <3>1. CASE Ends(s, State[s]) /\ UNCHANGED FailCount
      BY <1>1, <1>8, <3>1, EndsType DEF ViewOK
    <3>2. CASE State' = [State EXCEPT ![s] = Seen(s)] /\ UNCHANGED PrevState
      BY <1>1, <1>8, <1>9, <2>2, <3>2 DEF ViewOK
    <3> QED
      BY <2>2, <3>1, <3>2
  <2>4. DbOK'
    BY <1>1, <2>1 DEF DbOK
  <2>5. CacheOK'
    <3>1. CASE UNCHANGED cacheVars
      BY <1>1, <3>1 DEF CacheOK, cacheVars
    <3>2. CASE /\ BinlogDumpThreads({s})
               /\ isSlave' = isSlave \ {s} /\ replication' = [replication EXCEPT ![s] = nil]
      BY <1>1, <3>2 DEF CacheOK, BinlogDumpThreads, None
    <3> QED
      BY <2>1, <3>1, <3>2
  <2> QED
    BY <1>2, <1>5, <1>6, <1>7, <2>3, <2>4, <2>5, PartsNext DEF Sound
<1>12. CASE AfterRefresh(s)
  <2>1. DbOK' /\ CacheOK'
    BY <1>1, <1>12 DEF AfterRefresh, DbOK, CacheOK, cacheVars
  <2>2. FailCount' \in [Servers -> 0..MaxFail + 1]
    BY <1>1, <1>12, CountType DEF AfterRefresh, ViewOK
  <2>3. \/ State' = [State EXCEPT ![s] = Unconn] /\ UNCHANGED PrevState
        \/ UNCHANGED <<State, PrevState>>
        \/ \E st \in States : Ends(s, st)
    <3>1. Unconn \in States /\ State[s] \in States
      BY <1>1 DEF ViewOK, States
    <3> QED
      BY <1>12, <3>1 DEF AfterRefresh
  <2>4. ViewOK'
    BY <1>1, <2>2, <2>3, EndsType DEF ViewOK, States
  <2> QED
    BY <1>2, <1>5, <1>6, <1>7, <2>1, <2>4, PartsNext DEF Sound
<1> QED
  BY <1>10, <1>11, <1>12

(* RejoinMaster keeps Sound. *)
LEMMA RejoinSound ==
  ASSUME Sound, NEW s \in Servers, RejoinMaster(s)
  PROVE  Sound'
<1> USE DEF dbVars, viewVars, cacheVars, roleVars, listVars, smVars
<1>1. DbOK /\ ViewOK /\ CacheOK /\ RoleOK /\ ListOK /\ SmOK /\ RunOK /\ CountOK
  BY Parts DEF Sound
<1>2. CacheOK' /\ ListOK' /\ SmOK' /\ UNCHANGED <<up, slots, mark, tick, handler, inFailover>> /\ pc[s] \notin {"idle", "dead"} /\ Goto(s, "done") /\ UNCHANGED FailCount
  BY <1>1 DEF CacheOK, ListOK, SmOK, RejoinMaster, Rejoined
<1>3. Len(slots) <= Len(slots') /\ (master \in Servers => master' \in Servers)
  BY <1>1, <1>2 DEF ListOK, RejoinMaster
<1>4. RunOK' /\ MarkInside' /\ PingsOnly' /\ Rebuilt' /\ Handling'
  BY <1>2, <1>3, PingGoesOn DEF Places
<1>5. ViewOK'
  <2>1. State[s] \in States /\ Master \in States
    BY <1>1 DEF ViewOK, States
  <2>2. \E st \in States : Ends(s, st)
    BY <2>1 DEF RejoinMaster
  <2> QED
    BY <1>1, <1>2, <2>2, EndsType DEF ViewOK
<1>6. RoleOK'
  BY <1>1 DEF RejoinMaster, RoleOK, None
<1>7. DbOK'
  <2>1. UNCHANGED source \/ \E m \in None : source' = [source EXCEPT ![s] = m]
    BY <1>1 DEF RejoinMaster, RoleOK
  <2> QED
    BY <1>1, <1>2, <2>1 DEF DbOK
<1>8. CountOK'
  <2>1. UNCHANGED spent \/ Succeeds(s) \/ Fails(s)
    BY DEF RejoinMaster
  <2> QED
    BY <1>1, <2>1, OutcomeType DEF CountOK
<1> QED
  BY <1>2, <1>4, <1>5, <1>6, <1>7, <1>8, PartsNext DEF Sound

(* Appending a server. *)
LEMMA AppendSlot ==
  ASSUME ListOK, NEW s \in Servers, Append1(s)
  PROVE  /\ ListOK' /\ Len(slots) <= Len(slots') /\ slaves' = slaves + 1
         /\ slots'[slaves + 1] = s /\ \A k \in 1..slaves : slots'[k] = slots[k]
<1>1. slaves \in Nat /\ Len(slots) \in Nat /\ slaves <= Len(slots) /\ slots \in Seq(None) /\ s \in None
  BY DEF ListOK, None
<1>2. CASE slaves < Len(slots)
  <2>1. slaves + 1 \in 1..Len(slots) /\ slots' = [slots EXCEPT ![slaves + 1] = s] /\ slaves' = slaves + 1
    BY <1>1, <1>2 DEF Append1
  <2>2. slots' \in Seq(None) /\ Len(slots') = Len(slots) /\ \A i \in 1..Len(slots) : slots'[i] = IF i = slaves + 1 THEN s ELSE slots[i]
    BY <1>1, <2>1, SetSlot
  <2> QED
    BY <1>1, <1>2, <2>1, <2>2 DEF ListOK
<1>3. CASE slaves = Len(slots)
  <2>1. slots' = Append(slots, s) /\ slaves' = slaves + 1
    BY <1>1, <1>3 DEF Append1
  <2> QED
    BY <1>1, <1>3, <2>1 DEF ListOK
<1> QED
  BY <1>1, <1>2, <1>3

(* rejoinSlave and its append to the list keep Sound. *)
LEMMA RejoinSlaveSound ==
  ASSUME Sound, NEW s \in Servers, rejoinSlave(s)
  PROVE  Sound'
<1> USE DEF dbVars, viewVars, cacheVars, roleVars, listVars, smVars
<1>1. DbOK /\ ViewOK /\ CacheOK /\ RoleOK /\ ListOK /\ SmOK /\ RunOK /\ CountOK
  BY Parts DEF Sound
<1>2. CacheOK' /\ SmOK' /\ RoleOK' /\ UNCHANGED <<up, mark, tick, handler, inFailover, master>> /\ pc[s] \notin {"idle", "dead"} /\ Goto(s, "done")
  BY <1>1 DEF CacheOK, SmOK, RoleOK, rejoinSlave
<1>3. ListOK' /\ Len(slots) <= Len(slots')
  <2>1. UNCHANGED listVars \/ Append1(s)
    BY DEF rejoinSlave
  <2>2. CASE UNCHANGED listVars
    BY <1>1, <2>2 DEF ListOK
  <2> QED
    BY <1>1, <2>1, <2>2, AppendSlot
<1>4. RunOK' /\ MarkInside' /\ PingsOnly' /\ Rebuilt' /\ Handling'
  BY <1>2, <1>3, PingGoesOn DEF Places
<1>5. ViewOK'
  <2>1. State[s] \in States /\ Slave \in States
    BY <1>1 DEF ViewOK, States
  <2>2. \E st \in States : Ends(s, st)
    BY <2>1 DEF rejoinSlave
  <2>3. FailCount' \in [Servers -> 0..MaxFail + 1]
    BY <1>1, CountType DEF rejoinSlave, ViewOK
  <2> QED
    BY <1>1, <2>2, <2>3, EndsType DEF ViewOK
<1>6. DbOK'
  BY <1>1 DEF rejoinSlave, RoleOK, DbOK
<1>7. CountOK'
  <2>1. UNCHANGED spent \/ Succeeds(s) \/ Fails(s)
    BY DEF rejoinSlave
  <2> QED
    BY <1>1, <2>1, OutcomeType DEF CountOK
<1> QED
  BY <1>2, <1>3, <1>4, <1>5, <1>6, <1>7, PartsNext DEF Sound

--------------------------------------------------------------------------------
(* The list the topology is rebuilt from has no empty slot. *)
LEMMA NewList ==
  ASSUME NEW S \in SUBSET Servers, NEW q \in InOrder(S)
  PROVE  Cardinality(S) \in Nat /\ q \in Seq(Servers) /\ q \in Seq(None) /\ Len(q) = Cardinality(S)
         /\ \A k \in 1..Len(q) : q[k] \in Servers /\ q[k] # nil
<1>1. IsFiniteSet(Servers)
  BY NAssumption, FS_Interval DEF Servers
<1>2. Cardinality(S) \in Nat
  BY <1>1, FS_Subset, FS_CardinalityType
<1>3. q \in [1..Cardinality(S) -> S]
  BY DEF InOrder
<1>4. q \in Seq(S) /\ Len(q) = Cardinality(S)
  BY <1>2, <1>3
<1>5. \A k \in 1..Len(q) : q[k] \in Servers
  BY <1>3, <1>4
<1> QED
  BY <1>2, <1>4, <1>5, NAssumption DEF None, nil, Servers

(* The start of a tick and the rebuilding of the list keep Sound. *)
LEMMA TickSound ==
  ASSUME Sound, StartPings \/ NilSlave \/ RebuildTopology
  PROVE  Sound'
<1> USE DEF dbVars, viewVars, cacheVars, roleVars, listVars, smVars
<1>1. DbOK /\ ViewOK /\ CacheOK /\ RoleOK /\ ListOK /\ SmOK /\ RunOK /\ CountOK
  BY Parts DEF Sound
<1>2. CASE StartPings
  <2>1. DbOK' /\ ViewOK' /\ CacheOK' /\ RoleOK' /\ ListOK' /\ SmOK' /\ CountOK'
    BY <1>1, <1>2 DEF DbOK, ViewOK, CacheOK, RoleOK, ListOK, SmOK, CountOK, StartPings
  <2>2. RunOK' /\ MarkInside' /\ PingsOnly' /\ Rebuilt'
    BY <1>1, <1>2 DEF StartPings, RunOK, MarkInside, PingsOnly, Rebuilt, Places
  <2>3. Handling'
    BY <1>1, <1>2, <2>1, HandlerKept DEF StartPings, ListOK
  <2> QED
    BY <2>1, <2>2, <2>3, PartsNext DEF Sound
<1>3. CASE NilSlave
  BY <1>3, PanicSound DEF NilSlave
<1>4. CASE RebuildTopology
  <2>1. CacheOK' /\ SmOK' /\ CountOK'
    BY <1>1, <1>4 DEF CacheOK, SmOK, CountOK, RebuildTopology
  <2>2. pc' = [s \in Servers |-> "idle"] /\ UNCHANGED <<mark, up, source, PrevState, FailCount>> /\ tick' \in {"check", "roles"}
    BY <1>4 DEF RebuildTopology
  <2>3. RunOK' /\ MarkInside' /\ PingsOnly'
    BY <1>1, <2>2 DEF RunOK, MarkInside, PingsOnly, Places
  <2>4. CASE inFailover
    <3>1. DbOK' /\ ViewOK' /\ RoleOK' /\ ListOK' /\ Rebuilt'
      BY <1>1, <1>4, <2>4 DEF RebuildTopology, DbOK, ViewOK, RoleOK, ListOK, Rebuilt
    <3>2. UNCHANGED <<slots, master, handler, inFailover>> /\ tick' # "roles"
      BY <1>4, <2>4 DEF RebuildTopology
    <3>3. Handling'
      BY <1>1, <3>1, <3>2, HandlerKept DEF ListOK
    <3> QED
      BY <2>1, <2>3, <3>1, <3>3, PartsNext DEF Sound
  <2>5. CASE ~inFailover
    <3>1. slots' \in InOrder(NewSlaves) /\ slaves' = Cardinality(NewSlaves)
      BY <1>4, <2>5 DEF RebuildTopology
    <3>2. ListOK' /\ Rebuilt'
      <4>1. NewSlaves \in SUBSET Servers
        BY DEF NewSlaves
      <4>2. /\ slaves' \in Nat /\ slots' \in Seq(None) /\ Len(slots') = slaves'
            /\ \A k \in 1..Len(slots') : slots'[k] # nil
        BY <3>1, <4>1, NewList
      <4> QED
        BY <4>2 DEF ListOK, Rebuilt
    <3>3. Chosen \subseteq Servers
      <4>1. Leaders \subseteq Servers
        BY DEF Leaders
      <4> QED
        BY <4>1, FirstServer DEF Chosen
    <3> DEFINE found == IF Chosen # {} THEN Last(Chosen) ELSE Known
               named == {s \in Servers : \A k \in 1..slaves' : replication[slots'[k]] = s}
               extra == IF found = nil /\ target /\ slaves' > 0 THEN named ELSE {}
    <3>4. found \in None
      BY <1>1, <3>3, GreatestServer DEF Known, RoleOK, None
    <3>5. extra \subseteq Servers /\ (extra # {} => First(extra) \in Servers)
      BY FirstServer
    <3>6. /\ master' = IF extra # {} THEN First(extra) ELSE found
          /\ State' = [s \in Servers |-> IF s \in Chosen \cup extra THEN Master ELSE State[s]]
          /\ orphans' = IF Chosen \cup extra # {} THEN {} ELSE orphans
          /\ lastmaster' = IF Forget THEN master ELSE lastmaster
      BY <1>4, <2>5 DEF RebuildTopology
    <3> HIDE DEF found, extra
    <3>7. RoleOK'
      BY <1>1, <3>4, <3>5, <3>6 DEF RoleOK, None
    <3>8. ViewOK'
      BY <1>1, <2>2, <3>6 DEF ViewOK, States
    <3>9. DbOK'
      BY <1>1, <2>2, <3>6 DEF DbOK
    <3>10. Handling'
      BY <1>4, <2>5, HandlerOff DEF RebuildTopology
    <3> QED
      BY <2>1, <2>3, <3>2, <3>7, <3>8, <3>9, <3>10, PartsNext DEF Sound
  <2> QED
    BY <2>4, <2>5
<1> QED
  BY <1>2, <1>3, <1>4

(* The server the first slave replicates from. *)
LEMMA SidType ==
  ASSUME Sound, tick = "roles"
  PROVE  Sid \in None
<1>1. CASE slaves > 0
  <2>1. slots[1] \in Servers
    BY <1>1, Parts DEF Sound, Rebuilt, ListOK, None
  <2> QED
    BY <1>1, <2>1, Parts DEF Sound, Sid, CacheOK
<1>2. CASE ~(slaves > 0)
  BY <1>2 DEF Sid, None
<1> QED
  BY <1>1, <1>2

(* The second half of TopologyDiscover keeps Sound. *)
LEMMA FindMasterSound ==
  ASSUME Sound, FindMaster
  PROVE  Sound'
<1> USE DEF dbVars, viewVars, cacheVars, roleVars, listVars, smVars
<1>1. DbOK /\ ViewOK /\ CacheOK /\ RoleOK /\ ListOK /\ SmOK /\ RunOK /\ CountOK
  BY Parts DEF Sound
<1>2. CacheOK' /\ ListOK' /\ CountOK' /\ RunOK' /\ MarkInside' /\ PingsOnly' /\ Rebuilt'
  <2>1. CacheOK' /\ ListOK' /\ CountOK' /\ RunOK'
    BY <1>1 DEF CacheOK, ListOK, CountOK, RunOK, FindMaster
  <2>2. MarkInside' /\ PingsOnly' /\ Rebuilt'
    BY DEF FindMaster, Sound, MarkInside, PingsOnly, Rebuilt
  <2> QED
    BY <2>1, <2>2
<1> DEFINE back == Sid # nil /\ State[Sid] = Unconn
           lost == master = nil /\ ~back /\ FailedMasterDiscovery
           m == IF back \/ lost THEN Sid ELSE master
           fix == IF m \in Elected THEN Astray(m) \cap up ELSE {}
<1>3. m \in None /\ (back \/ lost => m \in Servers)
  BY <1>1, SidType DEF RoleOK, FindMaster, FailedMasterDiscovery, None
<1>4. fix \subseteq Servers /\ (fix # {} => m \in Servers)
  <2>1. Elected \subseteq Servers
    BY <1>1 DEF SmOK, Elected
  <2> QED
    BY <2>1 DEF Astray
<1>5. /\ master' = m
      /\ State' = IF back THEN [State EXCEPT ![m] = Master] ELSE State
      /\ PrevState' = IF lost THEN [PrevState EXCEPT ![m] = Master] ELSE PrevState
      /\ orphans' = IF back THEN {} ELSE orphans
      /\ source' = [s \in Servers |-> IF s \in fix THEN m ELSE source[s]]
      /\ topology' = (m # nil)
      /\ target' = (target \/ m # nil)
      /\ discovered' = (discovered \/ (m # nil /\ slaves > 0 /\ Leaders \subseteq {m} /\ Astray(m) = {} /\ ~IsFailed(m)))
      /\ UNCHANGED <<up, FailCount, lastmaster, inFailover, crashes, missed, unread, handler, slots>> /\ tick' = "check"
  BY DEF FindMaster
<1>10. m # nil \/ master = nil
  OBVIOUS
<1> HIDE DEF m, back, lost, fix
<1>6. DbOK'
  BY <1>1, <1>3, <1>4, <1>5 DEF DbOK
<1>7. ViewOK'
  BY <1>1, <1>5 DEF ViewOK, States
<1>8. RoleOK'
  BY <1>1, <1>3, <1>5 DEF RoleOK
<1>9. SmOK'
  BY <1>1, <1>5 DEF SmOK
<1>11. Handling'
  <2>1. master \in Servers => master' \in Servers
    BY <1>3, <1>5, <1>10, NAssumption DEF None, nil, Servers
  <2> QED
    BY <1>1, <1>2, <1>5, <2>1, HandlerKept DEF ListOK
<1> QED
  BY <1>2, <1>6, <1>7, <1>8, <1>9, <1>11, PartsNext DEF Sound

(* serverList.delete in one step. *)
LEMMA WithoutType ==
  ASSUME ListOK, NEW c \in Servers, NEW k \in 1..slaves, slots[k] = c
  PROVE  /\ slaves \in 1..Len(slots) /\ Place(c) \in 1..slaves
         /\ Without(c) \in Seq(None) /\ Len(Without(c)) = Len(slots)
         /\ \A i \in 1..Len(slots) : Without(c)[i] = IF i = slaves THEN nil ELSE IF i = Place(c) THEN slots[slaves] ELSE slots[i]
<1>1. slaves \in 1..Len(slots) /\ slots \in Seq(None)
  BY DEF ListOK
<1>2. Place(c) \in 1..slaves
  <2> DEFINE K == {i \in 1..slaves : slots[i] = c}
  <2>1. K \in SUBSET Nat /\ K # {}
    OBVIOUS
  <2>2. First(K) \in K
    BY <2>1, LeastNumber
  <2> QED
    BY <2>2 DEF Place
<1> DEFINE q == [slots EXCEPT ![Place(c)] = slots[slaves]]
<1>3. q \in Seq(None) /\ Len(q) = Len(slots) /\ \A i \in 1..Len(slots) : q[i] = IF i = Place(c) THEN slots[slaves] ELSE slots[i]
  <2>1. Place(c) \in 1..Len(slots) /\ slots[slaves] \in None
    BY <1>1, <1>2
  <2> QED
    BY <1>1, <2>1, SetSlot
<1>4. Without(c) = [q EXCEPT ![slaves] = nil]
  BY DEF Without
<1> HIDE DEF q
<1>5. Without(c) \in Seq(None) /\ Len(Without(c)) = Len(slots)
      /\ \A i \in 1..Len(slots) : Without(c)[i] = IF i = slaves THEN nil ELSE q[i]
  <2>1. nil \in None /\ slaves \in 1..Len(q)
    BY <1>1, <1>3 DEF None
  <2> QED
    BY <1>3, <1>4, <2>1, SetSlot
<1> QED
  BY <1>1, <1>2, <1>3, <1>5

(* CheckFailed and the failover it starts keep Sound. *)
LEMMA CheckFailedSound ==
  ASSUME Sound, CheckFailed
  PROVE  Sound'
<1> USE DEF dbVars, viewVars, cacheVars, roleVars, listVars, smVars
<1>1. DbOK /\ ViewOK /\ CacheOK /\ RoleOK /\ ListOK /\ SmOK /\ RunOK /\ CountOK
  BY Parts DEF Sound
<1>2. CacheOK' /\ RunOK' /\ PingsOnly' /\ Rebuilt' /\ UNCHANGED <<up, PrevState, lastmaster, pc, mark>>
      /\ UNCHANGED <<topology, target, discovered, inFailover, missed, unread, handler>> /\ tick' = "idle"
  BY <1>1 DEF CacheOK, RunOK, PingsOnly, Rebuilt, CheckFailed, Sound
<1>3. MarkInside'
  BY <1>2 DEF CheckFailed, Sound, PingsOnly, MarkInside
<1>4. CASE UNCHANGED <<master, orphans, State, FailCount, source, crashes, listVars, spent>>
  <2>1. DbOK' /\ ViewOK' /\ RoleOK' /\ ListOK' /\ SmOK' /\ CountOK'
    BY <1>1, <1>2, <1>4 DEF DbOK, ViewOK, RoleOK, ListOK, SmOK, CountOK
  <2>2. Handling'
    BY <1>1, <1>2, <1>4, <2>1, HandlerKept DEF ListOK
  <2> QED
    BY <1>2, <1>3, <2>1, <2>2, PartsNext DEF Sound
<1>5. ASSUME ~inFailover, NEW c \in Candidates, NEW moved \in SUBSET Servers, master # nil,
             MovedBy(c, moved), Promote(c, moved, master), slots' = Without(c), slaves' = slaves - 1
      PROVE  Sound'
  <2>1. c \in Servers /\ \E k \in 1..slaves : slots[k] = c
    BY <1>1 DEF Candidates, DbOK
  <2>2. master \in Servers
    BY <1>1, <1>5 DEF RoleOK, None
  <2>3. ListOK'
    BY <1>1, <1>5, <2>1, WithoutType DEF ListOK
  <2>4. DbOK'
    BY <1>1, <1>2, <1>5, <2>1 DEF DbOK, Promote, None
  <2>5. ViewOK'
    BY <1>1, <1>2, <1>5, <2>1, CountType DEF ViewOK, Promote, States
  <2>6. RoleOK'
    BY <1>1, <1>2, <1>5, <2>1 DEF RoleOK, Promote, None
  <2>7. SmOK'
    BY <1>1, <1>2, <1>5, <2>1, <2>2 DEF SmOK, Promote
  <2>8. CountOK'
    BY <1>1, <1>5, SpendType DEF MovedBy, Events
  <2>9. Handling'
    BY <1>2, <1>5, HandlerOff
  <2> QED
    BY <1>2, <1>3, <2>3, <2>4, <2>5, <2>6, <2>7, <2>8, <2>9, PartsNext DEF Sound
<1> QED
  BY <1>4, <1>5 DEF CheckFailed

(* The start of a switchover keeps Sound. *)
LEMMA BeginsSound ==
  ASSUME Sound, SwitchoverBegins
  PROVE  Sound'
<1> USE DEF dbVars, viewVars, cacheVars, roleVars, listVars
<1>1. DbOK /\ ViewOK /\ CacheOK /\ RoleOK /\ ListOK /\ SmOK /\ RunOK /\ CountOK
  BY Parts DEF Sound
<1>2. DbOK' /\ ViewOK' /\ CacheOK' /\ RoleOK' /\ ListOK' /\ RunOK'
  BY <1>1 DEF DbOK, ViewOK, CacheOK, RoleOK, ListOK, RunOK, SwitchoverBegins
<1>3. MarkInside' /\ PingsOnly' /\ Rebuilt'
  BY DEF SwitchoverBegins, Sound, MarkInside, PingsOnly, Rebuilt
<1>4. handler' = [handler EXCEPT !.step = "elect"] /\ inFailover' = TRUE /\ handler \in HandlerType
      /\ UNCHANGED <<topology, target, discovered, crashes, missed, unread>>
  BY <1>1 DEF SwitchoverBegins, SmOK
<1>5. handler' \in HandlerType /\ handler'.step = "elect"
  BY <1>4 DEF HandlerType
<1>6. SmOK' /\ Handling'
  BY <1>1, <1>4, <1>5 DEF SmOK, Handling, Flagged, Steered, Inside
<1>7. CountOK'
  BY <1>1, SpendType DEF SwitchoverBegins, Events
<1> QED
  BY <1>2, <1>3, <1>6, <1>7, PartsNext DEF Sound

(* The end of a switchover, reached or given up. *)
LEMMA OverType ==
  ASSUME Over
  PROVE  handler' \in HandlerType /\ inFailover' \in BOOLEAN /\ Handling'
<1>1. NoSwitchover \in HandlerType /\ NoSwitchover.step = "off"
  BY DEF NoSwitchover, HandlerType, None
<1> QED
  BY <1>1 DEF Over, Handling, Flagged, Steered, Inside

(* The elected index, when there is an element. *)
LEMMA KeptElected ==
  ASSUME Sound, handler.step \in {"promote", "find"}, ~Gone
  PROVE  handler.key \in 1..slaves /\ slots[handler.key] \in Servers
<1>1. ListOK /\ handler \in HandlerType /\ 1 <= handler.key
  BY Parts DEF Sound, SmOK, Handling, Steered
<1>2. handler.key \in Nat /\ slaves \in Nat /\ slaves <= Len(slots) /\ Len(slots) \in Nat /\ handler.key <= slaves
  BY <1>1 DEF HandlerType, ListOK, Gone
<1>3. handler.key \in 1..slaves /\ handler.key \in 1..Len(slots)
  BY <1>1, <1>2
<1>4. slots[handler.key] \in None
  BY <1>1, <1>3 DEF ListOK
<1> QED
  BY <1>3, <1>4 DEF Gone, None

(* What the steps of a switchover before its end have in common. *)
LEMMA SwitchoverStep ==
  ASSUME Sound, SwitchoverElects \/ SwitchoverPromotes \/ SwitchoverFinds \/ SwitchoverDeletes, ~Panic
  PROVE  /\ UNCHANGED <<up, source, PrevState, FailCount, lastmaster, pc, mark, tick, spent>>
         /\ UNCHANGED <<topology, target, discovered, crashes, missed, unread>>
         /\ DbOK' /\ RunOK' /\ CountOK' /\ PingsOnly' /\ tick # "panic"
<1> USE DEF dbVars, viewVars, cacheVars, roleVars, listVars
<1>1. DbOK /\ RunOK /\ CountOK
  BY Parts DEF Sound
<1>2. /\ UNCHANGED <<up, source, PrevState, FailCount, lastmaster, pc, mark, tick, spent>>
      /\ UNCHANGED <<topology, target, discovered, crashes, missed, unread>> /\ tick # "panic"
  BY DEF SwitchoverElects, SwitchoverPromotes, SwitchoverFinds, SwitchoverDeletes, At
<1> QED
  BY <1>1, <1>2 DEF DbOK, RunOK, CountOK, PingsOnly, Sound

(* A handler that meets an empty slot, or none, ends the manager. *)
LEMMA SwitchoverPanics ==
  ASSUME Sound, Switchover, Panic
  PROVE  Sound'
<1> USE DEF dbVars, viewVars, cacheVars, roleVars, listVars, smVars
<1>1. tick' = "panic" /\ tick # "panic"
  BY DEF Panic, Switchover, SwitchoverElects, SwitchoverPromotes, SwitchoverFinds, SwitchoverDeletes, SwitchoverEnds, At
<1>2. UNCHANGED <<dbVars, viewVars, cacheVars, roleVars, listVars, smVars, mark, spent>>
  BY <1>1 DEF Switchover, SwitchoverElects, SwitchoverPromotes, SwitchoverFinds, SwitchoverDeletes, SwitchoverEnds
<1> QED
  BY <1>2, PanicSound

(* The election of a switchover keeps Sound. *)
LEMMA ElectsSound ==
  ASSUME Sound, SwitchoverElects, ~Panic
  PROVE  Sound'
<1> USE DEF dbVars, viewVars, roleVars, listVars
<1>1. DbOK /\ ViewOK /\ CacheOK /\ RoleOK /\ ListOK /\ SmOK /\ RunOK /\ CountOK
  BY Parts DEF Sound
<1>2. DbOK' /\ RunOK' /\ CountOK' /\ PingsOnly' /\ UNCHANGED <<topology, target, discovered, crashes, missed, unread, pc, mark, tick>>
  BY SwitchoverStep
<1>3. ViewOK' /\ RoleOK' /\ ListOK' /\ UNCHANGED <<master, slots, slaves>>
  BY <1>1 DEF ViewOK, RoleOK, ListOK, SwitchoverElects
<1>4. MarkInside' /\ Rebuilt'
  BY <1>2, <1>3 DEF Sound, MarkInside, Rebuilt
<1>5. CacheOK'
  <2>1. CASE UNCHANGED cacheVars
    BY <1>1, <2>1 DEF CacheOK, cacheVars
  <2>2. CASE Refreshed(Listed \cap up)
    <3>1. Listed \cap up \in SUBSET Servers
      BY <1>1 DEF DbOK
    <3> QED
      BY <1>1, <2>2, <3>1, RefreshedType
  <2> QED
    BY <2>1, <2>2 DEF SwitchoverElects
<1>6. handler' \in HandlerType /\ inFailover' \in BOOLEAN /\ Handling'
  <2>1. CASE Over
    BY <2>1, OverType
  <2>2. ASSUME NEW k \in 1..slaves, handler' = [handler EXCEPT !.step = "promote", !.key = k],
               master \in up, UNCHANGED inFailover
        PROVE  handler' \in HandlerType /\ inFailover' \in BOOLEAN /\ Handling'
    <3>1. k \in Nat /\ 1 <= k
      BY <1>1 DEF ListOK
    <3>2. handler \in HandlerType /\ inFailover \in BOOLEAN
      BY <1>1 DEF SmOK
    <3>3. handler' \in HandlerType /\ handler'.step = "promote" /\ handler'.key = k
      BY <2>2, <3>1, <3>2 DEF HandlerType
    <3>4. Flagged' /\ master' \in Servers
      BY <1>1, <1>3, <2>2, <3>3 DEF Sound, Handling, Flagged, SwitchoverElects, At, DbOK
    <3> QED
      BY <2>2, <3>1, <3>2, <3>3, <3>4 DEF Handling, Steered, Inside
  <2>3. Over \/ \E k \in 1..slaves : /\ handler' = [handler EXCEPT !.step = "promote", !.key = k]
                                     /\ master \in up /\ UNCHANGED inFailover
    BY DEF SwitchoverElects
  <2> QED
    BY <2>1, <2>2, <2>3
<1>7. SmOK'
  BY <1>1, <1>2, <1>6 DEF SmOK
<1> QED
  BY <1>2, <1>3, <1>4, <1>5, <1>6, <1>7, PartsNext DEF Sound

(* The new master and the server to delete, read by the elected index. *)
LEMMA PromotesSound ==
  ASSUME Sound, SwitchoverPromotes \/ SwitchoverFinds, ~Panic
  PROVE  Sound'
<1> USE DEF dbVars, viewVars, cacheVars, roleVars, listVars
<1>1. DbOK /\ ViewOK /\ CacheOK /\ RoleOK /\ ListOK /\ SmOK /\ RunOK /\ CountOK
  BY Parts DEF Sound
<1>2. DbOK' /\ RunOK' /\ CountOK' /\ PingsOnly'
      /\ UNCHANGED <<PrevState, FailCount, lastmaster, topology, target, discovered, crashes, missed, unread, pc, mark, tick>>
  BY SwitchoverStep
<1>3. CacheOK' /\ ListOK' /\ UNCHANGED <<slots, slaves, inFailover>>
  BY <1>1 DEF CacheOK, ListOK, SwitchoverPromotes, SwitchoverFinds
<1>4. MarkInside' /\ Rebuilt'
  BY <1>2, <1>3 DEF Sound, MarkInside, Rebuilt
<1>5. handler \in HandlerType /\ inFailover \in BOOLEAN /\ Handling
  BY <1>1 DEF SmOK, Sound
<1>6. CASE SwitchoverPromotes
  <2>1. ~Gone /\ handler.step = "promote"
    BY <1>6 DEF SwitchoverPromotes, At
  <2>2. slots[handler.key] \in Servers /\ master \in Servers /\ 1 <= handler.key
    BY <1>5, <2>1, KeptElected DEF Handling, Steered
  <2>3. /\ master' = slots[handler.key] /\ orphans' = {} /\ State' = [State EXCEPT ![master'] = Master]
        /\ handler' = [handler EXCEPT !.step = "find", !.old = master]
    BY <1>6, <2>1 DEF SwitchoverPromotes
  <2>4. handler' \in HandlerType /\ handler'.step = "find" /\ handler'.old = master /\ handler'.key = handler.key
    BY <1>5, <2>2, <2>3 DEF HandlerType, None
  <2>5. ViewOK' /\ RoleOK'
    BY <1>1, <1>2, <2>2, <2>3 DEF ViewOK, RoleOK, States, None
  <2>6. SmOK' /\ Handling'
    BY <1>1, <1>2, <1>3, <1>5, <2>1, <2>2, <2>3, <2>4 DEF SmOK, Handling, Flagged, Steered, Inside
  <2> QED
    BY <1>2, <1>3, <1>4, <2>5, <2>6, PartsNext DEF Sound
<1>7. CASE SwitchoverFinds
  <2> DEFINE K == {k \in 1..slaves : slots[k] \in {slots[handler.key], nil}}
             at == First(K)
  <2>1. ~Gone /\ handler.step = "find" /\ handler' = [handler EXCEPT !.step = "move", !.len = slaves, !.at = at]
        /\ UNCHANGED <<State, master, orphans>>
    BY <1>7 DEF SwitchoverFinds, At
  <2>2. handler.key \in 1..slaves /\ master \in Servers /\ handler.old \in Servers /\ 1 <= handler.key
    BY <1>5, <2>1, KeptElected DEF Handling, Steered
  <2>3. slaves \in Nat /\ slaves <= Len(slots)
    BY <1>1 DEF ListOK
  <2>4. at \in Nat /\ 1 <= at /\ at <= slaves
    <3>1. K \in SUBSET Nat /\ handler.key \in K
      BY <2>2, <2>3
    <3>2. at \in K
      BY <3>1, LeastNumber
    <3> QED
      BY <2>3, <3>2
  <2> HIDE DEF at
  <2>5. handler' \in HandlerType /\ handler'.step = "move" /\ handler'.len = slaves /\ handler'.at = at
        /\ handler'.key = handler.key /\ handler'.old = handler.old
    BY <1>5, <2>1, <2>3, <2>4 DEF HandlerType
  <2>6. ViewOK' /\ RoleOK'
    BY <1>1, <1>2, <2>1 DEF ViewOK, RoleOK
  <2>7. SmOK'
    BY <1>1, <1>2, <1>3, <2>5 DEF SmOK
  <2>8. Handling'
    BY <1>3, <1>5, <2>1, <2>2, <2>3, <2>4, <2>5 DEF Handling, Flagged, Steered, Inside
  <2> QED
    BY <1>2, <1>3, <1>4, <2>6, <2>7, <2>8, PartsNext DEF Sound
<1> QED
  BY <1>6, <1>7

(* The delete of the handler keeps Sound. *)
LEMMA DeletesSound ==
  ASSUME Sound, SwitchoverDeletes, ~Panic
  PROVE  Sound'
<1> USE DEF dbVars, viewVars, cacheVars, roleVars
<1>1. DbOK /\ ViewOK /\ CacheOK /\ RoleOK /\ ListOK /\ SmOK /\ RunOK /\ CountOK
  BY Parts DEF Sound
<1>2. DbOK' /\ RunOK' /\ CountOK' /\ PingsOnly'
      /\ UNCHANGED <<topology, target, discovered, crashes, missed, unread, pc, mark, tick>>
  BY SwitchoverStep
<1>3. ViewOK' /\ CacheOK' /\ RoleOK' /\ UNCHANGED <<master, inFailover>>
  BY <1>1 DEF ViewOK, CacheOK, RoleOK, SwitchoverDeletes
<1>4. handler \in HandlerType /\ inFailover \in BOOLEAN /\ Handling
  BY <1>1 DEF SmOK, Sound
<1>5. /\ handler.at \in Nat /\ handler.len \in Nat /\ Len(slots) \in Nat /\ slaves \in Nat /\ slaves <= Len(slots)
      /\ 1 <= handler.at /\ handler.at <= handler.len /\ handler.len <= Len(slots)
      /\ tick = "roles" => handler.len = slaves
  BY <1>1, <1>4 DEF HandlerType, ListOK, SwitchoverDeletes, At, Handling, Inside
<1>6. /\ handler.at \in 1..Len(slots) /\ handler.len \in 1..Len(slots)
      /\ slots[handler.len] \in None /\ nil \in None
  BY <1>1, <1>5 DEF ListOK, None
<1>7. CASE slots' = [slots EXCEPT ![handler.at] = slots[handler.len]] /\ UNCHANGED slaves
           /\ handler.step = "move" /\ handler' = [handler EXCEPT !.step = "cut"]
  <2>1. slots' \in Seq(None) /\ Len(slots') = Len(slots)
        /\ \A i \in 1..Len(slots) : slots'[i] = IF i = handler.at THEN slots[handler.len] ELSE slots[i]
    BY <1>1, <1>6, <1>7, SetSlot DEF ListOK
  <2>2. ListOK' /\ MarkInside'
    BY <1>1, <1>2, <1>7, <2>1 DEF ListOK, Sound, MarkInside
  <2>3. Rebuilt'
    BY <1>2, <1>5, <1>7, <2>1 DEF Sound, Rebuilt
  <2>4. handler' \in HandlerType /\ handler'.step = "cut" /\ handler'.len = handler.len /\ handler'.at = handler.at
        /\ handler'.key = handler.key /\ handler'.old = handler.old
    BY <1>4, <1>7 DEF HandlerType
  <2>5. SmOK' /\ Handling'
    BY <1>1, <1>2, <1>3, <1>4, <1>5, <1>7, <2>1, <2>4 DEF SmOK, Handling, Flagged, Steered, Inside
  <2> QED
    BY <1>2, <1>3, <2>2, <2>3, <2>5, PartsNext DEF Sound
<1>8. CASE slots' = [slots EXCEPT ![handler.len] = nil] /\ slaves' = handler.len - 1
           /\ handler.step = "cut" /\ handler' = [handler EXCEPT !.step = "demote"]
  <2>1. slots' \in Seq(None) /\ Len(slots') = Len(slots)
        /\ \A i \in 1..Len(slots) : slots'[i] = IF i = handler.len THEN nil ELSE slots[i]
    BY <1>1, <1>6, <1>8, SetSlot DEF ListOK
  <2>2. ListOK' /\ MarkInside'
    BY <1>1, <1>2, <1>5, <1>8, <2>1 DEF ListOK, Sound, MarkInside
  <2>3. Rebuilt'
    BY <1>2, <1>5, <1>8, <2>1 DEF Sound, Rebuilt
  <2>4. handler' \in HandlerType /\ handler'.step = "demote" /\ handler'.key = handler.key /\ handler'.old = handler.old
    BY <1>4, <1>8 DEF HandlerType
  <2>5. SmOK' /\ Handling'
    BY <1>1, <1>2, <1>3, <1>4, <1>8, <2>4 DEF SmOK, Handling, Flagged, Steered, Inside
  <2> QED
    BY <1>2, <1>3, <2>2, <2>3, <2>5, PartsNext DEF Sound
<1> QED
  BY <1>7, <1>8 DEF SwitchoverDeletes, At

(* The end of a switchover keeps Sound. *)
LEMMA EndsSound ==
  ASSUME Sound, SwitchoverEnds, ~Panic
  PROVE  Sound'
<1> USE DEF roleVars
<1>1. DbOK /\ ViewOK /\ CacheOK /\ RoleOK /\ ListOK /\ SmOK /\ RunOK /\ CountOK
  BY Parts DEF Sound
<1> DEFINE old == handler.old
<1>2. master \in Servers /\ old \in Servers /\ tick # "panic"
  BY DEF SwitchoverEnds, At, Sound, Handling, Steered
<1>3. PICK moved \in SUBSET Servers :
        /\ UNCHANGED spent \/ Spend("error", MaxError)
        /\ source' = [s \in Servers |-> IF s \notin up \cap ({master, old} \cup moved) THEN source[s]
                                        ELSE IF s = master THEN nil ELSE master]
        /\ State' = [State EXCEPT ![old] = Slave]
        /\ FailCount' = [FailCount EXCEPT ![master] = 0]
        /\ isSlave' = isSlave \ (up \cap {master})
        /\ replication' = [s \in Servers |-> IF s \in up \cap {master} THEN nil ELSE replication[s]]
        /\ crashes' = crashes \cup {<<old, master>>}
        /\ Append1(old)
  <2>1. up \subseteq Servers
    BY <1>1 DEF DbOK
  <2> QED
    BY <2>1 DEF SwitchoverEnds
<1>4. Over /\ ~Holed /\ UNCHANGED <<up, PrevState, dumps, master, lastmaster, orphans, topology, target, discovered, missed, unread, mark, pc, tick>>
  BY DEF SwitchoverEnds
<1> HIDE DEF old
<1>5. ListOK' /\ Len(slots) <= Len(slots') /\ slaves' = slaves + 1
      /\ slots'[slaves + 1] = old /\ \A k \in 1..slaves : slots'[k] = slots[k]
  BY <1>1, <1>2, <1>3, AppendSlot
<1>6. MarkInside'
  <2> SUFFICES ASSUME NEW o \in Servers, pc'[o] \in {"move", "cut"}
               PROVE  1 <= mark'[o].at /\ mark'[o].at <= mark'[o].len /\ mark'[o].len <= Len(slots')
    BY DEF MarkInside
  <2>1. 1 <= mark[o].at /\ mark[o].at <= mark[o].len /\ mark[o].len <= Len(slots)
    BY <1>4 DEF Sound, MarkInside
  <2>2. mark[o].len \in Nat /\ Len(slots) \in Nat /\ Len(slots') \in Nat
    BY <1>1, <1>5 DEF RunOK, ListOK
  <2> QED
    BY <1>4, <1>5, <2>1, <2>2
<1>7. Rebuilt'
  <2> SUFFICES ASSUME NEW k \in 1..slaves'
               PROVE  slots'[k] # nil
    BY DEF Rebuilt
  <2>1. slaves \in Nat
    BY <1>1 DEF ListOK
  <2>2. k \in 1..slaves \/ k = slaves + 1
    BY <1>5, <2>1
  <2>3. old # nil
    BY <1>2, NAssumption DEF Servers, nil
  <2> QED
    BY <1>4, <1>5, <2>2, <2>3 DEF Holed
<1>8. RunOK' /\ PingsOnly' /\ RoleOK'
  BY <1>1, <1>4 DEF RunOK, PingsOnly, Sound, RoleOK
<1>9. DbOK'
  BY <1>1, <1>2, <1>3, <1>4 DEF DbOK, None
<1>10. ViewOK'
  BY <1>1, <1>2, <1>3, <1>4, CountType DEF ViewOK, States
<1>11. CacheOK'
  BY <1>1, <1>3, <1>4 DEF CacheOK, None
<1>12. SmOK' /\ Handling'
  BY <1>1, <1>2, <1>3, <1>4, OverType DEF SmOK
<1>13. CountOK'
  BY <1>1, <1>3, SpendType DEF Events
<1> QED
  BY <1>5, <1>6, <1>7, <1>8, <1>9, <1>10, <1>11, <1>12, <1>13, PartsNext DEF Sound

(* A switchover of a handler keeps Sound. *)
LEMMA SwitchoverSound ==
  ASSUME Sound, SwitchoverBegins \/ Switchover
  PROVE  Sound'
<1>1. CASE SwitchoverBegins
  BY <1>1, BeginsSound
<1>2. CASE Switchover /\ Panic
  BY <1>2, SwitchoverPanics
<1>3. CASE Switchover /\ ~Panic
  BY <1>3, ElectsSound, PromotesSound, DeletesSound, EndsSound DEF Switchover
<1> QED
  BY <1>1, <1>2, <1>3

(* The loss and the return of a server keep Sound. *)
LEMMA OutageSound ==
  ASSUME Sound, NEW s \in Servers, Lose(s) \/ Return(s)
  PROVE  Sound'
<1> USE DEF dbVars, viewVars, cacheVars, roleVars, listVars, smVars
<1>1. DbOK /\ ViewOK /\ CacheOK /\ RoleOK /\ ListOK /\ SmOK /\ RunOK /\ CountOK
  BY Parts DEF Sound
<1>2. ViewOK' /\ CacheOK' /\ RoleOK' /\ ListOK' /\ SmOK' /\ RunOK'
  BY <1>1 DEF ViewOK, CacheOK, RoleOK, ListOK, SmOK, RunOK, Lose, Return
<1>3. DbOK'
  BY <1>1 DEF DbOK, Lose, Return
<1>4. CountOK'
  BY <1>1, SpendType DEF CountOK, Lose, Return, Events
<1>5. MarkInside' /\ PingsOnly' /\ Rebuilt' /\ Handling'
  <2>1. MarkInside' /\ PingsOnly' /\ Rebuilt'
    BY DEF Lose, Return, Sound, MarkInside, PingsOnly, Rebuilt
  <2>2. Handling'
    BY DEF Lose, Return, Sound, Handling, Flagged, Steered, Inside
  <2> QED
    BY <2>1, <2>2
<1> QED
  BY <1>2, <1>3, <1>4, <1>5, PartsNext DEF Sound

(* Sound holds in every reachable state. *)
LEMMA SpecSound == Spec => []Sound
<1>1. Init => Sound
  <2> SUFFICES ASSUME Init
               PROVE  Sound
    OBVIOUS
  <2>1. DbOK
    <3>1. 1 \in Servers
      BY NAssumption DEF Servers
    <3> QED
      BY <3>1 DEF Init, DbOK, None
  <2>4. CacheOK /\ RoleOK /\ ListOK
    BY DEF Init, CacheOK, RoleOK, ListOK, None
  <2>5. SmOK
    BY DEF Init, SmOK, NoSwitchover, HandlerType, None
  <2>2. ViewOK /\ RunOK /\ CountOK
    BY MaxFailAssumption DEF Init, ViewOK, RunOK, CountOK, States, NoMark, Places
  <2>3. MarkInside /\ PingsOnly /\ Rebuilt /\ Handling
    BY DEF Init, MarkInside, PingsOnly, Rebuilt, Handling, Flagged, Steered, Inside, NoSwitchover
  <2> QED
    BY <2>1, <2>2, <2>3, <2>4, <2>5, Parts DEF Sound
<1>2. Sound /\ [Next]_vars => Sound'
  <2> SUFFICES ASSUME Sound, [Next]_vars
               PROVE  Sound'
    OBVIOUS
  <2>1. CASE Discover
    BY <2>1, TickSound, FindMasterSound, CheckFailedSound DEF Discover
  <2>2. CASE SwitchoverBegins \/ Switchover
    BY <2>2, SwitchoverSound
  <2>3. ASSUME NEW s \in Servers, Ping(s)
        PROVE  Sound'
    BY <2>3, MissedSound, DeleteSound, RefreshSound, RejoinSound, RejoinSlaveSound DEF Ping
  <2>4. ASSUME NEW s \in Servers, AccessDenied(s) \/ Lose(s) \/ Return(s)
        PROVE  Sound'
    BY <2>4, MissedSound, OutageSound
  <2>5. CASE UNCHANGED vars
    <3>1. TypeOK'
      BY <2>5 DEF vars, Sound, TypeOK
    <3> QED
      BY <2>5, <3>1 DEF vars, Sound, MarkInside, PingsOnly, Rebuilt, Handling, Flagged, Steered, Inside
  <2> QED
    BY <2>1, <2>2, <2>3, <2>4, <2>5 DEF Next
<1> QED
  BY <1>1, <1>2, PTL DEF Spec

(* Whatever is lost, refused or switched over while the Pings of a tick     *)
(* run, every field keeps its type: in particular the unlocked delete never *)
(* writes outside the array of slaves, and the length stored last is never  *)
(* longer than that array.                                                  *)
THEOREM DetectionTypes == Spec => []TypeOK
<1>1. Sound => TypeOK
  BY DEF Sound
<1> QED
  BY <1>1, SpecSound, PTL

--------------------------------------------------------------------------------
(* Who is declared failed. *)

(* Every step takes one of the bounded events or none. *)
LEMMA Counted ==
  ASSUME [Next]_vars
  PROVE  UNCHANGED spent \/ \E e \in Events : \E max \in Nat : Spend(e, max)
<1> USE BoundAssumption DEF Events, Fails, Succeeds
<1>1. ASSUME NEW s \in Servers, Ping(s)
      PROVE  UNCHANGED spent \/ \E e \in Events : \E max \in Nat : Spend(e, max)
  BY <1>1 DEF Ping, GetNewDBConn, PingMissed, BlameMaster, DeleteFind, DeleteMove, DeleteCut, Refresh, RefreshFails,
              AfterRefresh, RejoinMaster, rejoinSlave
<1>2. ASSUME NEW s \in Servers, AccessDenied(s) \/ Lose(s) \/ Return(s)
      PROVE  UNCHANGED spent \/ \E e \in Events : \E max \in Nat : Spend(e, max)
  BY <1>2 DEF AccessDenied, Lose, Return
<1>3. CASE Discover
  BY <1>3 DEF Discover, StartPings, NilSlave, RebuildTopology, FindMaster, CheckFailed, MovedBy
<1>4. CASE SwitchoverBegins \/ Switchover
  BY <1>4 DEF SwitchoverBegins, Switchover, SwitchoverElects, SwitchoverPromotes, SwitchoverFinds, SwitchoverDeletes,
              SwitchoverEnds
<1> QED
  BY <1>1, <1>2, <1>3, <1>4 DEF Next, vars

(* What has not happened after a step had not happened before it. *)
LEMMA CountsGrow ==
  ASSUME CountOK, [Next]_vars, NEW c \in Events, spent'[c] = 0
  PROVE  spent[c] = 0 /\ ~\E max \in Nat : Spend(c, max)
BY Counted DEF CountOK, Spend

(* A step after which no switchover has been asked for. *)
LEMMA NoSwitch ==
  ASSUME Sound, Blamed, [Next]_vars, spent'["switch"] = 0
  PROVE  /\ spent["switch"] = 0 /\ ~inFailover /\ ~SwitchoverBegins /\ ~Switchover
         /\ \A s \in Servers : pc[s] = "blame" => master = s
<1>1. CountOK
  BY Parts DEF Sound
<1>2. spent["switch"] = 0 /\ ~SwitchoverBegins
  BY <1>1, CountsGrow, BoundAssumption DEF SwitchoverBegins, Events
<1>3. ~inFailover /\ \A s \in Servers : pc[s] = "blame" => master = s
  BY <1>2 DEF Blamed
<1>4. handler.step = "off"
  BY <1>3 DEF Sound, Handling, Flagged
<1>5. ~Switchover
  BY <1>4 DEF Switchover, SwitchoverElects, SwitchoverPromotes, SwitchoverFinds, SwitchoverDeletes, SwitchoverEnds, At
<1> QED
  BY <1>2, <1>3, <1>5

Honest == Missing /\ Blamed

(* Every step keeps Honest. *)
LEMMA NextHonest == Sound /\ Honest /\ [Next]_vars => Honest'
<1> SUFFICES ASSUME Sound, Honest, [Next]_vars
             PROVE  Honest'
  OBVIOUS
<1> USE DEF dbVars, viewVars, cacheVars, roleVars, listVars, smVars
<1>1. RunOK /\ SmOK /\ RoleOK
  BY Parts DEF Sound
<1>2. Missing /\ Blamed
  BY DEF Honest
<1>3. ASSUME NEW s \in Servers, Ping(s) \/ AccessDenied(s)
      PROVE  Honest'
  <2>1. CASE GetNewDBConn(s)
    <3>1. pc' = [pc EXCEPT ![s] = IF s \in up THEN "connected" ELSE "missed"]
          /\ missed' = (IF s \in up THEN missed \ {s} ELSE missed \cup {s}) /\ UNCHANGED <<master, inFailover, spent>>
          /\ pc[s] = "connect"
      BY <2>1 DEF GetNewDBConn, Goto
    <3>2. Missing'
      BY <1>1, <1>2, <3>1 DEF Missing, RunOK, SmOK
    <3>3. Blamed'
      BY <1>1, <1>2, <3>1 DEF Blamed, RunOK
    <3> QED
      BY <3>2, <3>3 DEF Honest
  <2>2. CASE PingMissed(s)
    <3>1. UNCHANGED <<master, inFailover, spent, missed>> /\ pc[s] = "missed"
          /\ \E l \in {"blame", "find", "done"} : Goto(s, l) /\ (l = "blame" => s = master)
      BY <2>2 DEF PingMissed
    <3>2. PICK l \in {"blame", "find", "done"} : pc' = [pc EXCEPT ![s] = l] /\ (l = "blame" => s = master)
      BY <3>1 DEF Goto
    <3>3. Missing'
      BY <1>1, <1>2, <3>1, <3>2 DEF Missing, RunOK
    <3>4. Blamed'
      BY <1>1, <1>2, <3>1, <3>2 DEF Blamed, RunOK
    <3> QED
      BY <3>3, <3>4 DEF Honest
  <2>3. CASE DeleteFind(s) \/ DeleteMove(s) \/ DeleteCut(s)
    <3>1. UNCHANGED <<master, inFailover, spent, missed>> /\ pc[s] \in {"find", "move", "cut"}
          /\ \/ Goto(s, "done") \/ Goto(s, "move") \/ Goto(s, "cut")
             \/ pc' = [o \in Servers |-> "dead"]
      BY <2>3 DEF DeleteFind, DeleteMove, DeleteCut, Panic
    <3>2. \A o \in Servers : pc'[o] \in {"done", "dead", pc[o]} \/ (o = s /\ pc'[o] \in {"move", "cut"})
      BY <1>1, <3>1 DEF RunOK, Goto
    <3> QED
      BY <1>2, <3>1, <3>2 DEF Honest, Missing, Blamed
  <2>4. CASE RejoinMaster(s)
    <3>1. UNCHANGED <<inFailover, missed>> /\ pc' = [pc EXCEPT ![s] = "done"] /\ (master' # master => master = nil)
      BY <2>4 DEF RejoinMaster, Rejoined, Goto
    <3>2. Missing'
      BY <1>1, <1>2, <3>1 DEF Missing, RunOK
    <3>3. Blamed'
      <4> SUFFICES ASSUME spent'["switch"] = 0
                   PROVE  ~inFailover' /\ \A o \in Servers : pc'[o] = "blame" => master' = o
        BY DEF Blamed
      <4>1. ~inFailover /\ \A o \in Servers : pc[o] = "blame" => master = o
        BY <1>2, NoSwitch
      <4>2. nil \notin Servers
        BY NAssumption DEF Servers, nil
      <4> QED
        BY <1>1, <3>1, <4>1, <4>2 DEF RunOK
    <3> QED
      BY <3>2, <3>3 DEF Honest
  <2>5. CASE AccessDenied(s) \/ BlameMaster(s) \/ Refresh(s) \/ RefreshFails(s) \/ AfterRefresh(s) \/ rejoinSlave(s)
    <3>1. UNCHANGED <<master, inFailover, missed>>
          /\ \E l \in {"done", "status", "rejoin", "rejoinSlave"} : pc' = [pc EXCEPT ![s] = l]
      BY <2>5 DEF AccessDenied, BlameMaster, Refresh, RefreshFails, AfterRefresh, rejoinSlave, Goto
    <3>2. Missing'
      BY <1>1, <1>2, <3>1 DEF Missing, RunOK
    <3>3. Blamed'
      BY <1>1, <1>2, <3>1, NoSwitch DEF Blamed, RunOK
    <3> QED
      BY <3>2, <3>3 DEF Honest
  <2> QED
    BY <1>3, <2>1, <2>2, <2>3, <2>4, <2>5 DEF Ping
<1>4. CASE Discover
  <2>1. UNCHANGED <<inFailover, missed>> /\ \A o \in Servers : pc'[o] \in {"idle", "connect", "dead"}
    BY <1>1, <1>4 DEF Discover, StartPings, NilSlave, Panic, RebuildTopology, FindMaster, CheckFailed, Sound, PingsOnly
  <2> QED
    BY <1>2, <2>1, NoSwitch DEF Honest, Missing, Blamed
<1>5. CASE SwitchoverBegins \/ Switchover
  <2>1. UNCHANGED missed /\ \A s \in Servers : pc'[s] \in {pc[s], "dead"}
    BY <1>5 DEF SwitchoverBegins, Switchover, SwitchoverElects, SwitchoverPromotes, SwitchoverFinds, SwitchoverDeletes,
                SwitchoverEnds, Panic
  <2>2. spent'["switch"] # 0
    BY <1>2, <1>5, NoSwitch
  <2> QED
    BY <1>2, <2>1, <2>2 DEF Honest, Missing, Blamed
<1>6. ASSUME NEW s \in Servers, Lose(s) \/ Return(s)
      PROVE  Honest'
  <2>1. UNCHANGED <<pc, missed, inFailover, master>>
    BY <1>6 DEF Lose, Return
  <2> QED
    BY <1>2, <2>1, NoSwitch DEF Honest, Missing, Blamed
<1>7. CASE UNCHANGED vars
  BY <1>2, <1>7 DEF vars, Honest, Missing, Blamed
<1> QED
  BY <1>3, <1>4, <1>5, <1>6, <1>7 DEF Next

(* Honest holds in every reachable state. *)
LEMMA SpecHonest == Spec => []Honest
<1>1. Init => Honest
  BY DEF Init, Honest, Missing, Blamed
<1> QED
  BY <1>1, NextHonest, SpecSound, PTL DEF Spec

(* The one step that makes a server failed is taken for a server whose own  *)
(* Ping got no connection.                                                  *)
LEMMA FailedStep ==
  ASSUME Sound, Honest, [Next]_vars, NEW s \in Servers, State[s] # Failed, State'[s] = Failed, spent["switch"] = 0
  PROVE  s \in missed
<1> USE DEF dbVars, viewVars
<1>1. ViewOK /\ RunOK /\ RoleOK
  BY Parts DEF Sound
<1>2. Missing /\ ~inFailover /\ \A o \in Servers : pc[o] = "blame" => master = o
  BY DEF Honest, Blamed
<1>3. ASSUME NEW o \in Servers, Ping(o) \/ AccessDenied(o)
      PROVE  s \in missed
  <2>1. CASE PingMissed(o)
    <3>1. o = s
      BY <1>1, <2>1 DEF PingMissed, Ends, ViewOK
    <3> QED
      BY <1>2, <2>1, <3>1 DEF PingMissed, Missing
  <2>2. CASE BlameMaster(o)
    <3>1. o = s
      BY <1>1, <1>2, <2>2 DEF BlameMaster, ViewOK
    <3> QED
      BY <1>2, <2>2, <3>1 DEF BlameMaster, Missing
  <2>3. CASE GetNewDBConn(o) \/ DeleteFind(o) \/ DeleteMove(o) \/ DeleteCut(o)
    BY <2>3 DEF GetNewDBConn, DeleteFind, DeleteMove, DeleteCut
  <2>4. CASE AccessDenied(o)
    BY <1>1, <2>4 DEF AccessDenied, ViewOK, Failed, ErrorAuth
  <2>5. CASE Refresh(o) \/ RefreshFails(o)
    <3>1. State' = [State EXCEPT ![o] = CheckReplication(o, Seen(o))] \/ State' = [State EXCEPT ![o] = Seen(o)]
          \/ State' = [State EXCEPT ![o] = State[o]]
      BY <1>2, <2>5 DEF Refresh, RefreshFails, Ends
    <3>2. CheckReplication(o, Seen(o)) \in {Suspect, Slave, State[o]} /\ Seen(o) \in {Suspect, State[o]}
      BY DEF CheckReplication, Seen
    <3> QED
      BY <1>1, <3>1, <3>2 DEF ViewOK, Failed, Suspect, Slave
  <2>6. CASE AfterRefresh(o)
    <3>1. State' = [State EXCEPT ![o] = Unconn] \/ UNCHANGED State \/ State' = [State EXCEPT ![o] = State[o]]
      BY <2>6 DEF AfterRefresh, Ends
    <3> QED
      BY <1>1, <3>1 DEF ViewOK, Failed, Unconn
  <2>7. CASE RejoinMaster(o)
    BY <1>1, <2>7 DEF RejoinMaster, Ends, ViewOK, Failed, Master
  <2>8. CASE rejoinSlave(o)
    BY <1>1, <2>8 DEF rejoinSlave, Ends, ViewOK, Failed, Slave
  <2> QED
    BY <1>3, <2>1, <2>2, <2>3, <2>4, <2>5, <2>6, <2>7, <2>8 DEF Ping
<1>4. CASE Discover
  <2>1. CASE StartPings \/ NilSlave
    BY <2>1 DEF StartPings, NilSlave
  <2>2. CASE RebuildTopology
    BY <1>1, <1>2, <2>2 DEF RebuildTopology, ViewOK, Failed, Master
  <2>3. CASE FindMaster
    BY <1>1, <2>3 DEF FindMaster, ViewOK, Failed, Master
  <2>4. CASE CheckFailed
    BY <1>1, <2>4 DEF CheckFailed, Promote, ViewOK, Failed, Master
  <2> QED
    BY <1>4, <2>1, <2>2, <2>3, <2>4 DEF Discover
<1>5. CASE SwitchoverBegins
  BY <1>5 DEF SwitchoverBegins
<1>8. CASE Switchover
  <2>1. handler.step = "off"
    BY <1>2 DEF Sound, Handling, Flagged
  <2> QED
    BY <1>8, <2>1 DEF Switchover, SwitchoverElects, SwitchoverPromotes, SwitchoverFinds, SwitchoverDeletes, SwitchoverEnds, At
<1>6. ASSUME NEW o \in Servers, Lose(o) \/ Return(o)
      PROVE  s \in missed
  BY <1>6 DEF Lose, Return
<1>7. CASE UNCHANGED vars
  BY <1>7 DEF vars
<1> QED
  BY <1>3, <1>4, <1>5, <1>6, <1>7, <1>8 DEF Next

(* A server is declared failed only after a Ping of its own that got no     *)
(* connection, for every number of servers and outages, as long as no       *)
(* switchover changes the master between the comparison with GetMaster and  *)
(* the assignment to what it returns the second time.                       *)
THEOREM FailedAreMissed == Spec => FailedMissed
<1>1. Sound /\ Honest /\ [Next]_vars =>
        [\A s \in Servers : State[s] # Failed /\ State'[s] = Failed /\ spent["switch"] = 0 => s \in missed]_vars
  BY FailedStep
<1> QED
  BY <1>1, SpecSound, SpecHonest, PTL DEF Spec, FailedMissed

--------------------------------------------------------------------------------
(* The list of slaves. *)

(* A finite set of at most one element. *)
LEMMA AtMostOne ==
  ASSUME NEW S, IsFiniteSet(S), Cardinality(S) <= 1, NEW a \in S, NEW b \in S
  PROVE  a = b
<1> SUFFICES ASSUME a # b
             PROVE  FALSE
  OBVIOUS
<1>1. {a} \subseteq S /\ {a} # S
  OBVIOUS
<1>2. IsFiniteSet({a}) /\ Cardinality({a}) = 1
  BY FS_Singleton
<1>3. {a} \in SUBSET S
  BY <1>1
<1>4. Cardinality({a}) <= Cardinality(S) /\ Cardinality({a}) # Cardinality(S)
  BY <1>1, <1>3, FS_Subset
<1>5. Cardinality(S) \in Nat
  BY FS_CardinalityType
<1> QED
  BY <1>2, <1>4, <1>5

(* Who changes what is in reach and what was missed. *)
LEMMA ReachChanges ==
  ASSUME [Next]_vars
  PROVE  UNCHANGED <<up, missed>> \/ \E s \in Servers : Lose(s) \/ Return(s) \/ GetNewDBConn(s)
<1> USE DEF dbVars, smVars
<1>1. ASSUME NEW s \in Servers, Ping(s) \/ AccessDenied(s), ~GetNewDBConn(s)
      PROVE  UNCHANGED <<up, missed>>
  BY <1>1 DEF Ping, AccessDenied, PingMissed, BlameMaster, DeleteFind, DeleteMove, DeleteCut, Refresh, RefreshFails,
              AfterRefresh, RejoinMaster, Rejoined, rejoinSlave
<1>2. CASE Discover \/ UNCHANGED vars
  BY <1>2 DEF Discover, StartPings, NilSlave, RebuildTopology, FindMaster, CheckFailed, vars
<1>3. CASE SwitchoverBegins \/ Switchover
  BY <1>3 DEF SwitchoverBegins, Switchover, SwitchoverElects, SwitchoverPromotes, SwitchoverFinds, SwitchoverDeletes,
              SwitchoverEnds
<1> QED
  BY <1>1, <1>2, <1>3 DEF Next

(* With MaxDown = 1 no second server goes out of reach. *)
LEMMA NextOneOut ==
  ASSUME MaxDown = 1, Sound, OneOut, [Next]_vars
  PROVE  OneOut'
<1> USE DEF dbVars, smVars
<1>1. DbOK /\ SmOK
  BY Parts DEF Sound
<1>2. ASSUME NEW s \in Servers, Lose(s)
      PROVE  OneOut'
  <2> DEFINE out == (Servers \ up) \cup missed \cup {s}
  <2>1. IsFiniteSet(out)
    <3>1. IsFiniteSet(Servers)
      BY NAssumption, FS_Interval DEF Servers
    <3>2. out \in SUBSET Servers
      BY <1>1 DEF SmOK
    <3> QED
      BY <3>1, <3>2, FS_Subset
  <2>2. Cardinality(out) <= 1
    BY <1>2 DEF Lose
  <2>3. (Servers \ up') \cup missed' \subseteq out
    BY <1>2 DEF Lose
  <2> HIDE DEF out
  <2> QED
    BY <2>1, <2>2, <2>3, AtMostOne DEF OneOut
<1>3. ASSUME NEW s \in Servers, Return(s) \/ GetNewDBConn(s)
      PROVE  OneOut'
  <2>1. (Servers \ up') \cup missed' \subseteq (Servers \ up) \cup missed
    BY <1>3 DEF Return, GetNewDBConn
  <2> QED
    BY <2>1 DEF OneOut
<1> QED
  BY <1>2, <1>3, ReachChanges DEF OneOut

(* Before the first outage every server is in reach and every Ping gets a   *)
(* connection.                                                              *)
LEMMA NextUntouched ==
  ASSUME Sound, Untouched, [Next]_vars
  PROVE  Untouched'
<1> SUFFICES ASSUME spent'["outage"] = 0
             PROVE  up' = Servers /\ missed' = {}
  BY DEF Untouched
<1> USE DEF dbVars, smVars
<1>1. spent["outage"] = 0 /\ ~\E max \in Nat : Spend("outage", max)
  BY Parts, CountsGrow DEF Sound, Events
<1>2. up = Servers /\ missed = {}
  BY <1>1 DEF Untouched
<1>3. ASSUME NEW s \in Servers, Lose(s) \/ Return(s) \/ GetNewDBConn(s)
      PROVE  up' = Servers /\ missed' = {}
  BY <1>1, <1>2, <1>3, BoundAssumption DEF Lose, Return, GetNewDBConn
<1> QED
  BY <1>2, <1>3, ReachChanges

(* Only one Ping deletes at a time. *)
LEMMA OneDeletes ==
  ASSUME Missing, OneOut, NEW s \in Servers, NEW o \in Servers,
         pc[s] \in {"find", "move", "cut"}, pc[o] \in {"find", "move", "cut"}
  PROVE  s = o
BY DEF Missing, OneOut

(* The handler of a switchover and a Ping do not both delete. *)
LEMMA NoOverlap ==
  ASSUME Sound, Honest, Untouched, Calm, NEW s \in Servers, pc[s] \in {"find", "move", "cut"}
  PROVE  handler.step = "off"
<1>1. CASE spent["switch"] = 0
  BY <1>1 DEF Sound, Handling, Flagged, Honest, Blamed
<1>2. CASE spent["outage"] = 0
  BY <1>2 DEF Untouched, Honest, Missing
<1> QED
  BY <1>1, <1>2 DEF Calm

(* Steps that leave the list alone. *)
LEMMA ListKept ==
  ASSUME Within, NoHole, UNCHANGED <<slaves, slots, handler>>, tick' # "panic",
         \A o \in Servers : pc'[o] \in {"move", "cut"} => pc[o] \in {"move", "cut"} /\ mark'[o] = mark[o]
  PROVE  Within' /\ NoHole'
BY DEF Within, NoHole

(* An element more at the end of the list. *)
LEMMA ListGrows ==
  ASSUME Sound, Within, NoHole, NEW s \in Servers, Append1(s), tick' # "panic",
         handler'.step = "off" \/ UNCHANGED handler,
         \A o \in Servers : pc'[o] \in {"move", "cut"} => pc[o] \in {"move", "cut"} /\ mark'[o] = mark[o]
  PROVE  Within' /\ NoHole'
<1>1. RunOK /\ ListOK /\ SmOK
  BY Parts DEF Sound
<1>2. slaves \in Nat /\ slaves' = slaves + 1 /\ slots'[slaves + 1] = s /\ \A k \in 1..slaves : slots'[k] = slots[k]
  BY <1>1, AppendSlot DEF ListOK
<1>3. NoHole'
  <2>1. nil \notin Servers
    BY NAssumption DEF Servers, nil
  <2> QED
    BY <1>2, <2>1 DEF NoHole
<1>4. \A o \in Servers : pc'[o] \in {"move", "cut"} => mark'[o].len <= slaves'
  <2> SUFFICES ASSUME NEW o \in Servers, pc'[o] \in {"move", "cut"}
               PROVE  mark'[o].len <= slaves'
    OBVIOUS
  <2>1. mark[o].len <= slaves /\ mark[o].len \in Nat
    BY <1>1 DEF Within, RunOK
  <2> QED
    BY <1>2, <2>1
<1>5. handler.key \in Nat /\ handler.len \in Nat
  BY <1>1 DEF SmOK, HandlerType
<1>6. CASE handler'.step = "off"
  BY <1>3, <1>4, <1>6 DEF Within
<1>7. CASE UNCHANGED handler
  <2>1. handler'.step \in {"promote", "find"} => handler'.key <= slaves'
    BY <1>2, <1>5, <1>7 DEF Within
  <2>2. handler'.step \in {"move", "cut"} => handler'.len <= slaves'
    BY <1>2, <1>5, <1>7 DEF Within
  <2> QED
    BY <1>3, <1>4, <2>1, <2>2 DEF Within
<1> QED
  BY <1>6, <1>7

(* The move of the last element of a delete. *)
LEMMA ListMoves ==
  ASSUME ListOK, NoHole, NEW at \in 1..Len(slots), NEW len \in 1..slaves,
         slots' = [slots EXCEPT ![at] = slots[len]], UNCHANGED <<slaves, tick>>
  PROVE  NoHole'
<1>1. slaves \in Nat /\ Len(slots) \in Nat /\ slaves <= Len(slots) /\ slots \in Seq(None)
  BY DEF ListOK
<1>2. \A i \in 1..Len(slots) : slots'[i] = IF i = at THEN slots[len] ELSE slots[i]
  <2>1. slots[len] \in None
    BY <1>1
  <2> QED
    BY <1>1, <2>1, SetSlot
<1> QED
  BY <1>1, <1>2 DEF NoHole

(* The cut of the last slot of a delete. *)
LEMMA ListCuts ==
  ASSUME ListOK, NoHole, NEW len \in 1..slaves,
         slots' = [slots EXCEPT ![len] = nil], slaves' = len - 1, UNCHANGED tick
  PROVE  NoHole'
<1>1. slaves \in Nat /\ Len(slots) \in Nat /\ slaves <= Len(slots) /\ slots \in Seq(None)
  BY DEF ListOK
<1>2. \A i \in 1..Len(slots) : slots'[i] = IF i = len THEN nil ELSE slots[i]
  <2>1. len \in 1..Len(slots) /\ nil \in None
    BY <1>1 DEF None
  <2> QED
    BY <1>1, <2>1, SetSlot
<1> QED
  BY <1>1, <1>2 DEF NoHole

(* No step of a Ping leaves a hole in the list. *)
LEMMA PingIntact ==
  ASSUME Sound, Honest, OneOut, Untouched, Calm, Within, NoHole, NEW s \in Servers, Ping(s) \/ AccessDenied(s)
  PROVE  Within' /\ NoHole'
<1> USE DEF dbVars, viewVars, cacheVars, roleVars, listVars, smVars
<1>1. DbOK /\ RunOK /\ RoleOK /\ ListOK
  BY Parts DEF Sound
<1>2. slaves \in Nat /\ Len(slots) \in Nat /\ slaves <= Len(slots) /\ slots \in Seq(None) /\ tick # "panic"
  BY <1>1 DEF ListOK, NoHole
<1>3. CASE \/ GetNewDBConn(s) \/ AccessDenied(s) \/ PingMissed(s) \/ BlameMaster(s) \/ Refresh(s) \/ RefreshFails(s)
           \/ AfterRefresh(s) \/ RejoinMaster(s)
  <2>1. UNCHANGED <<slaves, slots, tick, mark, handler>> /\ \E l \in Places \ {"move", "cut"} : Goto(s, l)
    BY <1>3 DEF GetNewDBConn, AccessDenied, PingMissed, BlameMaster, Refresh, RefreshFails, AfterRefresh, RejoinMaster,
                Rejoined, Places
  <2>2. \A o \in Servers : pc'[o] \in {"move", "cut"} => pc[o] \in {"move", "cut"}
    BY <1>1, <2>1, GotoType
  <2> QED
    BY <1>2, <2>1, <2>2, ListKept
<1>4. CASE rejoinSlave(s)
  <2>1. UNCHANGED <<tick, mark, handler>> /\ Goto(s, "done") /\ (UNCHANGED listVars \/ Append1(s))
    BY <1>4 DEF rejoinSlave
  <2>2. \A o \in Servers : pc'[o] \in {"move", "cut"} => pc[o] \in {"move", "cut"}
    BY <1>1, <2>1, GotoType DEF Places
  <2> QED
    BY <1>2, <2>1, <2>2, ListKept, ListGrows
<1>5. CASE DeleteFind(s)
  <2> DEFINE at == {k \in 1..slaves : slots[k] \in {s, nil}}
  <2>1. at # {} => slots[First(at)] # nil
    <3>1. at \in SUBSET Nat
      BY <1>2
    <3> QED
      BY <3>1, LeastNumber DEF NoHole
  <2>2. UNCHANGED <<slaves, slots, tick, handler>>
        /\ \/ Goto(s, "done") /\ UNCHANGED mark
           \/ Goto(s, "move") /\ mark' = [mark EXCEPT ![s] = [len |-> slaves, at |-> First(at)]]
    BY <1>5, <2>1 DEF DeleteFind
  <2>3. \A o \in Servers \ {s} : pc'[o] = pc[o] /\ mark'[o] = mark[o]
    BY <1>1, <2>2, GotoType DEF Places, RunOK
  <2>4. pc'[s] \in {"move", "cut"} => mark'[s].len = slaves
    BY <1>1, <2>2, GotoType DEF Places, RunOK
  <2>5. Within'
    BY <1>2, <2>2, <2>3, <2>4 DEF Within
  <2> QED
    BY <2>2, <2>5 DEF NoHole
<1>6. CASE DeleteMove(s)
  <2>1. pc[s] = "move" /\ slots' = [slots EXCEPT ![mark[s].at] = slots[mark[s].len]]
        /\ UNCHANGED <<slaves, mark, tick, handler>> /\ Goto(s, "cut")
    BY <1>6 DEF DeleteMove
  <2>2. mark[s].at \in 1..Len(slots) /\ mark[s].len \in 1..slaves
    BY <1>1, <1>2, <2>1 DEF Sound, MarkInside, Within, RunOK
  <2>3. NoHole'
    BY <1>1, <2>1, <2>2, ListMoves
  <2>4. \A o \in Servers : pc'[o] \in {"move", "cut"} => pc[o] \in {"move", "cut"}
    BY <1>1, <2>1, GotoType DEF Places
  <2> QED
    BY <2>1, <2>3, <2>4 DEF Within
<1>7. CASE DeleteCut(s)
  <2>1. pc[s] = "cut" /\ slots' = [slots EXCEPT ![mark[s].len] = nil] /\ slaves' = mark[s].len - 1
        /\ UNCHANGED <<tick, handler>> /\ Goto(s, "done")
    BY <1>7 DEF DeleteCut
  <2>2. mark[s].len \in 1..slaves
    BY <1>1, <1>2, <2>1 DEF Sound, MarkInside, Within, RunOK
  <2>3. NoHole'
    BY <1>1, <2>1, <2>2, ListCuts
  <2>4. \A o \in Servers : pc'[o] \notin {"move", "cut"}
    <3>1. pc'[s] = "done" /\ \A o \in Servers \ {s} : pc'[o] = pc[o]
      BY <1>1, <2>1, GotoType DEF Places
    <3> QED
      BY <2>1, <3>1, OneDeletes DEF Honest
  <2>5. handler'.step = "off"
    BY <2>1, NoOverlap
  <2> QED
    BY <2>3, <2>4, <2>5 DEF Within
<1> QED
  BY <1>3, <1>4, <1>5, <1>6, <1>7 DEF Ping

(* No step of the loop leaves a hole in the list. *)
LEMMA DiscoverIntact ==
  ASSUME Sound, Within, NoHole, Discover
  PROVE  Within' /\ NoHole'
<1> USE DEF dbVars, viewVars, cacheVars, roleVars, listVars, smVars
<1>1. DbOK /\ RunOK /\ RoleOK /\ ListOK
  BY Parts DEF Sound
<1>2. slaves \in Nat /\ Len(slots) \in Nat /\ slaves <= Len(slots) /\ slots \in Seq(None) /\ ~Holed
  BY <1>1 DEF ListOK, NoHole, Holed
<1>3. UNCHANGED handler /\ \A o \in Servers : pc'[o] \notin {"move", "cut"}
  BY <1>1 DEF Discover, StartPings, NilSlave, Panic, RebuildTopology, FindMaster, CheckFailed, Sound, PingsOnly
<1>4. ~inFailover => handler.step = "off"
  BY DEF Sound, Handling, Flagged
<1>5. ~NilSlave
  BY <1>2 DEF NilSlave
<1>6. tick' # "panic"
  BY <1>5 DEF Discover, StartPings, RebuildTopology, FindMaster, CheckFailed, NoHole
<1>7. CASE UNCHANGED listVars
  BY <1>3, <1>6, <1>7, ListKept
<1>8. CASE RebuildTopology /\ ~UNCHANGED listVars
  <2>1. ~inFailover /\ slots' \in InOrder(NewSlaves) /\ slaves' = Cardinality(NewSlaves)
    BY <1>8 DEF RebuildTopology
  <2>2. NewSlaves \in SUBSET Servers
    BY DEF NewSlaves
  <2>3. Len(slots') = slaves' /\ \A k \in 1..Len(slots') : slots'[k] # nil
    BY <2>1, <2>2, NewList
  <2> QED
    BY <1>3, <1>4, <1>6, <2>1, <2>3 DEF Within, NoHole
<1>9. CASE CheckFailed /\ ~UNCHANGED listVars
  <2>1. ~inFailover
    BY <1>9 DEF CheckFailed
  <2>2. PICK c \in Candidates : slots' = Without(c) /\ slaves' = slaves - 1
    BY <1>9 DEF CheckFailed
  <2>3. c \in Servers /\ \E k \in 1..slaves : slots[k] = c
    BY <1>1 DEF Candidates, DbOK
  <2>4. /\ slaves \in 1..Len(slots)
        /\ \A i \in 1..Len(slots) : slots'[i] = IF i = slaves THEN nil ELSE IF i = Place(c) THEN slots[slaves] ELSE slots[i]
    BY <1>1, <2>2, <2>3, WithoutType
  <2>5. slaves' \in Nat /\ \A k \in 1..slaves' : k \in 1..Len(slots) /\ k \in 1..slaves /\ k # slaves /\ slaves \in 1..slaves
    BY <1>2, <2>2, <2>4
  <2>6. ASSUME NEW k \in 1..slaves'
        PROVE  slots'[k] # nil
    <3>1. slots'[k] = slots[slaves] \/ slots'[k] = slots[k]
      BY <2>4, <2>5
    <3>2. slots[slaves] # nil /\ slots[k] # nil
      BY <2>5 DEF NoHole
    <3> QED
      BY <3>1, <3>2
  <2> QED
    BY <1>3, <1>4, <1>6, <2>1, <2>6 DEF Within, NoHole
<1> QED
  BY <1>5, <1>7, <1>8, <1>9 DEF Discover, StartPings, FindMaster

(* Nor does a switchover whose handler deletes alone. *)
LEMMA SwitchoverIntact ==
  ASSUME Sound, Honest, Untouched, Calm, Within, NoHole, Switchover
  PROVE  Within' /\ NoHole'
<1> USE DEF dbVars, viewVars, cacheVars, roleVars, listVars
<1>1. DbOK /\ RunOK /\ RoleOK /\ ListOK /\ handler \in HandlerType /\ Handling
  BY Parts DEF Sound, SmOK
<1>2. slaves \in Nat /\ Len(slots) \in Nat /\ slaves <= Len(slots) /\ slots \in Seq(None)
  BY <1>1 DEF ListOK
<1>3. tick # "panic" /\ ~Holed
  BY DEF NoHole, Holed
<1>4. handler.step # "off" /\ \A o \in Servers : pc[o] \notin {"move", "cut"}
  <2>1. handler.step # "off"
    BY DEF Switchover, SwitchoverElects, SwitchoverPromotes, SwitchoverFinds, SwitchoverDeletes, SwitchoverEnds, At
  <2> QED
    BY <2>1, NoOverlap
<1>5. handler.step \in {"promote", "find"} => ~Gone
  <2> SUFFICES ASSUME handler.step \in {"promote", "find"}
               PROVE  ~Gone
    OBVIOUS
  <2>1. handler.key \in Nat /\ 1 <= handler.key /\ handler.key <= slaves
    BY <1>1 DEF HandlerType, Handling, Steered, Within
  <2>2. handler.key \in 1..slaves
    BY <1>2, <2>1
  <2> QED
    BY <1>2, <2>1, <2>2 DEF Gone, NoHole
<1>6. CASE SwitchoverElects
  <2>1. UNCHANGED <<slaves, slots, pc, mark, tick>>
        /\ (Over \/ \E k \in 1..slaves : handler' = [handler EXCEPT !.step = "promote", !.key = k])
    BY <1>3, <1>6 DEF SwitchoverElects
  <2>2. handler'.step \in {"promote", "find"} => handler'.key <= slaves
    <3>1. CASE Over
      BY <3>1 DEF Over, NoSwitchover
    <3>2. ASSUME NEW k \in 1..slaves, handler' = [handler EXCEPT !.step = "promote", !.key = k]
          PROVE  handler'.key <= slaves
      BY <1>1, <1>2, <3>2 DEF HandlerType
    <3> QED
      BY <2>1, <3>1, <3>2
  <2>3. handler'.step \notin {"move", "cut"}
    <3>1. CASE Over
      BY <3>1 DEF Over, NoSwitchover
    <3>2. ASSUME NEW k \in 1..slaves, handler' = [handler EXCEPT !.step = "promote", !.key = k]
          PROVE  handler'.step = "promote"
      BY <1>1, <3>2 DEF HandlerType
    <3> QED
      BY <2>1, <3>1, <3>2
  <2> QED
    BY <1>4, <2>1, <2>2, <2>3 DEF Within, NoHole
<1>7. CASE SwitchoverPromotes
  <2>1. UNCHANGED <<slaves, slots, pc, mark, tick>> /\ handler.step = "promote"
        /\ handler' = [handler EXCEPT !.step = "find", !.old = master]
    BY <1>5, <1>7 DEF SwitchoverPromotes, At
  <2>2. handler'.step = "find" /\ handler'.key = handler.key
    BY <1>1, <2>1 DEF HandlerType
  <2> QED
    BY <1>4, <2>1, <2>2 DEF Within, NoHole
<1>8. CASE SwitchoverFinds
  <2> DEFINE ats == {k \in 1..slaves : slots[k] \in {slots[handler.key], nil}}
             at == First(ats)
  <2>1. handler.step = "find" /\ ~Gone
    BY <1>5, <1>8 DEF SwitchoverFinds, At
  <2>2. handler.key \in 1..slaves
    BY <2>1, KeptElected
  <2>3. at \in 1..slaves
    <3>1. ats \in SUBSET Nat /\ ats # {}
      BY <1>2, <2>2
    <3> QED
      BY <3>1, LeastNumber
  <2>4. slots[at] # nil
    BY <2>3 DEF NoHole
  <2>5. UNCHANGED <<slaves, slots, pc, mark, tick>> /\ handler' = [handler EXCEPT !.step = "move", !.len = slaves, !.at = at]
    BY <1>8, <2>1, <2>4 DEF SwitchoverFinds
  <2> HIDE DEF at
  <2>6. handler'.step = "move" /\ handler'.len = slaves
    BY <1>1, <2>5 DEF HandlerType
  <2> QED
    BY <1>2, <1>4, <2>5, <2>6 DEF Within, NoHole
<1>9. CASE SwitchoverDeletes
  <2>1. UNCHANGED <<pc, mark, tick>> /\ handler.step \in {"move", "cut"}
    BY <1>9 DEF SwitchoverDeletes, At
  <2>2. handler.at \in 1..Len(slots) /\ handler.len \in 1..slaves
    <3>1. /\ handler.at \in Nat /\ handler.len \in Nat /\ 1 <= handler.at /\ handler.at <= handler.len
          /\ handler.len <= Len(slots) /\ handler.len <= slaves
      BY <1>1, <2>1 DEF HandlerType, Handling, Inside, Within
    <3> QED
      BY <1>2, <3>1
  <2>3. CASE handler.step = "move"
    <3>1. slots' = [slots EXCEPT ![handler.at] = slots[handler.len]] /\ UNCHANGED slaves
          /\ handler' = [handler EXCEPT !.step = "cut"]
      BY <1>9, <2>3 DEF SwitchoverDeletes, At
    <3>2. NoHole'
      BY <1>1, <2>1, <2>2, <3>1, ListMoves
    <3>3. handler'.step = "cut" /\ handler'.len = handler.len
      BY <1>1, <3>1 DEF HandlerType
    <3>4. handler'.len <= slaves'
      BY <2>3, <3>1, <3>3 DEF Within
    <3> QED
      BY <1>4, <2>1, <3>2, <3>3, <3>4 DEF Within
  <2>4. CASE handler.step = "cut"
    <3>1. slots' = [slots EXCEPT ![handler.len] = nil] /\ slaves' = handler.len - 1
          /\ handler' = [handler EXCEPT !.step = "demote"]
      BY <1>9, <2>4 DEF SwitchoverDeletes, At
    <3>2. NoHole'
      BY <1>1, <2>1, <2>2, <3>1, ListCuts
    <3>3. handler'.step = "demote"
      BY <1>1, <3>1 DEF HandlerType
    <3> QED
      BY <1>4, <2>1, <3>2, <3>3 DEF Within
  <2> QED
    BY <2>1, <2>3, <2>4
<1>10. CASE SwitchoverEnds
  <2>1. UNCHANGED <<pc, mark, tick>> /\ handler.step = "demote" /\ Over /\ Append1(handler.old)
    BY <1>3, <1>10 DEF SwitchoverEnds, At
  <2>2. handler.old \in Servers
    BY <1>1, <2>1 DEF Handling, Steered
  <2>3. handler'.step = "off"
    BY <2>1 DEF Over, NoSwitchover
  <2> QED
    BY <1>3, <2>1, <2>2, <2>3, ListGrows
<1> QED
  BY <1>6, <1>7, <1>8, <1>9, <1>10 DEF Switchover

(* Every step leaves the list of slaves without a hole. *)
LEMMA NextIntact ==
  ASSUME Sound, Honest, OneOut, Untouched, Calm => NoHole /\ Within, [Next]_vars, Calm'
  PROVE  Within' /\ NoHole'
<1> USE DEF dbVars, viewVars, cacheVars, roleVars, listVars, smVars
<1>1. Calm
  BY Parts, CountsGrow DEF Sound, Calm, Events
<1>2. ASSUME NEW s \in Servers, Ping(s) \/ AccessDenied(s)
      PROVE  Within' /\ NoHole'
  BY <1>1, <1>2, PingIntact
<1>3. CASE Discover
  BY <1>1, <1>3, DiscoverIntact
<1>4. CASE Switchover
  BY <1>1, <1>4, SwitchoverIntact
<1>5. CASE SwitchoverBegins
  <2>1. UNCHANGED <<slaves, slots, pc, mark, tick>> /\ handler' = [handler EXCEPT !.step = "elect"] /\ handler \in HandlerType
    BY <1>5, Parts DEF SwitchoverBegins, Sound, SmOK
  <2>2. handler'.step = "elect"
    BY <2>1 DEF HandlerType
  <2> QED
    BY <1>1, <2>1, <2>2 DEF Within, NoHole
<1>6. CASE UNCHANGED vars \/ \E s \in Servers : Lose(s) \/ Return(s)
  <2>1. UNCHANGED <<slaves, slots, pc, mark, tick, handler>>
    BY <1>6 DEF vars, Lose, Return
  <2> QED
    BY <1>1, <2>1 DEF Within, NoHole
<1> QED
  BY <1>2, <1>3, <1>4, <1>5, <1>6 DEF Next

(* With one server at a time out of reach, or back and not yet seen, and no *)
(* switchover, no loop over the slaves meets an empty slot: the unlocked    *)
(* delete of a Ping may lose a server that another Ping has appended        *)
(* meanwhile, and the list stays without a hole.  Nor does any number of    *)
(* switchovers make one before the first outage: the indices a handler      *)
(* holds between its unlocked reads stay inside the list.  The two together *)
(* can: a Ping and a handler then delete at once.                           *)
THEOREM ListStaysIntact == MaxDown = 1 /\ Spec => []ListIntact
<1> SUFFICES ASSUME MaxDown = 1
             PROVE  Spec => []ListIntact
  OBVIOUS
<1>1. Init => Intact
  <2> SUFFICES ASSUME Init
               PROVE  Intact
    OBVIOUS
  <2>1. OneOut /\ Untouched
    BY DEF Init, OneOut, Untouched
  <2>2. NoHole /\ Within
    BY DEF Init, NoHole, Within, NoSwitchover
  <2> QED
    BY <2>1, <2>2 DEF Intact
<1>2. Sound /\ Honest /\ Intact /\ [Next]_vars => Intact'
  BY NextOneOut, NextUntouched, NextIntact DEF Intact
<1>3. Intact => ListIntact
  BY DEF Intact, Calm, NoHole, ListIntact
<1> QED
  BY <1>1, <1>2, <1>3, SpecSound, SpecHonest, PTL DEF Spec


--------------------------------------------------------------------------------
(* Who is replaced. *)

(* A Ping of s that leaves the other servers as they were. *)
LEMMA PingKeepsRecent ==
  ASSUME Recent, NEW s \in Servers, tick = "pings", tick' = "pings", UNCHANGED topology,
         \A o \in Servers \ {s} : /\ State'[o] = State[o] /\ PrevState'[o] = PrevState[o] /\ source'[o] = source[o]
                                  /\ pc'[o] = pc[o] /\ (o \in missed' <=> o \in missed) /\ (o \in unread' <=> o \in unread),
         master' = master \/ (master = nil /\ master' # nil),
         lastmaster' = lastmaster \/ master = nil,
         ~topology => pc'[s] # "blame",
         State'[s] = Failed =>
           /\ PrevState'[s] \in {Failed, Master}
           /\ ~topology => pc'[s] \in Early
           /\ pc'[s] = "status" /\ source'[s] # nil => s = master' \/ s \in unread'
           /\ pc'[s] = "rejoinSlave" => s = master' \/ s \in unread'
           /\ pc'[s] # "rejoin"
           /\ lastmaster = nil => PrevState'[s] = Failed \/ (~topology /\ pc'[s] \in Early)
           /\ lastmaster = nil /\ s \notin missed' \cup unread' => pc'[s] # "done"
  PROVE  Recent'
<1>1. Remembered'
  BY DEF Recent, Remembered
<1>2. Led'
  BY DEF Recent, Led
<1>3. Unled'
  BY DEF Recent, Unled
<1>4. Leaving'
  <2>1. nil \notin Servers
    BY NAssumption DEF Servers, nil
  <2> QED
    BY <2>1 DEF Recent, Leaving
<1>5. CASE lastmaster' = nil /\ lastmaster = nil
  <2>1. PrevFailed /\ Reached
    BY <1>5 DEF Recent
  <2>2. PrevFailed'
    BY <1>5, <2>1 DEF PrevFailed
  <2>3. Reached'
    BY <1>5, <2>1 DEF Reached
  <2> QED
    BY <1>1, <1>2, <1>3, <1>4, <2>2, <2>3 DEF Recent
<1>6. CASE lastmaster' = nil /\ lastmaster # nil
  <2>1. ~topology
    BY <1>6 DEF Recent, Led
  <2>2. \A o \in Servers : State'[o] = Failed => pc'[o] \in Early
    BY <1>3, <2>1 DEF Unled
  <2>3. PrevFailed' /\ Reached'
    BY <2>1, <2>2 DEF PrevFailed, Reached, Early
  <2> QED
    BY <1>1, <1>2, <1>3, <1>4, <2>3 DEF Recent
<1> QED
  BY <1>1, <1>2, <1>3, <1>4, <1>5, <1>6 DEF Recent

(* Every step of a Ping keeps Recent. *)
LEMMA PingRecent ==
  ASSUME Sound, Missing, Recent, ~inFailover, \A o \in Servers : pc[o] = "blame" => master = o,
         NEW s \in Servers, Ping(s) \/ AccessDenied(s)
  PROVE  Recent'
<1> USE DEF dbVars, viewVars, cacheVars, roleVars, listVars, smVars
<1>1. DbOK /\ ViewOK /\ RoleOK /\ SmOK /\ RunOK
  BY Parts DEF Sound
<1>2. tick = "pings" /\ UNCHANGED topology
  <2>1. pc[s] \notin {"idle", "dead"}
    BY DEF Ping, AccessDenied, GetNewDBConn, PingMissed, BlameMaster, DeleteFind, DeleteMove, DeleteCut, Refresh, RefreshFails, AfterRefresh,
           RejoinMaster, rejoinSlave
  <2>2. tick = "pings"
    BY <1>1, <2>1 DEF Sound, PingsOnly, RunOK
  <2>3. UNCHANGED topology
    BY DEF Ping, AccessDenied, GetNewDBConn, PingMissed, BlameMaster, DeleteFind, DeleteMove, DeleteCut, Refresh, RefreshFails, AfterRefresh,
           RejoinMaster, Rejoined, rejoinSlave
  <2> QED
    BY <2>2, <2>3
<1>3. \A st \in {Suspect, ErrorAuth, Unconn, Slave, Master} : st # Failed
  BY DEF Suspect, ErrorAuth, Unconn, Slave, Master, Failed
<1>4. /\ State[s] = Failed => PrevState[s] \in {Failed, Master}
      /\ ~topology => (State[s] = Failed => pc[s] \in Early) /\ pc[s] # "blame"
      /\ State[s] = Failed /\ pc[s] = "status" /\ source[s] # nil => s = master \/ s \in unread
      /\ State[s] = Failed /\ pc[s] = "rejoinSlave" => s = master \/ s \in unread
      /\ State[s] = Failed => pc[s] # "rejoin"
      /\ State[s] = Failed /\ lastmaster = nil => PrevState[s] = Failed \/ (~topology /\ pc[s] \in Early)
  BY <1>2 DEF Recent, Remembered, Unled, Leaving, PrevFailed
<1>5. CASE GetNewDBConn(s)
  <2>1. /\ pc' = [pc EXCEPT ![s] = IF s \in up THEN "connected" ELSE "missed"]
        /\ missed' = (IF s \in up THEN missed \ {s} ELSE missed \cup {s}) /\ unread' = unread \ {s}
        /\ UNCHANGED <<State, PrevState, source, master, lastmaster, tick>> /\ pc[s] = "connect"
    BY <1>5 DEF GetNewDBConn, Goto
  <2>2. pc'[s] \in {"connected", "missed"} /\ \A o \in Servers \ {s} : pc'[o] = pc[o] /\ (o \in missed' <=> o \in missed) /\ (o \in unread' <=> o \in unread)
    BY <1>1, <2>1 DEF RunOK
  <2> QED
    BY <1>2, <1>4, <2>1, <2>2, PingKeepsRecent DEF Early
<1>6. CASE AccessDenied(s)
  <2>1. /\ pc' = [pc EXCEPT ![s] = "done"] /\ State' = [State EXCEPT ![s] = ErrorAuth]
        /\ UNCHANGED <<PrevState, source, master, lastmaster, tick, missed, unread>>
    BY <1>6 DEF AccessDenied, Goto
  <2>2. pc'[s] = "done" /\ State'[s] = ErrorAuth /\ \A o \in Servers \ {s} : pc'[o] = pc[o] /\ State'[o] = State[o]
    BY <1>1, <2>1 DEF RunOK, ViewOK
  <2> QED
    BY <1>2, <1>3, <2>1, <2>2, PingKeepsRecent
<1>7. CASE PingMissed(s)
  <2>1. pc[s] = "missed" /\ s \in missed /\ UNCHANGED <<source, master, lastmaster, tick, missed, unread>>
    BY <1>7 DEF PingMissed, Missing
  <2>2. CASE s = master /\ topology
    <3>1. pc' = [pc EXCEPT ![s] = "blame"] /\ UNCHANGED <<State, PrevState>>
      BY <1>7, <2>2 DEF PingMissed, Goto
    <3>2. pc'[s] = "blame" /\ \A o \in Servers \ {s} : pc'[o] = pc[o]
      BY <1>1, <3>1 DEF RunOK
    <3> QED
      BY <1>2, <1>4, <2>1, <2>2, <3>1, <3>2, PingKeepsRecent
  <2>3. CASE ~(s = master /\ topology)
    <3>1. PICK l \in {"find", "done"}, st \in {Suspect, Failed, State[s]} :
                 /\ pc' = [pc EXCEPT ![s] = l] /\ Ends(s, st)
                 /\ ~topology => st = Suspect
      BY <1>7, <2>3 DEF PingMissed, Goto
    <3>2. pc'[s] = l /\ State'[s] = st /\ PrevState'[s] = st
          /\ \A o \in Servers \ {s} : pc'[o] = pc[o] /\ State'[o] = State[o] /\ PrevState'[o] = PrevState[o]
      BY <1>1, <3>1 DEF RunOK, ViewOK, Ends
    <3>3. ~topology => st # Failed
      BY <1>3, <3>1
    <3> QED
      BY <1>2, <2>1, <3>1, <3>2, <3>3, PingKeepsRecent
  <2> QED
    BY <2>2, <2>3
<1>8. CASE BlameMaster(s)
  <2>1. pc[s] = "blame" /\ s \in missed /\ master = s /\ topology /\ UNCHANGED <<source, master, lastmaster, tick, missed, unread>>
    BY <1>4, <1>8 DEF BlameMaster, Missing
  <2>2. PICK st \in {Failed, Suspect} : State' = [State EXCEPT ![s] = st] /\ PrevState' = [PrevState EXCEPT ![s] = State'[s]]
    BY <1>8, <2>1 DEF BlameMaster
  <2>3. pc' = [pc EXCEPT ![s] = "done"]
    BY <1>8 DEF BlameMaster, Goto
  <2>4. pc'[s] = "done" /\ State'[s] = st /\ PrevState'[s] = st
        /\ \A o \in Servers \ {s} : pc'[o] = pc[o] /\ State'[o] = State[o] /\ PrevState'[o] = PrevState[o]
    BY <1>1, <2>2, <2>3 DEF RunOK, ViewOK
  <2> QED
    BY <1>2, <2>1, <2>4, PingKeepsRecent
<1>9. CASE DeleteFind(s) \/ DeleteMove(s) \/ DeleteCut(s)
  <2>1. /\ pc[s] \in {"find", "move", "cut"} /\ s \in missed
        /\ UNCHANGED <<State, PrevState, source, master, lastmaster, missed, unread>>
    BY <1>9 DEF DeleteFind, DeleteMove, DeleteCut, Missing
  <2>2. CASE Panic
    <3>1. tick' = "panic" /\ \A o \in Servers : pc'[o] = "dead"
      BY <2>2 DEF Panic
    <3> QED
      BY <1>2, <2>1, <3>1 DEF Recent, Remembered, Led, Unled, Leaving
  <2>3. CASE ~Panic
    <3>1. UNCHANGED tick /\ \E l \in {"done", "move", "cut"} : pc' = [pc EXCEPT ![s] = l]
      BY <1>9, <2>3 DEF DeleteFind, DeleteMove, DeleteCut, Goto
    <3>2. pc'[s] \in {"done", "move", "cut"} /\ \A o \in Servers \ {s} : pc'[o] = pc[o]
      BY <1>1, <3>1 DEF RunOK
    <3>3. State[s] = Failed => topology
      BY <1>4, <2>1 DEF Early
    <3> QED
      BY <1>2, <1>4, <2>1, <3>1, <3>2, <3>3, PingKeepsRecent
  <2> QED
    BY <2>2, <2>3
<1>10. CASE Refresh(s)
  <2> DEFINE st == CheckReplication(s, Seen(s))
  <2>1. pc' = [pc EXCEPT ![s] = "status"] /\ State' = [State EXCEPT ![s] = st]
        /\ UNCHANGED <<PrevState, source, master, lastmaster, tick, missed, unread>>
    BY <1>10 DEF Refresh, Goto
  <2>2. st = Failed => State[s] = Failed /\ topology /\ (source[s] # nil => s = master)
    <3>1. Suspect \notin {Failed, Master} /\ Slave # Failed
      BY DEF Suspect, Failed, Master, Slave
    <3> QED
      BY <1>4, <3>1 DEF CheckReplication, IsFailed, Seen
  <2> HIDE DEF st
  <2>3. pc'[s] = "status" /\ State'[s] = st /\ \A o \in Servers \ {s} : pc'[o] = pc[o] /\ State'[o] = State[o]
    BY <1>1, <2>1 DEF RunOK, ViewOK
  <2> QED
    BY <1>2, <1>4, <2>1, <2>2, <2>3, PingKeepsRecent
<1>14. CASE RefreshFails(s)
  <2>1. /\ unread' = unread \cup {s} /\ UNCHANGED <<source, master, lastmaster, tick, missed>>
        /\ pc[s] \in {"connected", "status"}
        /\ \E l \in {"done", "status"}, st \in {Seen(s), State[s]}, prev \in {PrevState[s], State[s]} :
             /\ pc' = [pc EXCEPT ![s] = l] /\ State' = [State EXCEPT ![s] = st]
             /\ PrevState' = [PrevState EXCEPT ![s] = prev]
             /\ (pc[s] = "connected" /\ st = Seen(s) /\ prev = PrevState[s]) \/ (pc[s] = "status" /\ st = State[s] /\ prev = st)
    <3>1. CASE pc[s] = "connected"
      <4>1. PrevState' = [PrevState EXCEPT ![s] = PrevState[s]]
        BY <1>1, <1>14, <3>1 DEF RefreshFails, ViewOK
      <4> QED
        BY <1>14, <3>1, <4>1 DEF RefreshFails, Goto
    <3>2. CASE pc[s] = "status"
      BY <1>14, <3>2 DEF RefreshFails, Goto, Ends
    <3> QED
      BY <1>14, <3>1, <3>2 DEF RefreshFails
  <2>2. PICK l \in {"done", "status"}, st \in {Seen(s), State[s]}, prev \in {PrevState[s], State[s]} :
               /\ pc' = [pc EXCEPT ![s] = l] /\ State' = [State EXCEPT ![s] = st]
               /\ PrevState' = [PrevState EXCEPT ![s] = prev]
               /\ (pc[s] = "connected" /\ st = Seen(s) /\ prev = PrevState[s]) \/ (pc[s] = "status" /\ st = State[s] /\ prev = st)
    BY <2>1
  <2>3. st = Failed => /\ State[s] = Failed /\ topology /\ prev \in {Failed, Master}
                       /\ lastmaster = nil => prev = Failed
    <3>1. Suspect \notin {Failed, Master}
      BY DEF Suspect, Failed, Master
    <3> QED
      BY <1>4, <2>1, <2>2, <3>1 DEF IsFailed, Seen, Early
  <2>4. pc'[s] = l /\ State'[s] = st /\ PrevState'[s] = prev
        /\ \A o \in Servers \ {s} : pc'[o] = pc[o] /\ State'[o] = State[o] /\ PrevState'[o] = PrevState[o]
    BY <1>1, <2>2 DEF RunOK, ViewOK
  <2>5. s \in unread' /\ \A o \in Servers \ {s} : o \in unread' <=> o \in unread
    BY <2>1
  <2>6. l \notin {"blame", "rejoinSlave", "rejoin"}
    BY <2>2
  <2> QED
    BY <1>2, <2>1, <2>3, <2>4, <2>5, <2>6, PingKeepsRecent
<1>11. CASE AfterRefresh(s)
  <2>1. pc[s] = "status" /\ UNCHANGED <<source, master, lastmaster, tick, missed, unread>>
    BY <1>11 DEF AfterRefresh
  <2>2. State[s] = Failed => topology /\ (lastmaster = nil => PrevState[s] = Failed)
    BY <1>4, <2>1 DEF Early
  <2>3. CASE State' = [State EXCEPT ![s] = Unconn] /\ pc' = [pc EXCEPT ![s] = "rejoin"] /\ UNCHANGED PrevState
    <3>1. pc'[s] = "rejoin" /\ State'[s] = Unconn /\ \A o \in Servers \ {s} : pc'[o] = pc[o] /\ State'[o] = State[o]
      BY <1>1, <2>3 DEF RunOK, ViewOK
    <3> QED
      BY <1>2, <1>3, <2>1, <2>3, <3>1, PingKeepsRecent
  <2>4. CASE PrevState[s] # Failed /\ pc' = [pc EXCEPT ![s] = "done"] /\ \E st \in {Unconn, State[s]} : Ends(s, st)
    <3>1. PICK st \in {Unconn, State[s]} : Ends(s, st)
      BY <2>4
    <3>2. pc'[s] = "done" /\ State'[s] = st /\ PrevState'[s] = st
          /\ \A o \in Servers \ {s} : pc'[o] = pc[o] /\ State'[o] = State[o] /\ PrevState'[o] = PrevState[o]
      BY <1>1, <2>4, <3>1 DEF RunOK, ViewOK, Ends
    <3>3. st = Failed => topology /\ lastmaster # nil
      BY <1>3, <2>2, <2>4, <3>1
    <3> QED
      BY <1>2, <2>1, <3>2, <3>3, PingKeepsRecent
  <2>5. CASE source[s] # nil /\ pc' = [pc EXCEPT ![s] = "rejoinSlave"] /\ UNCHANGED <<State, PrevState>>
    <3>1. pc'[s] = "rejoinSlave" /\ \A o \in Servers \ {s} : pc'[o] = pc[o]
      BY <1>1, <2>5 DEF RunOK
    <3> QED
      BY <1>2, <1>4, <2>1, <2>2, <2>5, <3>1, PingKeepsRecent
  <2> QED
    BY <1>11, <2>3, <2>4, <2>5 DEF AfterRefresh, Goto, Returned
<1>12. CASE RejoinMaster(s)
  <2>1. pc[s] = "rejoin" /\ UNCHANGED <<tick, missed, unread>> /\ pc' = [pc EXCEPT ![s] = "done"]
        /\ (master' = master \/ (master = nil /\ master' = s)) /\ (lastmaster' = lastmaster \/ master = nil)
        /\ \E st \in {State[s], Master} : Ends(s, st)
        /\ (UNCHANGED source \/ \E m \in None : source' = [source EXCEPT ![s] = m])
    BY <1>1, <1>12 DEF RejoinMaster, Rejoined, Goto, RoleOK
  <2>2. PICK st \in {State[s], Master} : Ends(s, st)
    BY <2>1
  <2>3. State'[s] = st /\ st # Failed
        /\ \A o \in Servers \ {s} : /\ pc'[o] = pc[o] /\ State'[o] = State[o] /\ PrevState'[o] = PrevState[o]
                                     /\ source'[o] = source[o]
    BY <1>1, <1>3, <1>4, <2>1, <2>2 DEF RunOK, ViewOK, DbOK, Ends
  <2>4. pc'[s] = "done" /\ s # nil
    BY <1>1, <2>1, NAssumption DEF RunOK, Servers, nil
  <2> QED
    BY <1>2, <2>1, <2>3, <2>4, PingKeepsRecent
<1>13. CASE rejoinSlave(s)
  <2>1. pc[s] = "rejoinSlave" /\ UNCHANGED <<master, lastmaster, tick, missed, unread>> /\ pc' = [pc EXCEPT ![s] = "done"]
        /\ (UNCHANGED source \/ \E m \in None : source' = [source EXCEPT ![s] = m])
        /\ (Ends(s, Slave) \/ (OtherMaster(s) /\ Ends(s, State[s])))
    BY <1>1, <1>13 DEF rejoinSlave, Goto, RoleOK, DbOK
  <2>2. PICK st \in {State[s], Slave} : Ends(s, st) /\ (st = Failed => s \in unread /\ State[s] = Failed)
    BY <1>3, <1>4, <2>1 DEF OtherMaster
  <2>3. State'[s] = st /\ PrevState'[s] = st /\ pc'[s] = "done"
        /\ \A o \in Servers \ {s} : /\ pc'[o] = pc[o] /\ State'[o] = State[o] /\ PrevState'[o] = PrevState[o]
                                     /\ source'[o] = source[o]
    BY <1>1, <2>1, <2>2 DEF RunOK, ViewOK, DbOK, Ends
  <2>4. st = Failed => topology
    BY <1>4, <2>1, <2>2 DEF Early
  <2> QED
    BY <1>2, <2>1, <2>2, <2>3, <2>4, PingKeepsRecent
<1> QED
  BY <1>5, <1>6, <1>7, <1>8, <1>9, <1>10, <1>11, <1>12, <1>13, <1>14 DEF Ping

(* The master after the topology is rebuilt: a known one is forgotten only  *)
(* when the whole cluster is taken for down.                                *)
LEMMA RebuiltMaster ==
  ASSUME Sound, RebuildTopology, ~inFailover, lastmaster' = nil
  PROVE  lastmaster = nil /\ (master # nil => master' # nil)
<1>1. RoleOK /\ nil \notin Servers
  BY Parts, NAssumption DEF Sound, Servers, nil
<1>2. ~Forget /\ lastmaster = nil
  BY DEF RebuildTopology, Forget
<1>3. Known = master
  BY <1>2 DEF Known
<1>4. Chosen \subseteq Servers
  <2>1. Leaders \subseteq Servers
    BY DEF Leaders
  <2> QED
    BY <2>1, FirstServer DEF Chosen
<1> DEFINE found == IF Chosen # {} THEN Last(Chosen) ELSE Known
           named == {s \in Servers : \A k \in 1..slaves' : replication[slots'[k]] = s}
           extra == IF found = nil /\ target /\ slaves' > 0 THEN named ELSE {}
<1>5. extra # {} => First(extra) \in Servers
  BY FirstServer
<1>6. master # nil => found # nil
  BY <1>1, <1>3, <1>4, GreatestServer
<1>7. master' = IF extra # {} THEN First(extra) ELSE found
  BY DEF RebuildTopology
<1> HIDE DEF found, extra
<1> QED
  BY <1>1, <1>2, <1>5, <1>6, <1>7

(* Every step of the loop keeps Recent. *)
LEMMA DiscoverRecent ==
  ASSUME Sound, Recent, ~inFailover, Discover
  PROVE  Recent'
<1> USE DEF dbVars, viewVars, cacheVars, roleVars, listVars, smVars
<1>1. ViewOK /\ RoleOK /\ RunOK /\ DbOK
  BY Parts DEF Sound
<1>2. Master # Failed /\ nil \notin Servers
  BY NAssumption DEF Master, Failed, Servers, nil
<1>3. CASE StartPings
  <2>1. /\ tick = "idle" /\ tick' = "pings" /\ \A s \in Servers : pc'[s] = "connect"
        /\ UNCHANGED <<State, PrevState, source, master, lastmaster, topology, missed, unread>>
    BY <1>3 DEF StartPings
  <2> QED
    BY <2>1 DEF Recent, Remembered, Led, Unled, Leaving, PrevFailed, Reached, Early
<1>4. CASE NilSlave
  <2>1. /\ tick \in {"pings", "check"} /\ tick' = "panic" /\ \A s \in Servers : pc'[s] = "dead"
        /\ UNCHANGED <<State, PrevState, source, master, lastmaster, topology, missed, unread>>
    BY <1>4 DEF NilSlave, Panic, PingsOver
  <2> QED
    BY <2>1 DEF Recent, Remembered, Led, Unled, Leaving
<1>5. CASE RebuildTopology
  <2>1. /\ tick = "pings" /\ tick' = "roles" /\ \A s \in Servers : pc[s] = "done" /\ pc'[s] = "idle"
        /\ UNCHANGED <<PrevState, source, topology, missed, unread>>
    BY <1>5 DEF RebuildTopology, PingsOver
  <2>2. \A s \in Servers : State'[s] = Failed => State[s] = Failed
    BY <1>1, <1>2, <1>5 DEF RebuildTopology, ViewOK
  <2>3. Remembered' /\ Unled' /\ Leaving'
    BY <2>1, <2>2 DEF Recent, Remembered, Unled, Leaving, Early
  <2>4. Led'
    BY <1>5, <2>1, RebuiltMaster DEF Recent, Led
  <2>5. ASSUME lastmaster' = nil
        PROVE  PrevFailed' /\ Reached'
    <3>1. PrevFailed /\ Reached
      BY <1>5, <2>1, <2>5, RebuiltMaster DEF Recent
    <3> QED
      BY <2>1, <2>2, <3>1 DEF PrevFailed, Reached, Early
  <2> QED
    BY <2>3, <2>4, <2>5 DEF Recent
<1>6. CASE FindMaster
  <2> DEFINE back == Sid # nil /\ State[Sid] = Unconn
             lost == master = nil /\ ~back /\ FailedMasterDiscovery
             m == IF back \/ lost THEN Sid ELSE master
  <2>1. /\ master' = m /\ topology' = (m # nil) /\ tick = "roles" /\ tick' = "check"
        /\ State' = IF back THEN [State EXCEPT ![m] = Master] ELSE State
        /\ PrevState' = IF lost THEN [PrevState EXCEPT ![m] = Master] ELSE PrevState
        /\ UNCHANGED <<lastmaster, missed, unread, pc>>
    BY <1>6 DEF FindMaster
  <2>2. \A s \in Servers : pc'[s] = "idle"
    BY <2>1 DEF Sound, PingsOnly
  <2>3. lost => master = nil /\ ~back
    OBVIOUS
  <2> HIDE DEF m, back, lost
  <2>4. \A s \in Servers : State'[s] = Failed => State[s] = Failed
    BY <1>1, <1>2, <2>1 DEF ViewOK
  <2>5. \A s \in Servers : PrevState'[s] \in {PrevState[s], Master} /\ (~lost => PrevState'[s] = PrevState[s])
    BY <1>1, <2>1 DEF ViewOK
  <2>6. Remembered'
    BY <2>4, <2>5 DEF Recent, Remembered
  <2>7. Led' /\ Unled' /\ Leaving'
    BY <2>1, <2>2 DEF Led, Unled, Leaving
  <2>8. ASSUME lastmaster' = nil
        PROVE  PrevFailed' /\ Reached'
    <3>1. PrevFailed /\ Reached
      BY <2>1, <2>8 DEF Recent
    <3>2. lost => \A s \in Servers : State[s] # Failed
      BY <2>1, <2>3, <2>8 DEF Recent, Led, Unled
    <3>3. PrevFailed'
      BY <2>1, <2>4, <2>5, <3>1, <3>2 DEF PrevFailed
    <3>4. Reached'
      BY <2>1, <2>4, <3>1 DEF Reached
    <3> QED
      BY <3>3, <3>4
  <2> QED
    BY <2>6, <2>7, <2>8 DEF Recent
<1>7. CASE CheckFailed
  <2>1. /\ tick = "check" /\ tick' = "idle" /\ UNCHANGED <<PrevState, lastmaster, topology, missed, unread, pc>>
        /\ \/ UNCHANGED <<master, State>>
           \/ \E c \in Candidates : master' = c /\ State' = [State EXCEPT ![c] = Master]
    BY <1>7 DEF CheckFailed, Promote
  <2>2. \A s \in Servers : pc'[s] = "idle"
    BY <2>1 DEF Sound, PingsOnly
  <2>3. Candidates \subseteq Servers
    BY <1>1 DEF Candidates, DbOK
  <2>4. \A s \in Servers : State'[s] = Failed => State[s] = Failed
    BY <1>1, <1>2, <2>1 DEF ViewOK
  <2>5. master # nil => master' # nil
    BY <1>2, <2>1, <2>3
  <2>6. Remembered' /\ Led' /\ Unled' /\ Leaving'
    BY <2>1, <2>2, <2>4, <2>5 DEF Recent, Remembered, Led, Unled, Leaving
  <2>7. lastmaster' = nil => PrevFailed' /\ Reached'
    BY <2>1, <2>4 DEF Recent, PrevFailed, Reached
  <2> QED
    BY <2>6, <2>7 DEF Recent
<1> QED
  BY <1>3, <1>4, <1>5, <1>6, <1>7 DEF Discover

(* Settled holds in every reachable state. *)
LEMMA SpecSettled == Spec => []Settled
<1>1. Init => Settled
  BY DEF Init, Settled, Recent, Remembered, Led, Unled, Leaving, PrevFailed, Reached, Suspect, Failed
<1>2. Sound /\ Honest /\ Settled /\ [Next]_vars => Settled'
  <2> SUFFICES ASSUME Sound, Honest, Settled, [Next]_vars, spent'["switch"] = 0
               PROVE  Recent'
    BY DEF Settled
  <2>1. /\ Recent /\ Missing /\ ~inFailover /\ ~SwitchoverBegins /\ ~Switchover
        /\ \A s \in Servers : pc[s] = "blame" => master = s
    BY NoSwitch DEF Settled, Honest
  <2>2. ASSUME NEW s \in Servers, Ping(s) \/ AccessDenied(s)
        PROVE  Recent'
    BY <2>1, <2>2, PingRecent
  <2>3. CASE Discover
    BY <2>1, <2>3, DiscoverRecent
  <2>4. CASE UNCHANGED vars \/ \E s \in Servers : Lose(s) \/ Return(s)
    <3>1. UNCHANGED <<State, PrevState, source, pc, tick, topology, master, lastmaster, missed, unread>>
      BY <2>4 DEF vars, Lose, Return, viewVars, roleVars, smVars
    <3> QED
      BY <2>1, <3>1 DEF Recent, Remembered, Led, Unled, Leaving, PrevFailed, Reached
  <2> QED
    BY <2>1, <2>2, <2>3, <2>4 DEF Next
<1> QED
  BY <1>1, <1>2, SpecSound, SpecHonest, PTL DEF Spec

(* A failover replaces only a master that its own last Ping could not reach *)
(* or could not read, for every number of servers, outages and failing      *)
(* statements and every limit of the count, as long as no switchover ran    *)
(* and no outage of the whole cluster is remembered: a count, a state or a  *)
(* PrevState left over from an earlier outage is not enough once a Ping has *)
(* read the server again.                                                   *)
THEOREM OnlyMissedReplaced == Spec => PromotesMissed
<1>1. Sound /\ Settled /\ [Next]_vars =>
        [tick = "check" /\ tick' = "idle" /\ master' # master /\ spent["switch"] = 0 /\ lastmaster = nil
           => master \in missed \cup unread]_vars
  <2> SUFFICES ASSUME Sound, Settled, Next, tick = "check", tick' = "idle", master' # master, spent["switch"] = 0,
                      lastmaster = nil
               PROVE  master \in missed \cup unread
    OBVIOUS
  <2>1. Reached
    BY DEF Settled, Recent
  <2>2. RoleOK /\ \A s \in Servers : pc[s] = "idle"
    BY Parts DEF Sound, PingsOnly
  <2>3. CheckFailed
    <3>1. ASSUME NEW s \in Servers, Ping(s)
          PROVE  FALSE
      BY <2>2, <3>1 DEF Ping, GetNewDBConn, PingMissed, BlameMaster, DeleteFind, DeleteMove, DeleteCut, Refresh, RefreshFails, AfterRefresh,
                        RejoinMaster, rejoinSlave
    <3>2. ASSUME NEW s \in Servers, AccessDenied(s) \/ Lose(s) \/ Return(s)
          PROVE  FALSE
      BY <3>2 DEF AccessDenied, Lose, Return
    <3>3. ~SwitchoverBegins /\ ~Switchover
      BY DEF SwitchoverBegins, Switchover, SwitchoverElects, SwitchoverPromotes, SwitchoverFinds, SwitchoverDeletes,
             SwitchoverEnds, Panic
    <3> QED
      BY <3>1, <3>2, <3>3 DEF Next, Discover, StartPings, NilSlave, Panic, RebuildTopology, PingsOver, FindMaster
  <2>4. master # nil /\ State[master] = Failed
    BY <2>3 DEF CheckFailed
  <2>5. master \in Servers
    BY <2>2, <2>4 DEF RoleOK, None
  <2> QED
    BY <2>1, <2>4, <2>5 DEF Reached
<1> QED
  BY <1>1, SpecSound, SpecSettled, PTL DEF Spec, PromotesMissed

================================================================================
