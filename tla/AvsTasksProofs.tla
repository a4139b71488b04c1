--------------------------- MODULE AvsTasksProofs ---------------------------
(***************************************************************************)
(* The promises of the AVS tasks, for every set of AVSs, operators, keys   *)
(* and identifiers and all lengths of the periods.                         *)
(*                                                                         *)
(* The windows are decided by the AVS that holds a task's address now, so  *)
(* the proofs rest on there being one such AVS at most, and on a task that *)
(* is counted or challenged being past its statistical period for it.      *)
(***************************************************************************)
EXTENDS AvsTasks, TLAPS

AVSInfo == [task : Addrs, identifier : Identifiers \cup OtherIdentifiers \cup {None}, start : Nat,
            checksummed : BOOLEAN]
TaskInfo == [start : Nat \ {0}, response : Nat, statistical : Nat, optedIn : SUBSET Operators,
             signed : SUBSET Operators, noSigned : SUBSET Operators, counted : BOOLEAN,
             isExpected : BOOLEAN]
TaskResultInfo == [signature : Signatures, response : Responses \cup {None}, spelling : Spellings]

Types ==
  /\ epoch \in [Identifiers -> Nat]
  /\ avs \in [AVSs -> AVSInfo]
  /\ optedIn \in [AVSs -> SUBSET Operators]
  /\ powered \subseteq AVSs /\ unsettled \subseteq AVSs
  /\ blsKey \in [Operators \X AVSs -> Keys \cup {None}]
  /\ lastTaskID \in [TaskAddrs -> Nat]
  /\ task \in [Tasks -> TaskInfo \cup {NoTask}]
  /\ result \in [Operators \X Tasks -> TaskResultInfo \cup {NoResult}]
  /\ challenged \subseteq Existing

\* The task address decides which AVS is meant.
OneHolder ==
  \A a, b \in Registered : avs[a].task = avs[b].task /\ avs[a].task # ZeroAddr => a = b

\* The AVS of a task that was left alone has an identifier x/epochs knows.
HolderKnown ==
  \A t \in Existing \ disturbed : \A a \in GetAVSInfoByTaskAddress(t[1]) : avs[a].identifier \in Identifiers

\* CreateAVSTask overwrites no task.
FreshTasks == \A t \in Tasks : t[2] > lastTaskID[t[1]] => task[t] = NoTask

\* Past the statistical period, for whichever AVS holds the task's address.
Past(t) == \A a \in GetAVSInfoByTaskAddress(t[1]) : StatisticalEnd(t) < epoch[avs[a].identifier]

\* What was counted or challenged is past its statistical period.
ClosedArePast == \A t \in Existing \ disturbed : t \in challenged \/ task[t].counted => Past(t)

TaskInv == Types /\ OneHolder /\ HolderKnown /\ FreshTasks /\ ClosedArePast /\ EveryTaskCounted

\* No two operators, nor one for two AVSs, have the same BLS key.
KeysUnique == \A p, q \in Operators \X AVSs : blsKey[p] = blsKey[q] /\ blsKey[p] # None => p = q

\* A revealed response was signed with a key of its operator.
OwnSignature ==
  \A o \in Operators, t \in Tasks :
    Revealed(o, t) => \E a \in AVSs : /\ blsKey[<<o, a>>] # None
                                      /\ result[<<o, t>>].signature = <<blsKey[<<o, a>>], result[<<o, t>>].response>>
-----------------------------------------------------------------------------
(* Shapes.                                                                 *)

\* A task that exists has all its fields, and its windows are in order.
LEMMA TaskShape ==
  ASSUME Types, NEW t \in Existing
  PROVE  /\ t \in Tasks /\ t[1] \in TaskAddrs /\ t[1] # ZeroAddr /\ task[t] \in TaskInfo
         /\ ResponseEnd(t) \in Nat /\ StatisticalEnd(t) \in Nat
         /\ task[t].start <= ResponseEnd(t) /\ ResponseEnd(t) <= StatisticalEnd(t)
<1>1. t \in Tasks /\ task[t] \in TaskInfo
  BY DEF Types, Existing
<1>2. t[1] \in TaskAddrs /\ t[1] # ZeroAddr
  BY <1>1, AvsAssumption DEF Tasks
<1>3. task[t].start \in Nat /\ task[t].response \in Nat /\ task[t].statistical \in Nat
  BY <1>1 DEF TaskInfo
<1> QED
  BY <1>1, <1>2, <1>3 DEF ResponseEnd, StatisticalEnd

\* A new task has the shape of a task and starts after the current epoch.
LEMMA NewTaskShape ==
  ASSUME Types, NEW a \in AVSs, NEW p \in Periods, NEW q \in Periods, avs[a].identifier \in Identifiers
  PROVE  /\ NewTask(a, p, q) \in TaskInfo /\ NewTask(a, p, q) # NoTask
         /\ NewTask(a, p, q).counted = FALSE
         /\ NewTask(a, p, q).start + NewTask(a, p, q).response + NewTask(a, p, q).statistical
              > epoch[avs[a].identifier]
<1>1. epoch[avs[a].identifier] \in Nat /\ p \in Nat /\ q \in Nat /\ optedIn[a] \subseteq Operators
  BY AvsAssumption DEF Types
<1>2. NewTask(a, p, q) \in TaskInfo
  BY <1>1 DEF NewTask, StartingEpoch, TaskInfo
<1>3. NewTask(a, p, q).start # 0 /\ NoTask.start = 0
  BY <1>1 DEF NewTask, StartingEpoch, NoTask
<1>4. NewTask(a, p, q) # NoTask
  BY <1>3
<1> QED
  BY <1>1, <1>2, <1>4 DEF NewTask, StartingEpoch

\* The AVSs that hold a task address.
LEMMA HolderShape ==
  ASSUME Types, NEW t \in Existing, NEW a \in GetAVSInfoByTaskAddress(t[1])
  PROVE  a \in AVSs /\ a \in Registered /\ avs[a].task = t[1] /\ avs[a].task # ZeroAddr
BY DEF GetAVSInfoByTaskAddress, Registered

\* The task address of a stored task is held by one AVS at most.
LEMMA UniqueHolder ==
  ASSUME Types, OneHolder, NEW t \in Existing,
         NEW a \in GetAVSInfoByTaskAddress(t[1]), NEW b \in GetAVSInfoByTaskAddress(t[1])
  PROVE  a = b
BY HolderShape DEF OneHolder

\* Genesis has no AVS, no task and no response.
LEMMA InitTasks == Init => TaskInv
<1> SUFFICES ASSUME Init PROVE TaskInv
  OBVIOUS
<1>1. Existing = {}
  BY DEF Init, Existing
<1>2. Registered = {}
  BY DEF Init, Registered
<1>3. Types
  <2>1. NotRegistered \in AVSInfo
    BY DEF NotRegistered, AVSInfo, Addrs
  <2>2. /\ epoch \in [Identifiers -> Nat] /\ avs \in [AVSs -> AVSInfo]
        /\ optedIn \in [AVSs -> SUBSET Operators] /\ powered \subseteq AVSs /\ unsettled \subseteq AVSs
        /\ blsKey \in [Operators \X AVSs -> Keys \cup {None}] /\ lastTaskID \in [TaskAddrs -> Nat]
    BY <2>1 DEF Init
  <2>3. task \in [Tasks -> TaskInfo \cup {NoTask}] /\ challenged \subseteq Existing
    BY DEF Init
  <2>4. result \in [Operators \X Tasks -> TaskResultInfo \cup {NoResult}]
    BY DEF Init
  <2> QED
    BY <2>2, <2>3, <2>4 DEF Types
<1>4. FreshTasks
  BY DEF Init, FreshTasks
<1> QED
  BY <1>1, <1>2, <1>3, <1>4 DEF TaskInv, OneHolder, HolderKnown, ClosedArePast, EveryTaskCounted
-----------------------------------------------------------------------------
(* The AVSs change.                                                        *)

\* Registration, update and deregistration: no address gets a second holder,
\* and every task whose windows may have moved is recorded as disturbed.
LEMMA AVSChange ==
  ASSUME TaskInv, NEW a \in AVSs, NEW new \in AVSInfo, avs' = [avs EXCEPT ![a] = new],
         new.task = ZeroAddr \/ ~TaskAddressUsed(a, new.task),
         disturbed \subseteq disturbed',
         \/ a \in Registered /\ avs[a].task = new.task /\ avs[a].identifier = new.identifier
         \/ \A t \in Existing : t[1] = new.task => t \in disturbed',
         UNCHANGED <<epoch, optedIn, powered, unsettled, blsKey, lastTaskID, task, result, challenged, uncounted>>
  PROVE  TaskInv'
<1>1. avs \in [AVSs -> AVSInfo]
  BY DEF TaskInv, Types
<1>2. Existing' = Existing
  BY DEF Existing
<1>3. \A b \in AVSs : avs'[b] = IF b = a THEN new ELSE avs[b]
  BY <1>1
<1>4. Types'
  <2>1. avs' \in [AVSs -> AVSInfo]
    BY <1>1
  <2> QED
    BY <1>2, <2>1, Zenon DEF TaskInv, Types
<1>5. OneHolder'
  <2> SUFFICES ASSUME NEW b \in AVSs, NEW c \in AVSs, b # c,
                      avs'[b] # NotRegistered, avs'[c] # NotRegistered,
                      avs'[b].task = avs'[c].task, avs'[b].task # ZeroAddr
               PROVE  FALSE
    BY DEF OneHolder, Registered
  <2>1. ASSUME NEW x \in AVSs, x # a, avs[x] # NotRegistered, avs[x].task = new.task,
               new.task # ZeroAddr
        PROVE  FALSE
    BY <2>1 DEF TaskAddressUsed, GetAVSInfoByTaskAddress, Registered
  <2>2. CASE b = a
    BY <1>3, <2>1, <2>2
  <2>3. CASE c = a
    BY <1>3, <2>1, <2>3
  <2>4. CASE b # a /\ c # a
    BY <1>3, <2>4 DEF TaskInv, OneHolder, Registered
  <2> QED
    BY <2>2, <2>3, <2>4
<1>6. ASSUME NEW t \in Existing, t \notin disturbed', NEW b \in GetAVSInfoByTaskAddress(t[1])'
      PROVE  b \in GetAVSInfoByTaskAddress(t[1]) /\ avs'[b].identifier = avs[b].identifier
  <2>1. b \in AVSs /\ avs'[b] # NotRegistered /\ t[1] # ZeroAddr /\ avs'[b].task = t[1]
    BY <1>6 DEF GetAVSInfoByTaskAddress, Registered
  <2>2. CASE b # a
    BY <1>3, <2>1, <2>2 DEF GetAVSInfoByTaskAddress, Registered
  <2>3. CASE b = a
    BY <1>3, <1>6, <2>1, <2>3 DEF GetAVSInfoByTaskAddress, Registered
  <2> QED
    BY <2>2, <2>3, Zenon
<1>7. HolderKnown'
  <2> SUFFICES ASSUME NEW t \in Existing, t \notin disturbed', NEW b \in GetAVSInfoByTaskAddress(t[1])'
               PROVE  avs'[b].identifier \in Identifiers
    BY <1>2 DEF HolderKnown
  <2> QED
    BY <1>6 DEF TaskInv, HolderKnown
<1>8. FreshTasks'
  BY DEF TaskInv, FreshTasks
<1>9. ClosedArePast'
  <2> SUFFICES ASSUME NEW t \in Existing, t \notin disturbed', t \in challenged \/ task[t].counted,
                      NEW b \in GetAVSInfoByTaskAddress(t[1])'
               PROVE  StatisticalEnd(t) < epoch[avs'[b].identifier]
    BY <1>2 DEF ClosedArePast, Past, StatisticalEnd, ResponseEnd
  <2> QED
    BY <1>6 DEF TaskInv, ClosedArePast, Past
<1>10. EveryTaskCounted'
  <2> SUFFICES ASSUME NEW t \in Existing, t \notin disturbed', t \notin uncounted,
                      \E o \in Operators : result[<<o, t>>] # NoResult,
                      NEW b \in GetAVSInfoByTaskAddress(t[1])', StatisticalEnd(t) < epoch[avs'[b].identifier]
               PROVE  task[t].counted
    BY <1>2, Zenon DEF EveryTaskCounted, StatisticalEnd, ResponseEnd
  <2>1. b \in GetAVSInfoByTaskAddress(t[1]) /\ StatisticalEnd(t) < epoch[avs[b].identifier]
    BY <1>6
  <2> QED
    BY <2>1 DEF TaskInv, EveryTaskCounted
<1> QED
  BY <1>4, <1>5, <1>7, <1>8, <1>9, <1>10 DEF TaskInv

\* Steps that move neither AVSs, epochs, tasks nor results.
LEMMA TasksUntouched ==
  ASSUME TaskInv,
         UNCHANGED <<epoch, avs, lastTaskID, task, result, challenged, disturbed, uncounted>>,
         optedIn' \in [AVSs -> SUBSET Operators], powered' \subseteq AVSs, unsettled' \subseteq AVSs,
         blsKey' \in [Operators \X AVSs -> Keys \cup {None}]
  PROVE  TaskInv'
<1>1. Existing' = Existing /\ Registered' = Registered
  BY DEF Existing, Registered
<1>2. \A t \in Existing : GetAVSInfoByTaskAddress(t[1])' = GetAVSInfoByTaskAddress(t[1])
  BY <1>1 DEF GetAVSInfoByTaskAddress
<1>3. Types'
  BY <1>1, Zenon DEF TaskInv, Types
<1>4. OneHolder' /\ FreshTasks'
  BY <1>1 DEF TaskInv, OneHolder, FreshTasks
<1>5. HolderKnown'
  BY <1>1, <1>2 DEF TaskInv, HolderKnown
<1>6. ClosedArePast'
  BY <1>1, <1>2 DEF TaskInv, ClosedArePast, Past, StatisticalEnd, ResponseEnd
<1>7. EveryTaskCounted'
  BY <1>1, <1>2, ZenonT(60) DEF TaskInv, EveryTaskCounted, StatisticalEnd, ResponseEnd
<1> QED
  BY <1>3, <1>4, <1>5, <1>6, <1>7 DEF TaskInv
-----------------------------------------------------------------------------
(* Tasks are created, answered and challenged.                             *)

\* CreateNewTask gives the task a number its address has not used.
LEMMA CreateTasks ==
  ASSUME TaskInv, NEW a \in AVSs, NEW d \in TaskAddrs, NEW p \in Periods, NEW q \in Periods,
         CreateAVSTask(a, d, p, q)
  PROVE  TaskInv' /\ \A t \in Existing : t \in Existing' /\ task'[t] = task[t]
<1> DEFINE n == lastTaskID[d] + 1
           t0 == <<d, n>>
           new == NewTask(a, p, q)
<1>1. /\ n <= MaxTasks /\ a \in GetAVSInfoByTaskAddress(d) /\ avs[a].identifier \in Identifiers
      /\ lastTaskID' = [lastTaskID EXCEPT ![d] = n]
      /\ task' = [task EXCEPT ![t0] = new]
      /\ UNCHANGED <<epoch, avs, optedIn, powered, unsettled, blsKey, result, challenged, disturbed, uncounted>>
  BY Zenon DEF CreateAVSTask, GetTaskID, MayCreateTask
<1>2. /\ lastTaskID \in [TaskAddrs -> Nat] /\ task \in [Tasks -> TaskInfo \cup {NoTask}]
      /\ challenged \subseteq Existing
  BY DEF TaskInv, Types
<1>3. t0 \in Tasks /\ t0[1] = d /\ t0[2] = n /\ n \in Nat /\ n > lastTaskID[d]
  BY <1>1, <1>2, AvsAssumption DEF Tasks
<1>4. task[t0] = NoTask /\ t0 \notin Existing /\ t0 \notin challenged
  BY <1>2, <1>3 DEF TaskInv, FreshTasks, Existing
<1>5. /\ new \in TaskInfo /\ new # NoTask /\ new.counted = FALSE
      /\ new.start + new.response + new.statistical > epoch[avs[a].identifier]
  BY <1>1, NewTaskShape, Zenon DEF TaskInv
<1> HIDE DEF n, t0, new
<1>6. /\ task' \in [Tasks -> TaskInfo \cup {NoTask}] /\ lastTaskID' \in [TaskAddrs -> Nat]
      /\ task'[t0] = new /\ \A t \in Tasks \ {t0} : task'[t] = task[t]
      /\ lastTaskID'[d] = n /\ \A x \in TaskAddrs \ {d} : lastTaskID'[x] = lastTaskID[x]
  BY <1>1, <1>2, <1>3, <1>5, Zenon
<1>7. Existing' = Existing \cup {t0}
  BY <1>3, <1>4, <1>5, <1>6 DEF Existing
<1>8. Registered' = Registered /\ \A x : GetAVSInfoByTaskAddress(x)' = GetAVSInfoByTaskAddress(x)
  BY <1>1 DEF Registered, GetAVSInfoByTaskAddress
<1>9. \A b \in GetAVSInfoByTaskAddress(d) : b = a
  BY <1>1 DEF TaskInv, OneHolder, GetAVSInfoByTaskAddress
<1>10. \A t \in Existing : t \in Tasks /\ t # t0 /\ task'[t] = task[t] /\ StatisticalEnd(t)' = StatisticalEnd(t)
  BY <1>4, <1>6 DEF Existing, StatisticalEnd, ResponseEnd
<1>11. ASSUME NEW t \in Existing', t = t0
       PROVE  ~(StatisticalEnd(t)' < epoch[avs[a].identifier])
  <2>1. task'[t] = new
    BY <1>6, <1>11
  <2>2. StatisticalEnd(t)' = new.start + new.response + new.statistical
    BY <2>1 DEF StatisticalEnd, ResponseEnd
  <2>3. new.start \in Nat /\ new.response \in Nat /\ new.statistical \in Nat
    BY <1>5 DEF TaskInfo
  <2>4. epoch[avs[a].identifier] \in Nat
    BY <1>1 DEF TaskInv, Types
  <2> QED
    BY <1>5, <2>2, <2>3, <2>4
<1>12. Types'
  <2>1. challenged' \subseteq Existing'
    BY <1>1, <1>2, <1>7
  <2> QED
    BY <1>1, <1>6, <2>1, Zenon DEF TaskInv, Types
<1>13. OneHolder'
  BY <1>1, <1>8, Zenon DEF TaskInv, OneHolder
<1>14. HolderKnown'
  <2> SUFFICES ASSUME NEW t \in Existing', t \notin disturbed, NEW b \in GetAVSInfoByTaskAddress(t[1])
               PROVE  avs[b].identifier \in Identifiers
    BY <1>1, <1>8, Zenon DEF HolderKnown
  <2>1. CASE t = t0
    BY <1>1, <1>3, <1>9, <2>1
  <2>2. CASE t \in Existing
    BY <2>2, Zenon DEF TaskInv, HolderKnown
  <2> QED
    BY <1>7, <2>1, <2>2
<1>15. FreshTasks'
  <2> SUFFICES ASSUME NEW t \in Tasks, t[2] > lastTaskID'[t[1]] PROVE task'[t] = NoTask
    BY DEF FreshTasks
  <2>1. t[1] \in TaskAddrs /\ t[2] \in Nat
    BY AvsAssumption DEF Tasks
  <2>2. t[2] > lastTaskID[t[1]]
    BY <1>2, <1>3, <1>6, <2>1
  <2>3. t # t0
    BY <1>3, <1>6, <2>1
  <2> QED
    BY <1>6, <2>2, <2>3 DEF TaskInv, FreshTasks
<1>16. ClosedArePast'
  <2> SUFFICES ASSUME NEW t \in Existing', t \notin disturbed, t \in challenged \/ task'[t].counted,
                      NEW b \in GetAVSInfoByTaskAddress(t[1])
               PROVE  StatisticalEnd(t)' < epoch[avs[b].identifier]
    BY <1>1, <1>8, Zenon DEF ClosedArePast, Past
  <2>1. t # t0
    BY <1>4, <1>5, <1>6
  <2>2. t \in Existing
    BY <1>7, <2>1
  <2> QED
    BY <1>10, <2>2 DEF TaskInv, ClosedArePast, Past
<1>17. EveryTaskCounted'
  <2> SUFFICES ASSUME NEW t \in Existing', t \notin disturbed, t \notin uncounted,
                      \E o \in Operators : result[<<o, t>>] # NoResult,
                      NEW b \in GetAVSInfoByTaskAddress(t[1]), StatisticalEnd(t)' < epoch[avs[b].identifier]
               PROVE  task'[t].counted
    BY <1>1, <1>8, Zenon DEF EveryTaskCounted
  <2>1. CASE t = t0
    <3>1. b = a
      BY <1>3, <1>9, <2>1
    <3> QED
      BY <1>11, <2>1, <3>1
  <2>2. CASE t \in Existing
    BY <1>10, <2>2 DEF TaskInv, EveryTaskCounted
  <2> QED
    BY <1>7, <2>1, <2>2
<1>18. \A t \in Existing : t \in Existing' /\ task'[t] = task[t]
  BY <1>7, <1>10, Zenon
<1> QED
  BY <1>12, <1>13, <1>14, <1>15, <1>16, <1>17, <1>18 DEF TaskInv

\* A result changes nothing but itself, and a first result comes before the
\* statistical period of the task ends.
LEMMA ResultTasks ==
  ASSUME TaskInv, NEW o \in Operators, NEW a \in AVSs, NEW t \in Existing, NEW new \in TaskResultInfo,
         result' = [result EXCEPT ![<<o, t>>] = new],
         a \in GetAVSInfoByTaskAddress(t[1]), avs[a].identifier \in Identifiers,
         result[<<o, t>>] # NoResult \/ InPreparePhase(t, epoch[avs[a].identifier]),
         UNCHANGED <<epoch, avs, optedIn, powered, unsettled, blsKey, lastTaskID, task, challenged,
                     disturbed, uncounted>>
  PROVE  TaskInv'
<1>1. result \in [Operators \X Tasks -> TaskResultInfo \cup {NoResult}] /\ epoch \in [Identifiers -> Nat]
  BY DEF TaskInv, Types
<1>2. Existing' = Existing /\ Registered' = Registered
  BY DEF Existing, Registered
<1>3. \A x \in Existing : GetAVSInfoByTaskAddress(x[1])' = GetAVSInfoByTaskAddress(x[1])
  BY <1>2 DEF GetAVSInfoByTaskAddress
<1>4. Types'
  <2>1. result' \in [Operators \X Tasks -> TaskResultInfo \cup {NoResult}]
    BY <1>1, Zenon
  <2> QED
    BY <1>2, <2>1, Zenon DEF TaskInv, Types
<1>5. OneHolder' /\ FreshTasks'
  BY <1>2 DEF TaskInv, OneHolder, FreshTasks
<1>6. HolderKnown'
  BY <1>2, <1>3, Zenon DEF TaskInv, HolderKnown
<1>7. ClosedArePast'
  BY <1>2, <1>3, Zenon DEF TaskInv, ClosedArePast, Past, StatisticalEnd, ResponseEnd
<1>8. EveryTaskCounted'
  <2> SUFFICES ASSUME NEW x \in Existing, x \notin disturbed, x \notin uncounted,
                      NEW p \in Operators, result'[<<p, x>>] # NoResult,
                      NEW b \in GetAVSInfoByTaskAddress(x[1]), StatisticalEnd(x) < epoch[avs[b].identifier]
               PROVE  task[x].counted
    BY <1>2, <1>3, ZenonT(60) DEF EveryTaskCounted, StatisticalEnd, ResponseEnd
  <2>1. x \in Tasks /\ t \in Tasks
    BY DEF Existing
  <2>2. CASE result[<<p, x>>] # NoResult
    BY <2>2 DEF TaskInv, EveryTaskCounted
  <2>3. CASE result[<<p, x>>] = NoResult
    <3>1. <<p, x>> = <<o, t>>
      BY <1>1, <2>1, <2>3
    <3>2. x = t /\ p = o
      BY <3>1
    <3>3. b = a
      BY <3>2, UniqueHolder DEF TaskInv
    <3>4. epoch[avs[a].identifier] <= ResponseEnd(t)
      BY <2>3, <3>2 DEF InPreparePhase
    <3>5. ResponseEnd(t) \in Nat /\ StatisticalEnd(t) \in Nat /\ ResponseEnd(t) <= StatisticalEnd(t)
      BY TaskShape DEF TaskInv
    <3> QED
      BY <1>1, <3>2, <3>3, <3>4, <3>5
  <2> QED
    BY <2>2, <2>3
<1> QED
  BY <1>4, <1>5, <1>6, <1>7, <1>8 DEF TaskInv

\* RaiseAndResolveChallenge gives a task its verdict once, after its statistics.
LEMMA ChallengeTasks ==
  ASSUME TaskInv, NEW a \in AVSs, NEW t \in Tasks, NEW e \in BOOLEAN, Challenge(a, t, e)
  PROVE  /\ TaskInv' /\ t \notin challenged /\ challenged \subseteq challenged'
         /\ \A x \in Existing \ {t} : task'[x] = task[x]
<1>1. /\ t \in Existing /\ a \in GetAVSInfoByTaskAddress(t[1]) /\ t \notin challenged
      /\ InChallengePhase(t, epoch[avs[a].identifier])
      /\ challenged' = challenged \cup {t} /\ task' = [task EXCEPT ![t].isExpected = e]
      /\ UNCHANGED <<epoch, avs, optedIn, powered, unsettled, blsKey, lastTaskID, result, disturbed, uncounted>>
  BY Zenon DEF Challenge, MayChallenge
<1>2. task \in [Tasks -> TaskInfo \cup {NoTask}] /\ task[t] \in TaskInfo
  BY <1>1, TaskShape DEF TaskInv, Types
<1>3. /\ task'[t] \in TaskInfo /\ task'[t].start = task[t].start /\ task'[t].response = task[t].response
      /\ task'[t].statistical = task[t].statistical /\ task'[t].counted = task[t].counted
  BY <1>1, <1>2, Zenon DEF TaskInfo
<1>4. task' \in [Tasks -> TaskInfo \cup {NoTask}] /\ \A x \in Tasks \ {t} : task'[x] = task[x]
  BY <1>1, <1>2, <1>3
<1>5. task'[t] # NoTask
  BY <1>2, <1>3 DEF TaskInfo, NoTask
<1>6. Existing' = Existing
  BY <1>1, <1>4, <1>5 DEF Existing
<1>7. \A x \in Existing : StatisticalEnd(x)' = StatisticalEnd(x) /\ task'[x].counted = task[x].counted
  BY <1>3, <1>4 DEF Existing, StatisticalEnd, ResponseEnd
<1>8. Registered' = Registered /\ \A x : GetAVSInfoByTaskAddress(x)' = GetAVSInfoByTaskAddress(x)
  BY <1>1 DEF Registered, GetAVSInfoByTaskAddress
<1>9. Types'
  <2>1. challenged' \subseteq Existing'
    BY <1>1, <1>6 DEF TaskInv, Types
  <2> QED
    BY <1>1, <1>4, <2>1, Zenon DEF TaskInv, Types
<1>10. OneHolder'
  BY <1>1, <1>8, Zenon DEF TaskInv, OneHolder
<1>11. HolderKnown'
  BY <1>1, <1>6, <1>8, Zenon DEF TaskInv, HolderKnown
<1>12. FreshTasks'
  BY <1>1, <1>4, Zenon DEF TaskInv, FreshTasks, Existing
<1>13. ClosedArePast'
  <2> SUFFICES ASSUME NEW x \in Existing, x \notin disturbed, x \in challenged' \/ task'[x].counted,
                      NEW b \in GetAVSInfoByTaskAddress(x[1])
               PROVE  StatisticalEnd(x) < epoch[avs[b].identifier]
    BY <1>1, <1>6, <1>7, <1>8, ZenonT(60) DEF ClosedArePast, Past
  <2>1. CASE x = t
    <3>1. b = a
      BY <1>1, <2>1, UniqueHolder DEF TaskInv
    <3>2. StatisticalEnd(t) \in Nat /\ avs[a].identifier \in Identifiers
      BY <1>1, <2>1, TaskShape DEF TaskInv, HolderKnown
    <3>3. epoch[avs[a].identifier] \in Nat
      BY <3>2, Zenon DEF TaskInv, Types
    <3> QED
      BY <1>1, <2>1, <3>1, <3>2, <3>3 DEF InChallengePhase
  <2>2. CASE x # t
    <3>1. x \in challenged \/ task[x].counted
      BY <1>1, <1>7, <2>2
    <3> QED
      BY <3>1, Zenon DEF TaskInv, ClosedArePast, Past
  <2> QED
    BY <2>1, <2>2
<1>14. EveryTaskCounted'
  BY <1>1, <1>6, <1>7, <1>8, ZenonT(60) DEF TaskInv, EveryTaskCounted
<1> QED
  BY <1>1, <1>4, <1>9, <1>10, <1>11, <1>12, <1>13, <1>14 DEF TaskInv, Existing
-----------------------------------------------------------------------------
(* An epoch ends.                                                          *)

\* Statistics touch nothing a window depends on.
LEMMA StatisticsShape ==
  ASSUME Types, NEW t \in Existing, NEW w \in Spellings
  PROVE  /\ Statistics(t, w) \in TaskInfo /\ Statistics(t, w) # NoTask
         /\ Statistics(t, w).start = task[t].start /\ Statistics(t, w).response = task[t].response
         /\ Statistics(t, w).statistical = task[t].statistical
         /\ Statistics(t, w).counted = TRUE /\ Statistics(t, w).optedIn = task[t].optedIn
         /\ Statistics(t, w).signed = SignedOperators(t, w)
         /\ Statistics(t, w).noSigned = Difference(task[t].optedIn, SignedOperators(t, w))
<1>1. task[t] \in TaskInfo
  BY TaskShape
<1>2. SignedOperators(t, w) \subseteq Operators
  BY Zenon DEF SignedOperators
<1>3. /\ Statistics(t, w) \in TaskInfo
      /\ Statistics(t, w).start = task[t].start /\ Statistics(t, w).response = task[t].response
      /\ Statistics(t, w).statistical = task[t].statistical
      /\ Statistics(t, w).counted = TRUE /\ Statistics(t, w).optedIn = task[t].optedIn
      /\ Statistics(t, w).signed = SignedOperators(t, w)
      /\ Statistics(t, w).noSigned = Difference(task[t].optedIn, SignedOperators(t, w))
  <2>1. Difference(task[t].optedIn, SignedOperators(t, w)) \subseteq Operators
    BY <1>1, <1>2 DEF Difference, TaskInfo
  <2> QED
    BY <1>1, <1>2, <2>1, Zenon DEF Statistics, TaskInfo
<1>4. Statistics(t, w) # NoTask
  <2>1. Statistics(t, w).start # 0
    BY <1>1, <1>3, Zenon DEF TaskInfo
  <2> QED
    BY <2>1 DEF NoTask
<1> QED
  BY <1>3, <1>4, Zenon

\* The tasks whose period ends with the current epoch of i, and those of them
\* whose AVS has power after the recomputation.
Due(i) == GetTaskStatisticalEpochEndAVSs(i, epoch[i])
Counted(i) == {t \in Due(i) : GetAVSInfoByTaskAddress(t[1]) \cap powered' # {}}

\* What the epoch hook changes: the statistics of the tasks that are due, and the epoch.
LEMMA EpochEndFacts ==
  ASSUME TaskInv, NEW i \in Identifiers, AfterEpochEnd(i)
  PROVE  /\ task' \in [Tasks -> TaskInfo \cup {NoTask}] /\ Existing' = Existing
         /\ \A t \in Existing : StatisticalEnd(t)' = StatisticalEnd(t)
         /\ \A t \in Tasks \ Counted(i) : task'[t] = task[t]
         /\ \A t \in Counted(i) :
              \E w \in Spellings : w \in GroupTasksByIDAndAddress(t) /\ task'[t] = Statistics(t, w)
         /\ \A t \in Counted(i) : t \in Existing /\ task'[t].counted
         /\ uncounted' = uncounted \cup (Due(i) \ Counted(i))
         /\ epoch' \in [Identifiers -> Nat] /\ epoch'[i] = epoch[i] + 1
         /\ \A j \in Identifiers \ {i} : epoch'[j] = epoch[j]
<1>1. PICK last \in [Counted(i) -> Spellings] :
        /\ \A t \in Counted(i) : last[t] \in GroupTasksByIDAndAddress(t)
        /\ task' = [t \in Tasks |-> IF t \in Counted(i) THEN Statistics(t, last[t]) ELSE task[t]]
  BY Zenon DEF AfterEpochEnd, Due, Counted
<1>2. uncounted' = uncounted \cup (Due(i) \ Counted(i)) /\ epoch' = [epoch EXCEPT ![i] = @ + 1]
  BY Zenon DEF AfterEpochEnd, Due, Counted
<1>3. Counted(i) \subseteq Existing /\ Existing \subseteq Tasks
  BY Zenon DEF Counted, Due, GetTaskStatisticalEpochEndAVSs, Existing
<1>4. epoch \in [Identifiers -> Nat] /\ task \in [Tasks -> TaskInfo \cup {NoTask}]
  BY DEF TaskInv, Types
<1>5. \A t \in Counted(i) :
        /\ Statistics(t, last[t]) \in TaskInfo /\ Statistics(t, last[t]) # NoTask
        /\ Statistics(t, last[t]).start = task[t].start /\ Statistics(t, last[t]).response = task[t].response
        /\ Statistics(t, last[t]).statistical = task[t].statistical /\ Statistics(t, last[t]).counted = TRUE
  <2> SUFFICES ASSUME NEW t \in Counted(i)
               PROVE  /\ Statistics(t, last[t]) \in TaskInfo /\ Statistics(t, last[t]) # NoTask
                      /\ Statistics(t, last[t]).start = task[t].start /\ Statistics(t, last[t]).response = task[t].response
                      /\ Statistics(t, last[t]).statistical = task[t].statistical /\ Statistics(t, last[t]).counted = TRUE
    BY Zenon
  <2>1. t \in Existing /\ last[t] \in Spellings /\ Types
    BY <1>3 DEF TaskInv
  <2>2. PICK w \in Spellings : w = last[t]
    BY <2>1
  <2>3. /\ Statistics(t, w) \in TaskInfo /\ Statistics(t, w) # NoTask
        /\ Statistics(t, w).start = task[t].start /\ Statistics(t, w).response = task[t].response
        /\ Statistics(t, w).statistical = task[t].statistical /\ Statistics(t, w).counted = TRUE
    BY <2>1, StatisticsShape, Zenon
  <2> QED
    BY <2>2, <2>3
<1>6. /\ \A t \in Tasks \ Counted(i) : task'[t] = task[t]
      /\ \A t \in Counted(i) : task'[t] = Statistics(t, last[t]) /\ last[t] \in Spellings /\ t \in Existing
  BY <1>1, <1>3
<1>7. task' \in [Tasks -> TaskInfo \cup {NoTask}]
  BY <1>1, <1>4, <1>5
<1>8. Existing' = Existing
  BY <1>3, <1>5, <1>6 DEF Existing
<1>9. \A t \in Existing : StatisticalEnd(t)' = StatisticalEnd(t)
  BY <1>3, <1>5, <1>6, Zenon DEF StatisticalEnd, ResponseEnd
<1>10. \A t \in Counted(i) : t \in Existing /\ task'[t].counted
  BY <1>5, <1>6
<1>11. /\ epoch' \in [Identifiers -> Nat] /\ epoch'[i] = epoch[i] + 1
       /\ \A j \in Identifiers \ {i} : epoch'[j] = epoch[j]
  BY <1>2, <1>4
<1> QED
  BY <1>1, <1>2, <1>6, <1>7, <1>8, <1>9, <1>10, <1>11, Zenon

\* The epoch hook counts every task whose statistical period ends.
LEMMA EpochEndTasks ==
  ASSUME TaskInv, NEW i \in Identifiers, AfterEpochEnd(i)
  PROVE  TaskInv' /\ \A t \in challenged \ disturbed : task'[t] = task[t]
<1>1. /\ task' \in [Tasks -> TaskInfo \cup {NoTask}] /\ Existing' = Existing
      /\ \A t \in Existing : StatisticalEnd(t)' = StatisticalEnd(t)
      /\ \A t \in Tasks \ Counted(i) : task'[t] = task[t]
      /\ \A t \in Counted(i) : t \in Existing /\ task'[t].counted
      /\ uncounted' = uncounted \cup (Due(i) \ Counted(i))
      /\ epoch' \in [Identifiers -> Nat] /\ epoch'[i] = epoch[i] + 1
      /\ \A j \in Identifiers \ {i} : epoch'[j] = epoch[j]
  BY EpochEndFacts, Zenon
<1>2. /\ UNCHANGED <<avs, optedIn, blsKey, lastTaskID, result, challenged, disturbed>>
      /\ unsettled' \subseteq unsettled
      /\ UpdateVotingPower(GetEpochEndAVSs(i, epoch[i]))
  BY Zenon DEF AfterEpochEnd
<1>3. powered' \subseteq AVSs
  <2>1. GetEpochEndAVSs(i, epoch[i]) \subseteq AVSs /\ powered \subseteq AVSs
    BY DEF GetEpochEndAVSs, Registered, TaskInv, Types
  <2> QED
    BY <1>2, <2>1 DEF UpdateVotingPower
<1>4. epoch \in [Identifiers -> Nat] /\ Existing \subseteq Tasks
  BY DEF TaskInv, Types, Existing
<1>5. Registered' = Registered /\ \A x : GetAVSInfoByTaskAddress(x)' = GetAVSInfoByTaskAddress(x)
  BY <1>2 DEF Registered, GetAVSInfoByTaskAddress
<1>6. \A t \in Due(i) : /\ StatisticalEnd(t) = epoch[i]
                        /\ \E a \in GetAVSInfoByTaskAddress(t[1]) : avs[a].identifier = i
  BY DEF Due, GetTaskStatisticalEpochEndAVSs
<1>7. ASSUME NEW t \in Existing, t \notin disturbed, NEW b \in GetAVSInfoByTaskAddress(t[1])
      PROVE  /\ avs[b].identifier \in Identifiers /\ epoch[avs[b].identifier] \in Nat
             /\ epoch'[avs[b].identifier] \in Nat /\ StatisticalEnd(t) \in Nat
             /\ epoch[avs[b].identifier] <= epoch'[avs[b].identifier]
             /\ t \in Due(i) => avs[b].identifier = i
  <2>1. avs[b].identifier \in Identifiers /\ StatisticalEnd(t) \in Nat
    BY <1>7, TaskShape, Zenon DEF TaskInv, HolderKnown
  <2>2. t \in Due(i) => avs[b].identifier = i
    BY <1>6, <1>7, UniqueHolder, Zenon DEF TaskInv
  <2> QED
    BY <1>1, <1>4, <2>1, <2>2
<1>8. Types'
  <2>1. unsettled' \subseteq AVSs
    BY <1>2 DEF TaskInv, Types
  <2> QED
    BY <1>1, <1>2, <1>3, <2>1, Zenon DEF TaskInv, Types
<1>9. OneHolder'
  BY <1>2, <1>5, Zenon DEF TaskInv, OneHolder
<1>10. HolderKnown'
  BY <1>1, <1>2, <1>5, Zenon DEF TaskInv, HolderKnown
<1>11. FreshTasks'
  <2> SUFFICES ASSUME NEW t \in Tasks, t[2] > lastTaskID[t[1]] PROVE task'[t] = NoTask
    BY <1>2 DEF FreshTasks
  <2>1. task[t] = NoTask
    BY Zenon DEF TaskInv, FreshTasks
  <2>2. t \notin Counted(i)
    BY <1>1, <2>1 DEF Existing
  <2> QED
    BY <1>1, <2>1, <2>2, Zenon
<1>12. ClosedArePast'
  <2> SUFFICES ASSUME NEW t \in Existing, t \notin disturbed, t \in challenged \/ task'[t].counted,
                      NEW b \in GetAVSInfoByTaskAddress(t[1])
               PROVE  StatisticalEnd(t) < epoch'[avs[b].identifier]
    <3>1. ASSUME NEW t \in Existing', t \notin disturbed', t \in challenged' \/ task'[t].counted
          PROVE  Past(t)'
      <4>1. \A b \in GetAVSInfoByTaskAddress(t[1]) : StatisticalEnd(t) < epoch'[avs[b].identifier]
        BY <1>1, <1>2, <3>1, Zenon
      <4>2. avs' = avs /\ StatisticalEnd(t)' = StatisticalEnd(t)
        BY <1>1, <1>2, <3>1, Zenon
      <4> QED
        BY <1>5, <4>1, <4>2, Zenon DEF Past
    <3> QED
      BY <3>1, Zenon DEF ClosedArePast
  <2>1. CASE t \in Counted(i)
    <3>1. t \in Due(i) /\ StatisticalEnd(t) = epoch[i] /\ avs[b].identifier = i
      BY <1>6, <1>7, <2>1, Zenon DEF Counted
    <3> QED
      BY <1>1, <1>4, <3>1
  <2>2. CASE t \notin Counted(i)
    <3>1. t \in challenged \/ task[t].counted
      BY <1>1, <1>4, <2>2, Zenon
    <3>2. StatisticalEnd(t) < epoch[avs[b].identifier]
      BY <3>1 DEF TaskInv, ClosedArePast, Past
    <3> QED
      BY <1>7, <3>2
  <2> QED
    BY <2>1, <2>2
<1>13. EveryTaskCounted'
  <2> SUFFICES ASSUME NEW t \in Existing, t \notin disturbed, t \notin uncounted',
                      \E o \in Operators : result[<<o, t>>] # NoResult,
                      NEW b \in GetAVSInfoByTaskAddress(t[1]), StatisticalEnd(t) < epoch'[avs[b].identifier]
               PROVE  task'[t].counted
    <3>1. ASSUME NEW t \in Existing', t \notin disturbed' \cup uncounted',
                 \E o \in Operators : result'[<<o, t>>] # NoResult,
                 NEW b \in GetAVSInfoByTaskAddress(t[1])', StatisticalEnd(t)' < epoch'[avs'[b].identifier]
          PROVE  task'[t].counted
      <4>1. t \in Existing /\ t \notin disturbed /\ t \notin uncounted' /\ avs' = avs /\ result' = result
        BY <1>1, <1>2, <3>1, Zenon
      <4>2. b \in GetAVSInfoByTaskAddress(t[1]) /\ StatisticalEnd(t)' = StatisticalEnd(t)
        BY <1>1, <1>5, <3>1, <4>1, Zenon
      <4> QED
        BY <3>1, <4>1, <4>2, Zenon
    <3> QED
      BY <3>1, Zenon DEF EveryTaskCounted
  <2>1. CASE t \in Counted(i)
    BY <1>1, <2>1, Zenon
  <2>2. CASE t \notin Counted(i)
    <3>1. t \notin Due(i)
      BY <1>1, <2>2, Zenon
    <3>2. avs[b].identifier = i => epoch[i] # StatisticalEnd(t)
      BY <3>1, Zenon DEF Due, GetTaskStatisticalEpochEndAVSs
    <3>3. StatisticalEnd(t) < epoch[avs[b].identifier]
      BY <1>1, <1>4, <1>7, <3>2
    <3>4. task[t].counted
      BY <1>1, <3>3, Zenon DEF TaskInv, EveryTaskCounted
    <3> QED
      BY <1>1, <1>4, <2>2, <3>4, Zenon
  <2> QED
    BY <2>1, <2>2
<1>14. ASSUME NEW t \in challenged \ disturbed PROVE task'[t] = task[t]
  <2>1. t \in Existing
    BY DEF TaskInv, Types
  <2>2. t \notin Counted(i)
    <3> SUFFICES ASSUME t \in Counted(i) PROVE FALSE
      OBVIOUS
    <3>1. PICK a \in GetAVSInfoByTaskAddress(t[1]) : avs[a].identifier = i
      BY <1>6, Zenon DEF Counted
    <3>2. StatisticalEnd(t) < epoch[i]
      BY <2>1, <3>1 DEF TaskInv, ClosedArePast, Past
    <3>3. StatisticalEnd(t) = epoch[i]
      BY <1>6 DEF Counted
    <3> QED
      BY <1>4, <3>2, <3>3
  <2> QED
    BY <1>1, <1>4, <2>1, <2>2
<1> QED
  BY <1>8, <1>9, <1>10, <1>11, <1>12, <1>13, <1>14, Zenon DEF TaskInv
-----------------------------------------------------------------------------
(* Every step preserves the invariant.                                     *)

\* A registered AVS starts without tasks.
LEMMA RegisterTasks ==
  ASSUME TaskInv, NEW a \in AVSs, NEW d \in Addrs, NEW i \in Identifiers, RegisterAVS(a, d, i)
  PROVE  TaskInv'
<1>1. epoch[i] \in Nat
  BY DEF TaskInv, Types
<1>2. PICK new \in AVSInfo : new = RegisteredInfo(d, i) /\ new.task = d
  <2>1. RegisteredInfo(d, i) \in AVSInfo /\ RegisteredInfo(d, i).task = d
    BY <1>1 DEF RegisteredInfo, StartingEpoch, AVSInfo
  <2> QED
    BY <2>1
<1>3. avs' = [avs EXCEPT ![a] = new] /\ ~TaskAddressUsed(a, new.task)
  BY <1>2 DEF RegisterAVS
<1>4. disturbed \subseteq disturbed' /\ \A t \in Existing : t[1] = new.task => t \in disturbed'
  BY <1>2 DEF RegisterAVS
<1>5. UNCHANGED <<epoch, optedIn, powered, unsettled, blsKey, lastTaskID, task, result, challenged, uncounted>>
  BY Zenon DEF RegisterAVS
<1> QED
  BY <1>3, <1>4, <1>5, AVSChange, Zenon

\* UpdateAVSInfo changes no task.
LEMMA UpdateTasks ==
  ASSUME TaskInv, NEW a \in AVSs, NEW d \in Addrs, NEW i \in Identifiers \cup OtherIdentifiers,
         UpdateAVS(a, d, i)
  PROVE  TaskInv'
<1>1. a \in Registered /\ avs[a].identifier \in Identifiers
  BY DEF UpdateAVS, EpochIdentifierOf
<1>2. epoch[avs[a].identifier] \in Nat
  BY <1>1 DEF TaskInv, Types
<1>3. PICK new \in AVSInfo : new = UpdatedInfo(a, d, i) /\ new.task = d /\ new.identifier = i
  <2>1. /\ UpdatedInfo(a, d, i) \in AVSInfo
        /\ UpdatedInfo(a, d, i).task = d /\ UpdatedInfo(a, d, i).identifier = i
    BY <1>2 DEF UpdatedInfo, StartingEpoch, AVSInfo
  <2> QED
    BY <2>1, Zenon
<1>4. avs' = [avs EXCEPT ![a] = new] /\ ~TaskAddressUsed(a, new.task)
  BY <1>3, Zenon DEF UpdateAVS
<1>5. /\ disturbed \subseteq disturbed'
      /\ \/ avs[a].task = new.task /\ avs[a].identifier = new.identifier
         \/ \A t \in Existing : t[1] = new.task => t \in disturbed'
  BY <1>3, Zenon DEF UpdateAVS
<1>6. UNCHANGED <<epoch, optedIn, powered, unsettled, blsKey, lastTaskID, task, result, challenged, uncounted>>
  BY Zenon DEF UpdateAVS
<1> QED
  BY <1>1, <1>4, <1>5, <1>6, AVSChange, Zenon

\* DeleteAVSInfo leaves the tasks of the AVS where they are.
LEMMA DeregisterTasks ==
  ASSUME TaskInv, NEW a \in AVSs, DeregisterAVS(a)
  PROVE  TaskInv'
<1>1. PICK new \in AVSInfo : new = NotRegistered /\ new.task = ZeroAddr
  <2>1. NotRegistered \in AVSInfo /\ NotRegistered.task = ZeroAddr
    BY DEF NotRegistered, AVSInfo, Addrs
  <2> QED
    BY <2>1
<1>2. avs' = [avs EXCEPT ![a] = new] /\ disturbed \subseteq disturbed'
  BY <1>1, Zenon DEF DeregisterAVS
<1>3. \A t \in Existing : t[1] # new.task
  BY <1>1, TaskShape, Zenon DEF TaskInv
<1>4. UNCHANGED <<epoch, optedIn, powered, unsettled, blsKey, lastTaskID, task, result, challenged, uncounted>>
  BY Zenon DEF DeregisterAVS
<1> QED
  BY <1>1, <1>2, <1>3, <1>4, AVSChange, Zenon

\* The first phase of a response stores a signature only.
LEMMA PrepareTasks ==
  ASSUME TaskInv, NEW o \in Operators, NEW a \in AVSs, NEW t \in Tasks, NEW s \in Signatures,
         NEW w \in Spellings, Prepare(o, a, t, s, w)
  PROVE  TaskInv'
<1>1. PICK new \in TaskResultInfo : new = [signature |-> s, response |-> None, spelling |-> w]
  BY Zenon DEF TaskResultInfo
<1>2. /\ t \in Existing /\ a \in GetAVSInfoByTaskAddress(t[1]) /\ avs[a].identifier \in Identifiers
      /\ InPreparePhase(t, epoch[avs[a].identifier])
      /\ result' = [result EXCEPT ![<<o, t>>] = new]
  BY <1>1, Zenon DEF Prepare, MaySubmit
<1>3. UNCHANGED <<epoch, avs, optedIn, powered, unsettled, blsKey, lastTaskID, task, challenged, disturbed, uncounted>>
  BY Zenon DEF Prepare
<1> QED
  BY <1>2, <1>3, ResultTasks, Zenon

\* The second phase of a response stores what was signed, before the statistics.
LEMMA CommitTasks ==
  ASSUME TaskInv, NEW o \in Operators, NEW a \in AVSs, NEW t \in Tasks, NEW r \in Responses,
         NEW w \in Spellings, Commit(o, a, t, r, w)
  PROVE  TaskInv'
<1>1. result[<<o, t>>] \in TaskResultInfo
  <2>1. result[<<o, t>>] \in TaskResultInfo \cup {NoResult}
    BY DEF TaskInv, Types
  <2> QED
    BY <2>1 DEF Commit
<1>2. PICK new \in TaskResultInfo : new = [result[<<o, t>>] EXCEPT !.response = r, !.spelling = w]
  BY <1>1, Zenon DEF TaskResultInfo
<1>3. /\ t \in Existing /\ a \in GetAVSInfoByTaskAddress(t[1]) /\ avs[a].identifier \in Identifiers
      /\ result[<<o, t>>] # NoResult
  BY DEF Commit, MaySubmit
<1>4. result' = [result EXCEPT ![<<o, t>>] = new]
  BY <1>2 DEF Commit
<1>5. UNCHANGED <<epoch, avs, optedIn, powered, unsettled, blsKey, lastTaskID, task, challenged, disturbed, uncounted>>
  BY Zenon DEF Commit
<1> QED
  BY <1>3, <1>4, <1>5, ResultTasks, Zenon

\* Steps that change neither tasks, answers nor keys.
Quiet ==
  /\ UNCHANGED <<task, result, challenged, blsKey>>
  /\ disturbed \subseteq disturbed'

\* What a step can be, as far as tasks, answers and keys go.
LEMMA StepKinds ==
  ASSUME Next
  PROVE  \/ Quiet
         \/ \E o \in Operators, a \in AVSs, k \in Keys : RegisterBLSPublicKey(o, a, k)
         \/ \E a \in AVSs, d \in TaskAddrs, p \in Periods, q \in Periods : CreateAVSTask(a, d, p, q)
         \/ \E o \in Operators, a \in AVSs, t \in Tasks, w \in Spellings, s \in Signatures : Prepare(o, a, t, s, w)
         \/ \E o \in Operators, a \in AVSs, t \in Tasks, w \in Spellings, r \in Responses : Commit(o, a, t, r, w)
         \/ \E a \in AVSs, t \in Tasks, e \in BOOLEAN : Challenge(a, t, e)
         \/ \E i \in Identifiers : AfterEpochEnd(i)
<1>1. ASSUME NEW a \in AVSs, NEW d \in Addrs, NEW i \in Identifiers, RegisterAVS(a, d, i) PROVE Quiet
  BY <1>1, Zenon DEF RegisterAVS, Quiet
<1>2. ASSUME NEW a \in AVSs, NEW d \in Addrs, NEW i \in Identifiers \cup OtherIdentifiers, UpdateAVS(a, d, i)
      PROVE  Quiet
  BY <1>2, Zenon DEF UpdateAVS, Quiet
<1>3. ASSUME NEW a \in AVSs, DeregisterAVS(a) PROVE Quiet
  BY <1>3 DEF DeregisterAVS, Quiet
<1>4. ASSUME NEW o \in Operators, NEW a \in AVSs, BindOperatorToAVS(o, a) PROVE Quiet
  BY <1>4 DEF BindOperatorToAVS, Quiet
<1>5. ASSUME NEW o \in Operators, NEW a \in AVSs, UnbindOperatorToAVS(o, a) PROVE Quiet
  BY <1>5 DEF UnbindOperatorToAVS, Quiet
<1>6. ASSUME NEW a \in AVSs, Slash(a) PROVE Quiet
  BY <1>6 DEF Slash, Quiet
<1> QED
  BY <1>1, <1>2, <1>3, <1>4, <1>5, <1>6, Zenon DEF Next, OperatorSubmitTask

\* Every action keeps the invariant of the tasks.
LEMMA NextTasks == TaskInv /\ [Next]_vars => TaskInv'
<1> SUFFICES ASSUME TaskInv, [Next]_vars PROVE TaskInv'
  OBVIOUS
<1>1. ASSUME NEW o \in Operators, NEW a \in AVSs, BindOperatorToAVS(o, a) PROVE TaskInv'
  <2>1. /\ optedIn \in [AVSs -> SUBSET Operators] /\ powered \subseteq AVSs /\ unsettled \subseteq AVSs
        /\ blsKey \in [Operators \X AVSs -> Keys \cup {None}]
    BY DEF TaskInv, Types
  <2>2. /\ optedIn' \in [AVSs -> SUBSET Operators] /\ powered' \subseteq AVSs /\ unsettled' \subseteq AVSs
        /\ blsKey' \in [Operators \X AVSs -> Keys \cup {None}]
    BY <1>1, <2>1 DEF BindOperatorToAVS
  <2>3. UNCHANGED <<epoch, avs, lastTaskID, task, result, challenged, disturbed, uncounted>>
    BY <1>1, Zenon DEF BindOperatorToAVS
  <2> QED
    BY <2>2, <2>3, TasksUntouched
<1>2. ASSUME NEW o \in Operators, NEW a \in AVSs, UnbindOperatorToAVS(o, a) PROVE TaskInv'
  <2>1. /\ optedIn \in [AVSs -> SUBSET Operators] /\ powered \subseteq AVSs /\ unsettled \subseteq AVSs
        /\ blsKey \in [Operators \X AVSs -> Keys \cup {None}]
    BY DEF TaskInv, Types
  <2>2. /\ optedIn' \in [AVSs -> SUBSET Operators] /\ powered' \subseteq AVSs /\ unsettled' \subseteq AVSs
        /\ blsKey' \in [Operators \X AVSs -> Keys \cup {None}]
    BY <1>2, <2>1 DEF UnbindOperatorToAVS
  <2>3. UNCHANGED <<epoch, avs, lastTaskID, task, result, challenged, disturbed, uncounted>>
    BY <1>2, Zenon DEF UnbindOperatorToAVS
  <2> QED
    BY <2>2, <2>3, TasksUntouched
<1>3. ASSUME NEW o \in Operators, NEW a \in AVSs, NEW k \in Keys, RegisterBLSPublicKey(o, a, k) PROVE TaskInv'
  <2>1. /\ optedIn \in [AVSs -> SUBSET Operators] /\ powered \subseteq AVSs /\ unsettled \subseteq AVSs
        /\ blsKey \in [Operators \X AVSs -> Keys \cup {None}]
    BY DEF TaskInv, Types
  <2>2. /\ optedIn' \in [AVSs -> SUBSET Operators] /\ powered' \subseteq AVSs /\ unsettled' \subseteq AVSs
        /\ blsKey' \in [Operators \X AVSs -> Keys \cup {None}]
    BY <1>3, <2>1 DEF RegisterBLSPublicKey
  <2>3. UNCHANGED <<epoch, avs, lastTaskID, task, result, challenged, disturbed, uncounted>>
    BY <1>3, Zenon DEF RegisterBLSPublicKey
  <2> QED
    BY <2>2, <2>3, TasksUntouched
<1>4. ASSUME NEW a \in AVSs, Slash(a) PROVE TaskInv'
  <2>1. /\ optedIn \in [AVSs -> SUBSET Operators] /\ powered \subseteq AVSs /\ unsettled \subseteq AVSs
        /\ blsKey \in [Operators \X AVSs -> Keys \cup {None}]
    BY DEF TaskInv, Types
  <2>2. /\ optedIn' \in [AVSs -> SUBSET Operators] /\ powered' \subseteq AVSs /\ unsettled' \subseteq AVSs
        /\ blsKey' \in [Operators \X AVSs -> Keys \cup {None}]
    BY <1>4, <2>1 DEF Slash, UpdateVotingPower
  <2>3. UNCHANGED <<epoch, avs, lastTaskID, task, result, challenged, disturbed, uncounted>>
    BY <1>4, Zenon DEF Slash
  <2> QED
    BY <2>2, <2>3, TasksUntouched
<1>5. CASE UNCHANGED vars
  <2>1. /\ optedIn \in [AVSs -> SUBSET Operators] /\ powered \subseteq AVSs /\ unsettled \subseteq AVSs
        /\ blsKey \in [Operators \X AVSs -> Keys \cup {None}]
    BY DEF TaskInv, Types
  <2>2. /\ UNCHANGED <<epoch, avs, lastTaskID, task, result, challenged, disturbed, uncounted>>
        /\ UNCHANGED <<optedIn, powered, unsettled, blsKey>>
    BY <1>5, Zenon DEF vars
  <2> QED
    BY <2>1, <2>2, TasksUntouched
<1> QED
  BY <1>1, <1>2, <1>3, <1>4, <1>5, RegisterTasks, UpdateTasks, DeregisterTasks, CreateTasks, PrepareTasks,
     CommitTasks, ChallengeTasks, EpochEndTasks, Zenon DEF Next, OperatorSubmitTask

\* The invariant of the tasks holds throughout.
LEMMA TasksInvariant == Spec => []TaskInv
BY InitTasks, NextTasks, PTL DEF Spec

\* No task is forgotten at the end of its statistical period: AfterEpochEnd
\* counts every task that has an answer, for all lengths of the two periods,
\* zero included, and whatever other AVSs and identifiers do meanwhile.
THEOREM TasksCounted == Spec => []EveryTaskCounted
<1>1. TaskInv => EveryTaskCounted
  BY DEF TaskInv
<1> QED
  BY <1>1, TasksInvariant, PTL

\* A challenge is the last word on its task: neither a second challenge nor
\* the statistics of a later epoch change a task that was challenged, as long
\* as its AVS keeps its identifier and its task address.
THEOREM VerdictsFinal == Spec => VerdictFinal
<1>1. ASSUME TaskInv, [Next]_vars, NEW t \in challenged \ disturbed
      PROVE  task'[t] = task[t] /\ t \in challenged'
  <2>1. t \in Existing
    BY <1>1 DEF TaskInv, Types
  <2>2. CASE Quiet
    BY <2>2 DEF Quiet
  <2>3. ASSUME NEW o \in Operators, NEW a \in AVSs, NEW k \in Keys, RegisterBLSPublicKey(o, a, k)
        PROVE  task'[t] = task[t] /\ t \in challenged'
    BY <2>3 DEF RegisterBLSPublicKey
  <2>4. ASSUME NEW a \in AVSs, NEW d \in TaskAddrs, NEW p \in Periods, NEW q \in Periods, CreateAVSTask(a, d, p, q)
        PROVE  task'[t] = task[t] /\ t \in challenged'
    <3>1. task'[t] = task[t]
      BY <1>1, <2>1, <2>4, CreateTasks, Zenon
    <3> QED
      BY <2>4, <3>1 DEF CreateAVSTask
  <2>5. ASSUME NEW o \in Operators, NEW a \in AVSs, NEW u \in Tasks, NEW w \in Spellings, NEW s \in Signatures,
               Prepare(o, a, u, s, w)
        PROVE  task'[t] = task[t] /\ t \in challenged'
    BY <2>5, Zenon DEF Prepare
  <2>6. ASSUME NEW o \in Operators, NEW a \in AVSs, NEW u \in Tasks, NEW w \in Spellings, NEW r \in Responses,
               Commit(o, a, u, r, w)
        PROVE  task'[t] = task[t] /\ t \in challenged'
    BY <2>6 DEF Commit
  <2>7. ASSUME NEW a \in AVSs, NEW u \in Tasks, NEW e \in BOOLEAN, Challenge(a, u, e)
        PROVE  task'[t] = task[t] /\ t \in challenged'
    <3>1. /\ u \notin challenged /\ challenged \subseteq challenged'
          /\ \A x \in Existing \ {u} : task'[x] = task[x]
      BY <1>1, <2>7, ChallengeTasks, Zenon
    <3> QED
      BY <2>1, <3>1
  <2>8. ASSUME NEW i \in Identifiers, AfterEpochEnd(i)
        PROVE  task'[t] = task[t] /\ t \in challenged'
    <3>1. task'[t] = task[t]
      BY <1>1, <2>8, EpochEndTasks
    <3> QED
      BY <2>8, <3>1, Zenon DEF AfterEpochEnd
  <2>9. CASE UNCHANGED vars
    BY <2>9 DEF vars
  <2> QED
    BY <1>1, <2>2, <2>3, <2>4, <2>5, <2>6, <2>7, <2>8, <2>9, StepKinds, Zenon
<1>2. TaskInv /\ [Next]_vars => [\A t \in challenged \ disturbed : task'[t] = task[t] /\ t \in challenged']_vars
  BY <1>1
<1> QED
  BY <1>2, TasksInvariant, PTL DEF Spec, VerdictFinal
-----------------------------------------------------------------------------
(* Keys and signatures.                                                    *)

\* Keys are owned, and what is revealed was signed with one's own key.
CreditInv == TaskInv /\ KeysUnique /\ OwnSignature

\* A BLS key that is stored was nobody's before.
LEMMA KeyCredit ==
  ASSUME CreditInv, NEW o \in Operators, NEW a \in AVSs, NEW k \in Keys, RegisterBLSPublicKey(o, a, k)
  PROVE  KeysUnique' /\ OwnSignature'
<1>1. blsKey \in [Operators \X AVSs -> Keys \cup {None}]
  BY DEF CreditInv, TaskInv, Types
<1>2. /\ blsKey[<<o, a>>] = None /\ \A p \in Operators \X AVSs : blsKey[p] # k
      /\ blsKey' = [blsKey EXCEPT ![<<o, a>>] = k] /\ result' = result
  BY <1>1 DEF RegisterBLSPublicKey, MayRegisterKey, IsExistPubKey
<1>3. KeysUnique'
  <2> SUFFICES ASSUME NEW p \in Operators \X AVSs, NEW q \in Operators \X AVSs,
                      blsKey'[p] = blsKey'[q], blsKey'[p] # None
               PROVE  p = q
    BY DEF KeysUnique
  <2>1. CASE p # <<o, a>> /\ q # <<o, a>>
    BY <1>1, <1>2, <2>1 DEF CreditInv, KeysUnique
  <2>2. CASE p = <<o, a>> \/ q = <<o, a>>
    BY <1>1, <1>2, <2>2, Zenon
  <2> QED
    BY <2>1, <2>2
<1>4. OwnSignature'
  <2> SUFFICES ASSUME NEW p \in Operators, NEW t \in Tasks, Revealed(p, t)'
               PROVE  \E b \in AVSs : /\ blsKey'[<<p, b>>] # None
                                      /\ result'[<<p, t>>].signature = <<blsKey'[<<p, b>>], result'[<<p, t>>].response>>
    BY Zenon DEF OwnSignature
  <2>1. Revealed(p, t)
    BY <1>2 DEF Revealed
  <2>2. PICK b \in AVSs : /\ blsKey[<<p, b>>] # None
                          /\ result[<<p, t>>].signature = <<blsKey[<<p, b>>], result[<<p, t>>].response>>
    BY <2>1, Zenon DEF CreditInv, OwnSignature
  <2>3. blsKey'[<<p, b>>] = blsKey[<<p, b>>]
    BY <1>1, <1>2, <2>2, Zenon
  <2> QED
    BY <1>2, <2>2, <2>3, Zenon
<1> QED
  BY <1>3, <1>4

\* A step that leaves keys and results alone.
LEMMA SameCredit ==
  ASSUME CreditInv, blsKey' = blsKey, result' = result
  PROVE  KeysUnique' /\ OwnSignature'
BY Zenon DEF CreditInv, KeysUnique, OwnSignature, Revealed

\* A result is written: it is unrevealed, or signed with the operator's key.
LEMMA WriteCredit ==
  ASSUME CreditInv, blsKey' = blsKey, NEW o \in Operators, NEW u \in Tasks, NEW new,
         result' = [result EXCEPT ![<<o, u>>] = new],
         \/ new.response = None
         \/ \E a \in AVSs : blsKey[<<o, a>>] # None /\ new.signature = <<blsKey[<<o, a>>], new.response>>
  PROVE  KeysUnique' /\ OwnSignature'
<1>1. KeysUnique'
  BY Zenon DEF CreditInv, KeysUnique
<1>2. result \in [Operators \X Tasks -> TaskResultInfo \cup {NoResult}]
  BY Zenon DEF CreditInv, TaskInv, Types
<1>3. OwnSignature'
  <2> SUFFICES ASSUME NEW p \in Operators, NEW t \in Tasks, Revealed(p, t)'
               PROVE  \E b \in AVSs : /\ blsKey'[<<p, b>>] # None
                                      /\ result'[<<p, t>>].signature = <<blsKey'[<<p, b>>], result'[<<p, t>>].response>>
    BY Zenon DEF OwnSignature
  <2>1. CASE <<p, t>> = <<o, u>>
    <3>1. result'[<<p, t>>] = new /\ p = o
      BY <1>2, <2>1
    <3>2. new.response # None
      BY <3>1 DEF Revealed
    <3> QED
      BY <3>1, <3>2
  <2>2. CASE <<p, t>> # <<o, u>>
    <3>1. result'[<<p, t>>] = result[<<p, t>>]
      BY <1>2, <2>2
    <3>2. Revealed(p, t)
      BY <3>1 DEF Revealed
    <3> QED
      BY <3>1, <3>2, Zenon DEF CreditInv, OwnSignature
  <2> QED
    BY <2>1, <2>2, Zenon
<1> QED
  BY <1>1, <1>3

\* The first phase stores a response without its contents: it credits nobody.
LEMMA PrepareCredit ==
  ASSUME CreditInv, NEW o \in Operators, NEW a \in AVSs, NEW t \in Tasks, NEW s \in Signatures,
         NEW w \in Spellings, Prepare(o, a, t, s, w)
  PROVE  KeysUnique' /\ OwnSignature'
<1>1. PICK new : new = [signature |-> s, response |-> None, spelling |-> w]
  BY Zenon
<1>2. new.response = None /\ result' = [result EXCEPT ![<<o, t>>] = new] /\ blsKey' = blsKey
  BY <1>1, Zenon DEF Prepare
<1> QED
  BY <1>2, WriteCredit, Zenon

\* The second phase credits the operator whose key verifies the signature.
LEMMA CommitCredit ==
  ASSUME CreditInv, NEW o \in Operators, NEW a \in AVSs, NEW t \in Tasks, NEW r \in Responses,
         NEW w \in Spellings, Commit(o, a, t, r, w)
  PROVE  KeysUnique' /\ OwnSignature'
<1>1. result[<<o, t>>] \in TaskResultInfo
  <2>1. result[<<o, t>>] \in TaskResultInfo \cup {NoResult}
    BY DEF CreditInv, TaskInv, Types
  <2> QED
    BY <2>1 DEF Commit
<1>2. PICK new : new = [result[<<o, t>>] EXCEPT !.response = r, !.spelling = w]
  OBVIOUS
<1>3. new.response = r /\ new.signature = result[<<o, t>>].signature
  BY <1>1, <1>2 DEF TaskResultInfo
<1>4. /\ blsKey[<<o, a>>] # None /\ result[<<o, t>>].signature = <<blsKey[<<o, a>>], r>>
      /\ blsKey' = blsKey
  BY DEF Commit, MaySubmit, VerifySignature
<1>5. result' = [result EXCEPT ![<<o, t>>] = new]
  BY <1>2 DEF Commit
<1> QED
  BY <1>3, <1>4, <1>5, WriteCredit, Zenon

\* Every action keeps the invariant of the signatures.
LEMMA NextCredit == CreditInv /\ [Next]_vars => CreditInv'
<1> SUFFICES ASSUME CreditInv, [Next]_vars PROVE KeysUnique' /\ OwnSignature'
  BY NextTasks DEF CreditInv
<1>1. CASE Quiet
  BY <1>1, SameCredit DEF Quiet
<1>2. ASSUME NEW a \in AVSs, NEW d \in TaskAddrs, NEW p \in Periods, NEW q \in Periods, CreateAVSTask(a, d, p, q)
      PROVE  KeysUnique' /\ OwnSignature'
  BY <1>2, SameCredit DEF CreateAVSTask
<1>3. ASSUME NEW a \in AVSs, NEW u \in Tasks, NEW e \in BOOLEAN, Challenge(a, u, e)
      PROVE  KeysUnique' /\ OwnSignature'
  BY <1>3, SameCredit, Zenon DEF Challenge
<1>4. ASSUME NEW i \in Identifiers, AfterEpochEnd(i)
      PROVE  KeysUnique' /\ OwnSignature'
  BY <1>4, SameCredit, Zenon DEF AfterEpochEnd
<1>5. CASE UNCHANGED vars
  BY <1>5, SameCredit DEF vars
<1> QED
  BY <1>1, <1>2, <1>3, <1>4, <1>5, KeyCredit, PrepareCredit, CommitCredit, StepKinds, Zenon

\* Two operators never get credit for one signature, whatever moves between
\* AVSs: a response is revealed only under a key of the operator itself, and
\* RegisterBLSPublicKey gives a key to one operator for good.
THEOREM SignaturesOwn == Spec => []NoCopiedSignature
<1>1. Init => CreditInv
  <2> SUFFICES ASSUME Init PROVE KeysUnique /\ OwnSignature
    BY InitTasks DEF CreditInv
  <2>1. KeysUnique
    BY DEF Init, KeysUnique
  <2>2. \A o \in Operators, t \in Tasks : result[<<o, t>>] = NoResult
    BY Zenon DEF Init
  <2>3. OwnSignature
    BY <2>2, Zenon DEF OwnSignature, Revealed
  <2> QED
    BY <2>1, <2>3
<1>2. CreditInv => NoCopiedSignature
  <2> SUFFICES ASSUME CreditInv, NEW t \in Tasks, NEW o \in Operators, NEW p \in Operators,
                      Revealed(o, t), Revealed(p, t),
                      result[<<o, t>>].signature = result[<<p, t>>].signature
               PROVE  o = p
    BY DEF NoCopiedSignature, Existing
  <2>1. PICK a \in AVSs : /\ blsKey[<<o, a>>] # None
                          /\ result[<<o, t>>].signature = <<blsKey[<<o, a>>], result[<<o, t>>].response>>
    BY DEF CreditInv, OwnSignature
  <2>2. PICK b \in AVSs : /\ blsKey[<<p, b>>] # None
                          /\ result[<<p, t>>].signature = <<blsKey[<<p, b>>], result[<<p, t>>].response>>
    BY Zenon DEF CreditInv, OwnSignature
  <2>3. blsKey[<<o, a>>] = blsKey[<<p, b>>]
    <3>1. ASSUME NEW k, NEW l, NEW r, NEW s, <<k, r>> = <<l, s>> PROVE k = l
      BY <3>1
    <3>2. <<blsKey[<<o, a>>], result[<<o, t>>].response>> = <<blsKey[<<p, b>>], result[<<p, t>>].response>>
      BY <2>1, <2>2, Zenon
    <3> QED
      BY <3>1, <3>2, Zenon
  <2>4. <<o, a>> = <<p, b>>
    BY <2>1, <2>3 DEF CreditInv, KeysUnique
  <2> QED
    BY <2>4
<1> QED
  BY <1>1, <1>2, NextCredit, PTL DEF Spec
-----------------------------------------------------------------------------
(* Statistics.                                                             *)

StatisticsInv == TaskInv /\ StatisticsFinal

\* The statistics of t are those of the group of results with spelling w.
GroupCounted(t, w) ==
  /\ task[t].signed = SignedOperators(t, w)
  /\ task[t].noSigned = Difference(task[t].optedIn, SignedOperators(t, w))

\* StatisticsFinal in the terms of the hook.
CountedByGroup ==
  \A t \in Existing \ disturbed :
    task[t].counted => \E w \in GroupTasksByIDAndAddress(t) : GroupCounted(t, w)

\* The two say the same.
LEMMA StatisticsByGroup == StatisticsFinal <=> CountedByGroup
<1> DEFINE signed(t, w) == {o \in Operators : Revealed(o, t) /\ result[<<o, t>>].spelling = w}
           Exact(t, w) == /\ task[t].signed = signed(t, w)
                          /\ task[t].noSigned = (task[t].optedIn \ signed(t, w))
                                                  \cup (signed(t, w) \ task[t].optedIn)
<1>1. \A t, w : SignedOperators(t, w) = signed(t, w)
  BY Zenon DEF SignedOperators, Revealed
<1>2. StatisticsFinal <=> \A t \in Existing \ disturbed :
                            task[t].counted => \E w \in GroupTasksByIDAndAddress(t) : Exact(t, w)
  BY Zenon DEF StatisticsFinal
<1>3. \A t, w : GroupCounted(t, w) <=> Exact(t, w)
  <2> HIDE DEF signed
  <2> QED
    BY <1>1, Zenon DEF GroupCounted, Difference
<1> HIDE DEF Exact
<1> QED
  BY <1>2, <1>3, Zenon DEF CountedByGroup

\* A task, its groups of results and the answers revealed in them stay, or it
\* has no statistics, or they were just made.
LEMMA StatisticsKept ==
  ASSUME StatisticsInv, disturbed \subseteq disturbed',
         \A t \in Existing' \ disturbed' :
           \/ ~task'[t].counted
           \/ /\ t \in Existing
              /\ task'[t].counted = task[t].counted /\ task'[t].signed = task[t].signed
              /\ task'[t].noSigned = task[t].noSigned /\ task'[t].optedIn = task[t].optedIn
              /\ \A w \in GroupTasksByIDAndAddress(t) :
                   w \in GroupTasksByIDAndAddress(t)' /\ SignedOperators(t, w)' = SignedOperators(t, w)
           \/ \E w \in GroupTasksByIDAndAddress(t)' : GroupCounted(t, w)'
  PROVE  StatisticsFinal'
<1>1. SUFFICES ASSUME NEW t \in Existing', t \notin disturbed', task'[t].counted
               PROVE  \E w \in GroupTasksByIDAndAddress(t)' : GroupCounted(t, w)'
  <2>1. StatisticsFinal' <=> CountedByGroup'
    BY StatisticsByGroup, PTL
  <2> QED
    BY <2>1, Zenon DEF CountedByGroup
<1>2. CASE /\ t \in Existing
           /\ task'[t].counted = task[t].counted /\ task'[t].signed = task[t].signed
           /\ task'[t].noSigned = task[t].noSigned /\ task'[t].optedIn = task[t].optedIn
           /\ \A w \in GroupTasksByIDAndAddress(t) :
                w \in GroupTasksByIDAndAddress(t)' /\ SignedOperators(t, w)' = SignedOperators(t, w)
  <2>1. PICK w \in GroupTasksByIDAndAddress(t) : GroupCounted(t, w)
    BY <1>1, <1>2, StatisticsByGroup, Zenon DEF StatisticsInv, CountedByGroup
  <2>2. w \in GroupTasksByIDAndAddress(t)' /\ GroupCounted(t, w)'
    BY <1>2, <2>1, Zenon DEF GroupCounted, Difference
  <2> QED
    BY <2>2
<1> QED
  BY <1>1, <1>2, Zenon

\* A response is taken only before the statistics are made.
LEMMA CommitBeforeStatistics ==
  ASSUME TaskInv, NEW o \in Operators, NEW a \in AVSs, NEW t \in Tasks, NEW r \in Responses,
         NEW w \in Spellings, Commit(o, a, t, r, w), t \notin disturbed
  PROVE  ~task[t].counted
<1>1. /\ t \in Existing /\ a \in GetAVSInfoByTaskAddress(t[1]) /\ avs[a].identifier \in Identifiers
      /\ epoch[avs[a].identifier] <= StatisticalEnd(t)
  BY DEF Commit, MaySubmit, InCommitPhase
<1>2. epoch[avs[a].identifier] \in Nat /\ StatisticalEnd(t) \in Nat
  BY <1>1, TaskShape, Zenon DEF TaskInv, Types
<1>3. task[t].counted => StatisticalEnd(t) < epoch[avs[a].identifier]
  BY <1>1, Zenon DEF TaskInv, ClosedArePast, Past
<1> QED
  BY <1>1, <1>2, <1>3

\* Every action keeps the statistics of the tasks it does not disturb.
LEMMA NextStatistics ==
  ASSUME StatisticsInv, [Next]_vars
  PROVE  StatisticsFinal'
<1> DEFINE SameGroups(t) ==
             \A w \in GroupTasksByIDAndAddress(t) :
               w \in GroupTasksByIDAndAddress(t)' /\ SignedOperators(t, w)' = SignedOperators(t, w)
           Stay(t) == /\ t \in Existing
                      /\ task'[t].counted = task[t].counted /\ task'[t].signed = task[t].signed
                      /\ task'[t].noSigned = task[t].noSigned /\ task'[t].optedIn = task[t].optedIn
                      /\ SameGroups(t)
           Made(t) == \E w \in GroupTasksByIDAndAddress(t)' : GroupCounted(t, w)'
           Kept == /\ disturbed \subseteq disturbed'
                   /\ \A t \in Existing' \ disturbed' : ~task'[t].counted \/ Stay(t) \/ Made(t)
<1>1. \A t \in Existing : task[t] \in TaskInfo
  BY TaskShape, Zenon DEF StatisticsInv, TaskInv
<1>2. SUFFICES Kept
  BY <1>2, StatisticsKept, Zenon
<1>3. TaskInv /\ result \in [Operators \X Tasks -> TaskResultInfo \cup {NoResult}]
      /\ task \in [Tasks -> TaskInfo \cup {NoTask}]
  BY Zenon DEF StatisticsInv, TaskInv, Types
<1>13. ASSUME NEW t, \A o \in Operators : result'[<<o, t>>] = result[<<o, t>>]
       PROVE  SameGroups(t)
  BY <1>13, Zenon DEF GroupTasksByIDAndAddress, SignedOperators
<1>4. ASSUME task' = task, result' = result, disturbed \subseteq disturbed' PROVE Kept
  <2>1. \A t : SameGroups(t)
    BY <1>4, <1>13, Zenon
  <2> HIDE DEF SameGroups
  <2> QED
    BY <1>4, <2>1, Zenon DEF Existing
<1>5. ASSUME NEW a \in AVSs, NEW d \in TaskAddrs, NEW p \in Periods, NEW q \in Periods, CreateAVSTask(a, d, p, q)
      PROVE  Kept
  <2>1. /\ disturbed' = disturbed /\ result' = result /\ avs[a].identifier \in Identifiers
        /\ task' = [task EXCEPT ![<<d, GetTaskID(d)>>] = NewTask(a, p, q)]
    BY <1>5, Zenon DEF CreateAVSTask, MayCreateTask
  <2>2. \A t \in Existing : task'[t] = task[t]
    BY <1>3, <1>5, CreateTasks, Zenon
  <2>3. NewTask(a, p, q).counted = FALSE
    BY Zenon DEF NewTask
  <2>4. ASSUME NEW t \in Existing', t \notin Existing PROVE ~task'[t].counted
    BY <1>3, <2>1, <2>3, <2>4, Zenon DEF Existing
  <2>5. \A t : SameGroups(t)
    BY <1>13, <2>1, Zenon
  <2> HIDE DEF SameGroups
  <2> QED
    BY <2>1, <2>2, <2>4, <2>5, Zenon
<1>6. ASSUME NEW o \in Operators, NEW a \in AVSs, NEW u \in Tasks, NEW w \in Spellings, NEW s \in Signatures,
             Prepare(o, a, u, s, w)
      PROVE  Kept
  <2>1. /\ disturbed' = disturbed /\ task' = task /\ result[<<o, u>>] = NoResult
        /\ result' = [result EXCEPT ![<<o, u>>] = [signature |-> s, response |-> None, spelling |-> w]]
    BY <1>6, Zenon DEF Prepare
  <2>2. ASSUME NEW x \in Operators, NEW t \in Tasks, <<x, t>> # <<o, u>>
        PROVE  result'[<<x, t>>] = result[<<x, t>>]
    BY <1>3, <2>1, <2>2
  <2>3. result'[<<o, u>>] = [signature |-> s, response |-> None, spelling |-> w]
    BY <1>3, <2>1
  <2>4. result'[<<o, u>>].response = None
    BY <2>3
  <2>5. ASSUME NEW t \in Tasks PROVE SameGroups(t)
    <3>1. CASE t = u
      <4>1. \A x \in Operators : x # o => result'[<<x, u>>] = result[<<x, u>>]
        BY <2>2
      <4>2. \A v : SignedOperators(u, v)' = SignedOperators(u, v)
        BY <2>1, <2>4, <4>1, Zenon DEF SignedOperators
      <4>3. GroupTasksByIDAndAddress(u) \subseteq GroupTasksByIDAndAddress(u)'
        BY <2>1, <4>1, Zenon DEF GroupTasksByIDAndAddress
      <4> QED
        BY <3>1, <4>2, <4>3
    <3>2. CASE t # u
      <4>1. \A x \in Operators : result'[<<x, t>>] = result[<<x, t>>]
        BY <2>2, <3>2
      <4> QED
        BY <1>13, <4>1, Zenon
    <3> QED
      BY <3>1, <3>2
  <2> HIDE DEF SameGroups
  <2> QED
    BY <2>1, <2>5, Zenon DEF Existing
<1>7. ASSUME NEW o \in Operators, NEW a \in AVSs, NEW u \in Tasks, NEW w \in Spellings, NEW r \in Responses,
             Commit(o, a, u, r, w)
      PROVE  Kept
  <2>1. /\ disturbed' = disturbed /\ task' = task
        /\ result' = [result EXCEPT ![<<o, u>>] = [@ EXCEPT !.response = r, !.spelling = w]]
    BY <1>7 DEF Commit
  <2>2. u \notin disturbed => ~task[u].counted
    BY <1>3, <1>7, CommitBeforeStatistics
  <2>3. ASSUME NEW t \in Tasks, t # u PROVE SameGroups(t)
    <3>1. \A x \in Operators : result'[<<x, t>>] = result[<<x, t>>]
      BY <1>3, <2>1, <2>3
    <3> QED
      BY <1>13, <3>1, Zenon
  <2> HIDE DEF SameGroups
  <2> QED
    BY <2>1, <2>2, <2>3, Zenon DEF Existing
<1>8. ASSUME NEW a \in AVSs, NEW u \in Tasks, NEW e \in BOOLEAN, Challenge(a, u, e)
      PROVE  Kept
  <2>1. /\ disturbed' = disturbed /\ result' = result /\ u \in Existing
        /\ task' = [task EXCEPT ![u].isExpected = e]
    BY <1>8 DEF Challenge, MayChallenge
  <2>2. /\ task'[u].counted = task[u].counted /\ task'[u].signed = task[u].signed
        /\ task'[u].noSigned = task[u].noSigned /\ task'[u].optedIn = task[u].optedIn
    BY <1>1, <1>3, <2>1 DEF TaskInfo
  <2>3. \A t \in Tasks : t # u => task'[t] = task[t]
    BY <1>3, <2>1
  <2>4. Existing' \subseteq Existing /\ Existing \subseteq Tasks
    BY <2>1, <2>3, Zenon DEF Existing
  <2>5. \A t : SameGroups(t)
    BY <1>13, <2>1, Zenon
  <2> HIDE DEF SameGroups
  <2> QED
    BY <2>1, <2>2, <2>3, <2>4, <2>5, Zenon
<1>9. ASSUME NEW i \in Identifiers, AfterEpochEnd(i)
      PROVE  Kept
  <2>1. disturbed' = disturbed /\ result' = result
    BY <1>9, Zenon DEF AfterEpochEnd
  <2>2. /\ Existing' = Existing
        /\ \A t \in Tasks \ Counted(i) : task'[t] = task[t]
        /\ \A t \in Counted(i) :
             \E w \in Spellings : w \in GroupTasksByIDAndAddress(t) /\ task'[t] = Statistics(t, w)
    BY <1>3, <1>9, EpochEndFacts, Zenon
  <2>3. \A t : SameGroups(t)
    BY <1>13, <2>1, Zenon
  <2>4. ASSUME NEW t \in Existing, t \in Counted(i) PROVE Made(t)
    <3>1. PICK w \in Spellings : w \in GroupTasksByIDAndAddress(t) /\ task'[t] = Statistics(t, w)
      BY <2>2, <2>4
    <3>2. /\ Statistics(t, w).optedIn = task[t].optedIn /\ Statistics(t, w).signed = SignedOperators(t, w)
          /\ Statistics(t, w).noSigned = Difference(task[t].optedIn, SignedOperators(t, w))
      BY <1>3, StatisticsShape, Zenon DEF TaskInv
    <3>3. w \in GroupTasksByIDAndAddress(t)' /\ SignedOperators(t, w)' = SignedOperators(t, w)
      BY <2>3, <3>1, Zenon
    <3>4. GroupCounted(t, w)'
      BY <3>1, <3>2, <3>3, Zenon DEF GroupCounted, Difference
    <3> QED
      BY <3>3, <3>4
  <2>5. ASSUME NEW t \in Existing, t \notin Counted(i) PROVE Stay(t)
    BY <2>2, <2>3, <2>5, Zenon DEF Existing
  <2> HIDE DEF Made, Stay
  <2> QED
    BY <2>1, <2>2, <2>4, <2>5, Zenon
<1> HIDE DEF Kept
<1>10. CASE Quiet
  BY <1>4, <1>10 DEF Quiet
<1>11. ASSUME NEW o \in Operators, NEW a \in AVSs, NEW k \in Keys, RegisterBLSPublicKey(o, a, k) PROVE Kept
  BY <1>4, <1>11 DEF RegisterBLSPublicKey
<1>12. CASE UNCHANGED vars
  BY <1>4, <1>12 DEF vars
<1> QED
  BY <1>5, <1>6, <1>7, <1>8, <1>9, <1>10, <1>11, <1>12, StepKinds, Zenon

\* The statistics of a task are exact for one of its groups of results when
\* they are made, and stay so: no response is taken after them, however the
\* task's address is written and whoever was opted in when it was created.
THEOREM StatisticsStand == Spec => []StatisticsFinal
<1>1. Init => StatisticsInv
  <2>1. Init => StatisticsFinal
    BY Zenon DEF Init, StatisticsFinal, Existing
  <2> QED
    BY <2>1, InitTasks, Zenon DEF StatisticsInv
<1>2. StatisticsInv /\ [Next]_vars => StatisticsInv'
  BY NextTasks, NextStatistics DEF StatisticsInv
<1>3. StatisticsInv => StatisticsFinal
  BY DEF StatisticsInv
<1> QED
  BY <1>1, <1>2, <1>3, PTL DEF Spec
=============================================================================
