------------------------------ MODULE AvsTasks ------------------------------
(***************************************************************************)
(* AVSs and their tasks: x/avs and the avs precompile.                     *)
(*                                                                         *)
(* An AVS registers a task contract and an epoch identifier.  Its contract *)
(* creates tasks; operators answer each in two phases, first a signature   *)
(* alone, then, in a later window, the response it signs.  At the end of   *)
(* the statistical period the chain records who signed, after that the AVS *)
(* may raise one challenge.  All windows are intervals of epochs of the    *)
(* identifier of the AVS that holds the task contract's address NOW, while *)
(* the numbers in a task were taken when it was created.                   *)
(*                                                                         *)
(* Callers are owners of their AVS and operators are registered: the       *)
(* checks of that refuse everything else.  Names, thresholds, minimum      *)
(* stakes, assets and whitelists are left out.  The voting power of an AVS *)
(* is known here only as zero or not, which VotingPower models.            *)
(***************************************************************************)
EXTENDS Integers, FiniteSets

CONSTANTS
  AVSs, Operators, Keys,    \* Keys: BLS keys
  TaskAddrs, ZeroAddr,      \* addresses of task contracts, and the zero address
  Spellings,                \* the ways to write a hex address (upper and lower case)
  Identifiers,              \* the epoch identifiers x/epochs knows
  OtherIdentifiers,         \* names it does not know
  Responses, None,
  Periods,                  \* values of TaskResponsePeriod and TaskStatisticalPeriod
  MaxTasks, MaxEpoch, MaxChanges      \* bounds of the model

ASSUME AvsAssumption ==
  /\ ZeroAddr \notin TaskAddrs
  /\ Identifiers \cap OtherIdentifiers = {}
  /\ None \notin Responses \cup Keys
  /\ Periods \subseteq Nat /\ MaxTasks \in Nat /\ MaxEpoch \in Nat /\ MaxChanges \in Nat

VARIABLES
  epoch,         \* identifier -> CurrentEpoch
  avs,           \* AVS -> AVSInfo, or NotRegistered
  optedIn,       \* AVS -> operators
  powered,       \* the AVSs whose USD value is positive
  unsettled,     \* the AVSs that delay unbonding, or owe rewards
  blsKey,        \* <<operator, AVS>> -> key or None
  lastTaskID,    \* task address -> number of its last task
  task,          \* <<address, id>> -> TaskInfo, or NoTask
  result,        \* <<operator, address, id>> -> TaskResultInfo, or NoResult
  challenged,    \* tasks with a challenge record
  changes,       \* how many transactions of AVSs and keys there were, to bound the model
  \* what happened, for the properties
  disturbed,     \* tasks whose AVS changed its identifier or task address, or left
  uncounted      \* tasks whose statistics fell to an AVS without power

vars == <<epoch, avs, optedIn, powered, unsettled, blsKey, lastTaskID, task, result,
          challenged, changes, disturbed, uncounted>>

Addrs == TaskAddrs \cup {ZeroAddr}
Tasks == TaskAddrs \X (1..MaxTasks)
Signatures == Keys \X Responses     \* made with a key, of a response

NotRegistered == [task |-> ZeroAddr, identifier |-> None, start |-> 0, checksummed |-> FALSE]
NoTask == [start |-> 0]
NoResult == [signature |-> None]

Registered == {a \in AVSs : avs[a] # NotRegistered}
Existing == {t \in Tasks : task[t] # NoTask}

Init ==
  /\ epoch = [i \in Identifiers |-> 1]
  /\ avs = [a \in AVSs |-> NotRegistered]
  /\ optedIn = [a \in AVSs |-> {}]
  /\ powered = {} /\ unsettled = {}
  /\ blsKey = [p \in Operators \X AVSs |-> None]
  /\ lastTaskID = [d \in TaskAddrs |-> 0]
  /\ task = [t \in Tasks |-> NoTask]
  /\ result = [r \in Operators \X Tasks |-> NoResult]
  /\ challenged = {} /\ changes = 0
  /\ disturbed = {} /\ uncounted = {}

-----------------------------------------------------------------------------
(* AVSs *)

(* The AVSs found by a task address; the zero address belongs to nobody. *)
GetAVSInfoByTaskAddress(d) == {a \in Registered : d # ZeroAddr /\ avs[a].task = d}

(* Register and update refuse a task address that another AVS has. *)
TaskAddressUsed(a, d) == GetAVSInfoByTaskAddress(d) \ {a} # {}

(* Tasks that the AVSs of a set hold in this state. *)
TasksOf(S) == {t \in Existing : \E a \in S : avs[a].task = t[1]}

(* AVSs and tasks start with the next epoch. *)
StartingEpoch(i) == epoch[i] + 1

(* UpdateAVSInfo looks up the epoch of the OLD identifier, if there is one. *)
EpochIdentifierOf(a, i) == IF a \in Registered THEN avs[a].identifier ELSE i

(* Registration stores the address of the AVS in lower case. *)
RegisteredInfo(d, i) ==
  [task |-> d, identifier |-> i, start |-> StartingEpoch(i), checksummed |-> FALSE]

(* An update stores it checksummed.  The new identifier is stored as it is, *)
(* with the next epoch of the old one; the zero address replaces a task     *)
(* address like any other.                                                  *)
UpdatedInfo(a, d, i) ==
  [task |-> d, identifier |-> i, start |-> StartingEpoch(avs[a].identifier),
   checksummed |-> TRUE]

RegisterAVS(a, d, i) ==
  /\ changes < MaxChanges /\ changes' = changes + 1
  /\ EpochIdentifierOf(a, i) \in Identifiers
  /\ a \notin Registered /\ ~TaskAddressUsed(a, d)
  /\ avs' = [avs EXCEPT ![a] = RegisteredInfo(d, i)]
  (* tasks left at this address by an AVS that gave it up *)
  /\ disturbed' = disturbed \cup {t \in Existing : t[1] = d}
  /\ UNCHANGED <<epoch, optedIn, powered, unsettled, blsKey, lastTaskID, task, result,
                 challenged, uncounted>>

UpdateAVS(a, d, i) ==
  /\ changes < MaxChanges /\ changes' = changes + 1
  /\ EpochIdentifierOf(a, i) \in Identifiers
  /\ a \in Registered /\ ~TaskAddressUsed(a, d)
  /\ avs' = [avs EXCEPT ![a] = UpdatedInfo(a, d, i)]
  /\ disturbed' = IF avs[a].task = d /\ avs[a].identifier = i THEN disturbed
                  ELSE disturbed \cup TasksOf({a}) \cup {t \in Existing : t[1] = d}
  /\ UNCHANGED <<epoch, optedIn, powered, unsettled, blsKey, lastTaskID, task, result,
                 challenged, uncounted>>

(* No voting power, no influence on unbonding, no rewards left. *)
MayDeregister(a) ==
  /\ a \in Registered /\ avs[a].identifier \in Identifiers
  /\ a \notin powered /\ a \notin unsettled

DeregisterAVS(a) ==
  /\ changes < MaxChanges /\ changes' = changes + 1
  /\ MayDeregister(a)
  /\ avs' = [avs EXCEPT ![a] = NotRegistered]
  /\ disturbed' = disturbed \cup TasksOf({a})
  /\ UNCHANGED <<epoch, optedIn, powered, unsettled, blsKey, lastTaskID, task, result,
                 challenged, uncounted>>

(* Of x/operator: an operator that opted out delays unbonding for a while, *)
(* and rewards have been earned by then.                                   *)
BindOperatorToAVS(o, a) ==
  /\ changes < MaxChanges /\ changes' = changes + 1
  /\ a \in Registered /\ o \notin optedIn[a]
  /\ optedIn' = [optedIn EXCEPT ![a] = @ \cup {o}]
  /\ unsettled' = unsettled \cup {a}
  /\ UNCHANGED <<epoch, avs, powered, blsKey, lastTaskID, task, result, challenged,
                 disturbed, uncounted>>

UnbindOperatorToAVS(o, a) ==
  /\ changes < MaxChanges /\ changes' = changes + 1
  /\ a \in Registered /\ o \in optedIn[a]
  /\ optedIn' = [optedIn EXCEPT ![a] = @ \ {o}]
  /\ UNCHANGED <<epoch, avs, powered, unsettled, blsKey, lastTaskID, task, result,
                 challenged, disturbed, uncounted>>

(* Keys are never given up and never shared, not even by one operator. *)
IsExistPubKey(k) == \E p \in DOMAIN blsKey : blsKey[p] = k

(* One key for an operator and an AVS, which need not be registered. *)
MayRegisterKey(o, a, k) == blsKey[<<o, a>>] = None /\ ~IsExistPubKey(k)

RegisterBLSPublicKey(o, a, k) ==
  /\ changes < MaxChanges /\ changes' = changes + 1
  /\ MayRegisterKey(o, a, k)
  /\ blsKey' = [blsKey EXCEPT ![<<o, a>>] = k]
  /\ UNCHANGED <<epoch, avs, optedIn, powered, unsettled, lastTaskID, task, result,
                 challenged, disturbed, uncounted>>

-----------------------------------------------------------------------------
(* Tasks *)

GetTaskID(d) == lastTaskID[d] + 1

(* IsExistTask is asked before the id is known, for task 0: it never refuses. *)
MayCreateTask(a, d) ==
  /\ a \in GetAVSInfoByTaskAddress(d)
  /\ a \in powered
  /\ avs[a].identifier \in Identifiers
  /\ optedIn[a] # {}

NewTask(a, response, statistical) ==
  [start |-> StartingEpoch(avs[a].identifier), response |-> response,
   statistical |-> statistical, optedIn |-> optedIn[a],
   signed |-> {}, noSigned |-> {}, counted |-> FALSE, isExpected |-> FALSE]

(* The contract at d, of AVS a, creates a task. *)
CreateAVSTask(a, d, response, statistical) ==
  /\ GetTaskID(d) <= MaxTasks
  /\ MayCreateTask(a, d)
  /\ lastTaskID' = [lastTaskID EXCEPT ![d] = GetTaskID(d)]
  /\ task' = [task EXCEPT ![<<d, GetTaskID(d)>>] = NewTask(a, response, statistical)]
  /\ UNCHANGED <<epoch, avs, optedIn, powered, unsettled, blsKey, result, challenged,
                 changes, disturbed, uncounted>>

ResponseEnd(t) == task[t].start + task[t].response
StatisticalEnd(t) == ResponseEnd(t) + task[t].statistical

(* A bug for the runs to find: a window that starts one epoch too early. *)
InChallengePhaseAndLast(t, now) == now >= StatisticalEnd(t)

InPreparePhase(t, now) == now <= ResponseEnd(t)
InCommitPhase(t, now) == now > ResponseEnd(t) /\ now <= StatisticalEnd(t)
InChallengePhase(t, now) == now > StatisticalEnd(t)

(* What SubmitTaskResult requires in either phase.  Whether o was opted in *)
(* when the task was created is not asked.                                 *)
MaySubmit(o, a, t) ==
  /\ t \in Existing
  /\ a \in GetAVSInfoByTaskAddress(t[1])
  /\ blsKey[<<o, a>>] # None
  /\ avs[a].identifier \in Identifiers

(* Phase one: any signature, whose response nobody can see yet.  The       *)
(* address of the task is stored the way it was written.                   *)
Prepare(o, a, t, signature, spelling) ==
  /\ MaySubmit(o, a, t)
  /\ result[<<o, t>>] = NoResult
  /\ InPreparePhase(t, epoch[avs[a].identifier])
  /\ result' = [result EXCEPT ![<<o, t>>] =
                  [signature |-> signature, response |-> None, spelling |-> spelling]]
  /\ UNCHANGED <<epoch, avs, optedIn, powered, unsettled, blsKey, lastTaskID, task,
                 challenged, changes, disturbed, uncounted>>

VerifySignature(k, signature, r) == signature = <<k, r>>

(* A bug for the runs to find: an operator that handed in a signature has *)
(* any response taken, without a look at the window or at its key.        *)
CommitUnchecked(o, a, t, r, spelling) ==
  /\ MaySubmit(o, a, t)
  /\ result[<<o, t>>] # NoResult
  /\ result' = [result EXCEPT ![<<o, t>>] = [@ EXCEPT !.response = r, !.spelling = spelling]]
  /\ UNCHANGED <<epoch, avs, optedIn, powered, unsettled, blsKey, lastTaskID, task,
                 challenged, changes, disturbed, uncounted>>

(* Phase two: the response that was signed, under the key for the AVS that *)
(* holds the task's address now.  A result may be committed again.         *)
Commit(o, a, t, r, spelling) ==
  /\ MaySubmit(o, a, t)
  /\ result[<<o, t>>] # NoResult
  /\ InCommitPhase(t, epoch[avs[a].identifier])
  /\ VerifySignature(blsKey[<<o, a>>], result[<<o, t>>].signature, r)
  /\ result' = [result EXCEPT ![<<o, t>>] = [@ EXCEPT !.response = r, !.spelling = spelling]]
  /\ UNCHANGED <<epoch, avs, optedIn, powered, unsettled, blsKey, lastTaskID, task,
                 challenged, changes, disturbed, uncounted>>

(* A result comes by a contract call, which writes the address checksummed, *)
(* or by a message of the operator, which writes it in any way.             *)
OperatorSubmitTask(o, a, t, spelling) ==
  \/ \E s \in Signatures : Prepare(o, a, t, s, spelling)
  \/ \E r \in Responses : Commit(o, a, t, r, spelling)

(* What RaiseAndResolveChallenge requires. *)
MayChallenge(a, t) ==
  /\ t \in Existing
  /\ ~task[t].isExpected /\ task[t].optedIn # {}
  /\ t \notin challenged
  /\ a \in GetAVSInfoByTaskAddress(t[1])
  /\ avs[a].identifier \in Identifiers
  /\ InChallengePhase(t, epoch[avs[a].identifier])

(* The precompile compares the caller's address, checksummed, with the     *)
(* stored one, which is checksummed only after an update.                  *)
IsOwner(a) == avs[a].checksummed

Challenge(a, t, isExpected) ==
  /\ IsOwner(a) /\ MayChallenge(a, t)
  /\ challenged' = challenged \cup {t}
  /\ task' = [task EXCEPT ![t].isExpected = isExpected]
  /\ UNCHANGED <<epoch, avs, optedIn, powered, unsettled, blsKey, lastTaskID, result,
                 changes, disturbed, uncounted>>

-----------------------------------------------------------------------------
(* The end of an epoch *)

(* A bug for the runs to find: results without a response are skipped. *)
TasksWithResponses(i, n) ==
  {t \in Existing :
     /\ \E o \in Operators : result[<<o, t>>] # NoResult /\ result[<<o, t>>].response # None
     /\ \E a \in GetAVSInfoByTaskAddress(t[1]) : avs[a].identifier = i
     /\ n = StatisticalEnd(t)}

(* The tasks with results whose statistical period ends with epoch n. *)
GetTaskStatisticalEpochEndAVSs(i, n) ==
  {t \in Existing :
     /\ \E o \in Operators : result[<<o, t>>] # NoResult
     /\ \E a \in GetAVSInfoByTaskAddress(t[1]) : avs[a].identifier = i
     /\ n = StatisticalEnd(t)}

(* A bug for the runs to find: a signature without a response counts. *)
SignedOrPrepared(t, spelling) ==
  {o \in Operators : result[<<o, t>>] # NoResult /\ result[<<o, t>>].spelling = spelling}

(* The operators of a group of results that revealed their response. *)
SignedOperators(t, spelling) ==
  {o \in Operators : /\ result[<<o, t>>] # NoResult
                     /\ result[<<o, t>>].response # None
                     /\ result[<<o, t>>].spelling = spelling}

(* Results are grouped by task id and by the address AS WRITTEN, and the   *)
(* groups are visited in the order of a Go map: each group overwrites what *)
(* the one before it wrote, so that any group may be the one that stays.   *)
GroupTasksByIDAndAddress(t) ==
  {result[<<o, t>>].spelling : o \in {p \in Operators : result[<<p, t>>] # NoResult}}

(* types.Difference keeps what is in one of its lists and not in the other. *)
Difference(S, T) == (S \ T) \cup (T \ S)

Statistics(t, spelling) ==
  [task[t] EXCEPT !.signed = SignedOperators(t, spelling),
                  !.noSigned = Difference(task[t].optedIn, SignedOperators(t, spelling)),
                  !.counted = TRUE]

(* The voting power of the AVSs whose epoch ends is computed anew. *)
GetEpochEndAVSs(i, n) ==
  {a \in Registered : avs[a].identifier = i /\ n >= avs[a].start - 1}

UpdateVotingPower(S) ==
  \E P \in SUBSET {a \in S : optedIn[a] # {}} : powered' = (powered \ S) \cup P

(* BeginBlock of the first block after epoch n of identifier i: the hook   *)
(* of x/operator, then that of x/avs, before the number is raised.         *)
AfterEpochEnd(i) ==
  /\ epoch[i] < MaxEpoch
  /\ UpdateVotingPower(GetEpochEndAVSs(i, epoch[i]))
  /\ LET due == GetTaskStatisticalEpochEndAVSs(i, epoch[i])
         counted == {t \in due : GetAVSInfoByTaskAddress(t[1]) \cap powered' # {}}
     IN  /\ \E last \in [counted -> Spellings] :
              /\ \A t \in counted : last[t] \in GroupTasksByIDAndAddress(t)
              /\ task' = [t \in Tasks |-> IF t \in counted THEN Statistics(t, last[t])
                                          ELSE task[t]]
         /\ uncounted' = uncounted \cup (due \ counted)
  /\ epoch' = [epoch EXCEPT ![i] = @ + 1]
  /\ unsettled' \in {U \in SUBSET unsettled : \A a \in unsettled : optedIn[a] # {} => a \in U}
  /\ UNCHANGED <<avs, optedIn, blsKey, lastTaskID, result, challenged, changes, disturbed>>

(* A slash in the middle of an epoch recomputes the powers as well. *)
Slash(a) ==
  /\ changes < MaxChanges /\ changes' = changes + 1
  /\ a \in powered
  /\ UpdateVotingPower({a})
  /\ UNCHANGED <<epoch, avs, optedIn, unsettled, blsKey, lastTaskID, task, result,
                 challenged, disturbed, uncounted>>

Next ==
  \/ \E a \in AVSs, d \in Addrs, i \in Identifiers : RegisterAVS(a, d, i)
  \/ \E a \in AVSs, d \in Addrs, i \in Identifiers \cup OtherIdentifiers : UpdateAVS(a, d, i)
  \/ \E a \in AVSs : DeregisterAVS(a)
  \/ \E o \in Operators, a \in AVSs : BindOperatorToAVS(o, a)
  \/ \E o \in Operators, a \in AVSs : UnbindOperatorToAVS(o, a)
  \/ \E o \in Operators, a \in AVSs, k \in Keys : RegisterBLSPublicKey(o, a, k)
  \/ \E a \in AVSs, d \in TaskAddrs, p \in Periods, q \in Periods : CreateAVSTask(a, d, p, q)
  \/ \E o \in Operators, a \in AVSs, t \in Tasks, w \in Spellings :
       OperatorSubmitTask(o, a, t, w)
  \/ \E a \in AVSs, t \in Tasks, e \in BOOLEAN : Challenge(a, t, e)
  \/ \E i \in Identifiers : AfterEpochEnd(i)
  \/ \E a \in AVSs : Slash(a)

Spec == Init /\ [][Next]_vars

-----------------------------------------------------------------------------
(* Properties *)

Revealed(o, t) == result[<<o, t>>] # NoResult /\ result[<<o, t>>].response # None

(* Two operators never get credit for one signature: a copied one cannot be *)
(* committed, because keys are not shared (RegisterBLSPublicKey) and the    *)
(* signature is checked under the committing operator's own key             *)
(* (SubmitTaskResult), also when the task's address moved between AVSs.     *)
NoCopiedSignature ==
  \A t \in Existing, o \in Operators, p \in Operators :
    o # p /\ Revealed(o, t) /\ Revealed(p, t)
      => result[<<o, t>>].signature # result[<<p, t>>].signature

(* What the end of the statistical period records stays true: the signed    *)
(* operators are those that revealed a response under one spelling of the   *)
(* task's address, all of them when there is one spelling; every operator   *)
(* opted in at creation is then signed or unsigned and not both, and one    *)
(* that revealed without having been opted in is listed as both             *)
(* (AfterEpochEnd, types.Difference and the commit window).                 *)
StatisticsFinal ==
  \A t \in Existing \ disturbed :
    task[t].counted =>
      \E w \in GroupTasksByIDAndAddress(t) :
        LET signed == {o \in Operators : Revealed(o, t) /\ result[<<o, t>>].spelling = w}
        IN  /\ task[t].signed = signed
            /\ task[t].noSigned = (task[t].optedIn \ signed) \cup (signed \ task[t].optedIn)

(* No task is forgotten: past its statistical period, a task somebody       *)
(* answered has statistics, unless its AVS had no power at that moment      *)
(* (AfterEpochEnd has no retry) or changed its identifier or address.       *)
EveryTaskCounted ==
  \A t \in Existing \ (disturbed \cup uncounted) :
    (/\ \E o \in Operators : result[<<o, t>>] # NoResult
     /\ \E a \in GetAVSInfoByTaskAddress(t[1]) : StatisticalEnd(t) < epoch[avs[a].identifier])
      => task[t].counted

(* A challenge judges final statistics and is the last word: nothing about  *)
(* a challenged task changes (RaiseAndResolveChallenge, AfterEpochEnd).     *)
VerdictFinal ==
  [][\A t \in challenged \ disturbed : task'[t] = task[t] /\ t \in challenged']_vars

(* "signed_operators is Actual operators of signatures already signed",     *)
(* said of TaskInfo, for tasks of AVSs that did not change.                 *)
SignedOperatorsAreThoseThatSigned ==
  \A t \in Existing \ disturbed :
    task[t].counted => task[t].signed = {o \in Operators : Revealed(o, t)}

(* "no_signed_operators is the final  unsigned operators", said of TaskInfo. *)
NoSignedOperatorsAreUnsigned ==
  \A t \in Existing \ disturbed :
    task[t].counted => task[t].signed \cap task[t].noSigned = {}

(* "The caller AVS should be the owner of the task": an owner whose         *)
(* challenge the keeper would accept passes the precompile's comparison.    *)
OwnerCanChallenge == \A a \in Registered, t \in Tasks : MayChallenge(a, t) => IsOwner(a)
=============================================================================
