------------------------------- MODULE Dogfood -------------------------------
(***************************************************************************)
(* Consensus keys and the validator set: x/dogfood with the consensus keys *)
(* and the jail of x/operator, what they use of the SDK's x/slashing and   *)
(* x/evidence, and the punishments of x/oracle.                            *)
(*                                                                         *)
(* An operator opts in with a consensus key, may replace it and opts out.  *)
(* The lookup from a key to its operator outlives the key's use, since an  *)
(* infraction is reported later: both the end of an opt-out and the        *)
(* pruning of a replaced key are scheduled EpochsUntilUnbonded epochs      *)
(* ahead.  EndBlock applies what has matured and recomputes the validator  *)
(* set, but only in blocks in which the update flag was raised: the first  *)
(* block of an epoch, or one in which a validator was slashed or jailed or *)
(* an operator left jail.                                                  *)
(*                                                                         *)
(* Time is the epoch number; a block without the flag changes nothing, so  *)
(* an epoch ends in a state whose flag is down, or was raised by x/oracle, *)
(* whose EndBlock follows that of x/dogfood.  The value of an operator's   *)
(* stake is an input.  Missed blocks and missed or bad prices are not      *)
(* counted: a validator may be found down, or be punished by x/oracle, at  *)
(* any moment.                                                             *)
(***************************************************************************)
EXTENDS Integers, FiniteSets, Functions

CONSTANTS
  Operators,             \* numbers: the order of their addresses
  Genesis,               \* the operators that are validators at genesis
  Keys,                  \* consensus keys
  None,                  \* no key, or no operator
  EpochsUntilUnbonded, MaxValidators,    \* parameters of x/dogfood
  JailDuration,          \* DowntimeJailDuration of x/slashing, in epochs
  MissJailDuration, MaliciousJailDuration,   \* those of x/oracle, in epochs
  MaxPower, MaxEpoch, MaxTransactions    \* bounds of the model

ASSUME DogfoodAssumption ==
  /\ Operators \subseteq Nat /\ IsFiniteSet(Operators) /\ Genesis \subseteq Operators
  /\ None \notin Operators \cup Keys
  /\ EpochsUntilUnbonded \in Nat \ {0} /\ MaxValidators \in Nat \ {0}
  /\ JailDuration \in Nat /\ MissJailDuration \in Nat /\ MaliciousJailDuration \in Nat
  /\ MaxPower \in Nat \ {0} /\ MaxEpoch \in Nat \ {0} /\ MaxTransactions \in Nat

VARIABLES
  epoch,           \* CurrentEpoch of the dogfood epoch identifier
  \* x/operator
  opted,           \* "never", "in" or "out"
  jailed, frozen,  \* the operators that are
  removing,        \* those whose opt-out is under way
  key,             \* operator -> its current key
  prevKey,         \* operator -> the key it replaced since the last update
  operatorOf,      \* key -> operator, the lookup slashing uses
  power,           \* operator -> ActiveUSDValue, truncated
  \* x/dogfood
  validators,      \* key -> power of a validator, 0 for the others
  optOuts,         \* epoch -> the opt-outs that end with it
  prunes,          \* epoch -> the keys to prune when it ends
  pendingOptOuts, pendingPrunes,   \* what has matured in this block
  updateFlag,
  late,            \* raised after x/dogfood's EndBlock of the block that has just ended
  \* x/slashing
  pubkeys,         \* keys whose public key it knows
  info,            \* key -> ValidatorSigningInfo, NoInfo if there is none
  transactions,    \* how many there were, to bound the model
  \* what happened, for the properties
  lastIn,          \* key -> last epoch it was a validator's, and whose
  unhooked,        \* operators that replaced a key without x/dogfood being told
  sentence,        \* operator -> epoch until which it must stay in jail
  misfiled,        \* operators whose term x/oracle wrote down under a key they had replaced
  outEpoch         \* operator -> epoch of its last opt-out

operatorVars == <<opted, jailed, frozen, removing, key, prevKey, operatorOf, power>>
scheduleVars == <<optOuts, prunes, pendingOptOuts, pendingPrunes>>
slashingVars == <<pubkeys, info>>
history == <<lastIn, unhooked, sentence, misfiled, outEpoch>>
vars == <<epoch, operatorVars, validators, scheduleVars, updateFlag, late, slashingVars, transactions, history>>

Forever == MaxEpoch + MaxEpoch + JailDuration + MissJailDuration + MaliciousJailDuration + 1
NoInfo == [found |-> FALSE, jailedUntil |-> 0, tombstoned |-> FALSE]
Clean == [NoInfo EXCEPT !.found = TRUE]
NeverIn == [epoch |-> 0, operator |-> None]
-----------------------------------------------------------------------------
(* Operators that take part.                                               *)

IsOptedInAndNotJailed(o) == opted[o] = "in" /\ o \notin jailed /\ o \notin frozen

\* Opted in, or opted out too recently for it to have taken effect.
IsImpactful(o) == opted[o] = "in" \/ (opted[o] = "out" /\ outEpoch[o] = epoch)

\* A recomputation of the voting power, of jailed operators too, by what the
\* stake is worth at that moment.
UpdateVotingPower ==
  \E p \in [Operators -> 0 .. MaxPower] :
    power' = [o \in Operators |-> IF opted[o] = "in" /\ o \notin frozen THEN p[o] ELSE 0]

\* Something that happens in a block before x/dogfood's EndBlock.
Transaction == transactions < MaxTransactions /\ transactions' = transactions + 1 /\ late' = FALSE
-----------------------------------------------------------------------------
\* The genesis validators have a key and their infractions can be recorded.
Init ==
  /\ epoch = 1
  /\ opted = [o \in Operators |-> IF o \in Genesis THEN "in" ELSE "never"]
  /\ jailed = {} /\ frozen = {} /\ removing = {}
  /\ \E f \in Injection(Genesis, Keys) :
       /\ key = [o \in Operators |-> IF o \in Genesis THEN f[o] ELSE None]
       /\ operatorOf = [k \in Keys |-> IF k \in Range(f) THEN AntiFunction(f)[k] ELSE None]
       /\ validators = [k \in Keys |-> IF k \in Range(f) THEN 1 ELSE 0]
       /\ pubkeys = Range(f)
       /\ info = [k \in Keys |-> IF k \in Range(f) THEN Clean ELSE NoInfo]
       /\ lastIn = [k \in Keys |->
                     IF k \in Range(f) THEN [epoch |-> 1, operator |-> AntiFunction(f)[k]] ELSE NeverIn]
  /\ prevKey = [o \in Operators |-> None]
  /\ power = [o \in Operators |-> IF o \in Genesis THEN 1 ELSE 0]
  /\ optOuts = [e \in 1 .. MaxEpoch + EpochsUntilUnbonded |-> {}]
  /\ prunes = [e \in 1 .. MaxEpoch + EpochsUntilUnbonded |-> {}]
  /\ pendingOptOuts = {} /\ pendingPrunes = {}
  /\ updateFlag = FALSE /\ late = FALSE
  /\ transactions = 0
  /\ unhooked = {} /\ misfiled = {}
  /\ sentence = [o \in Operators |-> 0]
  /\ outEpoch = [o \in Operators |-> 0]
-----------------------------------------------------------------------------
(* Consensus keys.                                                         *)

\* Mutant: an epoch too early.
CompletionEpochTooEarly == epoch + EpochsUntilUnbonded - 1

GetUnbondingCompletionEpoch == epoch + EpochsUntilUnbonded

AppendConsensusAddrToPrune(k) ==
  prunes' = [prunes EXCEPT ![GetUnbondingCompletionEpoch] = @ \cup {k}]

\* Mutant: a fresh start for the new key.
FreshInfo(from) == Clean

\* CopyValidatorSigningInfo from `from' for a replacement.
MigratedInfo(from) == IF info[from].found THEN info[from] ELSE Clean

\* Mutant: no key counts as used.
KeyNeverInUse(k) == FALSE

\* Also a key that was replaced and whose lookup has not been pruned.
KeyInUse(k) == operatorOf[k] # None

\* Mutant: the tombstone is not looked at.
NeverTombstoned(k) == FALSE

IsTombstoned(k) == info[k].tombstoned

\* The public keys x/slashing knows after the hook has run for k.
AfterValidatorCreated(o, k) == pubkeys \cup {k}

\* SetOperatorConsKeyForChainID.  Only the first replacement since the last
\* update of the validator set is recorded and runs the hooks.
SetOperatorConsKey(o, k) ==
  LET old == key[o]
      found == old # None
      alreadyRecorded == found /\ prevKey[o] # None
  IN  /\ o \notin frozen
      /\ o \notin removing
      /\ ~KeyInUse(k)
      /\ ~alreadyRecorded => ~IsTombstoned(k)
      /\ key' = [key EXCEPT ![o] = k]
      /\ operatorOf' = [operatorOf EXCEPT ![k] = o]
      /\ prevKey' = IF found /\ ~alreadyRecorded THEN [prevKey EXCEPT ![o] = old] ELSE prevKey
      /\ pubkeys' = IF alreadyRecorded THEN pubkeys ELSE AfterValidatorCreated(o, k)
      /\ IF found /\ ~alreadyRecorded
         THEN AppendConsensusAddrToPrune(old) /\ info' = [info EXCEPT ![k] = MigratedInfo(old)]
         ELSE UNCHANGED <<prunes, info>>
      /\ unhooked' = IF alreadyRecorded THEN unhooked \cup {o} ELSE unhooked

OptInWithConsKey(o, k) ==
  /\ opted[o] # "in" /\ o \notin jailed
  /\ opted' = [opted EXCEPT ![o] = "in"]
  /\ power' = [power EXCEPT ![o] = 0]
  /\ SetOperatorConsKey(o, k)
  /\ Transaction
  /\ UNCHANGED <<epoch, jailed, frozen, removing, validators, optOuts, pendingOptOuts, pendingPrunes,
                 updateFlag, lastIn, sentence, misfiled, outEpoch>>

SetConsKey(o, k) ==
  /\ opted[o] = "in"
  /\ SetOperatorConsKey(o, k)
  /\ Transaction
  /\ UNCHANGED <<epoch, opted, jailed, frozen, removing, power, validators, optOuts, pendingOptOuts,
                 pendingPrunes, updateFlag, lastIn, sentence, misfiled, outEpoch>>

\* OptOut starts the removal of the key, which x/dogfood schedules.
OptOut(o) ==
  /\ o \notin frozen /\ opted[o] = "in"
  /\ opted' = [opted EXCEPT ![o] = "out"]
  /\ removing' = removing \cup {o}
  /\ optOuts' = [optOuts EXCEPT ![GetUnbondingCompletionEpoch] = @ \cup {o}]
  /\ AppendConsensusAddrToPrune(key[o])
  /\ outEpoch' = [outEpoch EXCEPT ![o] = epoch]
  /\ Transaction
  /\ UNCHANGED <<epoch, jailed, frozen, key, prevKey, operatorOf, power, validators, pendingOptOuts,
                 pendingPrunes, updateFlag, slashingVars, lastIn, unhooked, sentence, misfiled>>
-----------------------------------------------------------------------------
(* Infractions and jail.                                                   *)

\* Mutant: forgets operators whose opt-out has not taken effect.
ChangesSetOptedIn(o) == opted[o] = "in" /\ key[o] # None /\ validators[key[o]] > 0

\* afterStakingOrJailChange asks for an update if the operator's current key
\* is a validator's.
ChangesSet(o) == IsImpactful(o) /\ key[o] # None /\ validators[key[o]] > 0

\* HandleValidatorSignature finds the validator down.
Downtime(k) ==
  LET o == operatorOf[k]
      punished == [info[k] EXCEPT !.jailedUntil = epoch + JailDuration]
  IN  /\ validators[k] > 0 /\ k \in pubkeys /\ info[k].found
      /\ o # None /\ o \notin jailed /\ key[o] # None
      /\ (UpdateVotingPower \/ UNCHANGED power)   \* the slash itself may fail
      /\ info' = [x \in Keys |-> IF x \in {k, key[o]} THEN punished ELSE info[x]]
      /\ jailed' = jailed \cup {o}
      /\ updateFlag' = (updateFlag \/ ChangesSet(o))
      /\ sentence' = [sentence EXCEPT ![o] = epoch + JailDuration] /\ misfiled' = misfiled \ {o}
      /\ Transaction
      /\ UNCHANGED <<epoch, opted, frozen, removing, key, prevKey, operatorOf, validators, scheduleVars,
                     pubkeys, lastIn, unhooked, outEpoch>>

\* HandleEquivocationEvidence: two votes of a key, from the time it was a
\* validator's and not older than the unbonding period.
DoubleSign(k) ==
  LET o == operatorOf[k]
      punished == [info[k] EXCEPT !.jailedUntil = Forever, !.tombstoned = TRUE]
  IN  /\ lastIn[k] # NeverIn /\ lastIn[k].epoch + EpochsUntilUnbonded >= epoch
      /\ k \in pubkeys /\ info[k].found /\ ~info[k].tombstoned
      /\ o # None /\ key[o] # None
      /\ \/ UpdateVotingPower /\ updateFlag' = (updateFlag \/ ChangesSet(o))
         \/ UNCHANGED power /\ updateFlag' = (updateFlag \/ (o \notin jailed /\ ChangesSet(o)))
      /\ info' = [x \in Keys |-> IF x \in {k, key[o]} THEN punished ELSE info[x]]
      /\ jailed' = jailed \cup {o}
      /\ frozen' = frozen \cup {o}
      /\ sentence' = [sentence EXCEPT ![o] = Forever] /\ misfiled' = misfiled \ {o}
      /\ Transaction
      /\ UNCHANGED <<epoch, opted, removing, key, prevKey, operatorOf, validators, scheduleVars, pubkeys,
                     lastIn, unhooked, outEpoch>>

\* handleMalicious and handleMissCount of x/oracle, for a validator or for the
\* proposer, which may have left the set with this block.  The slash copies the
\* info of a replaced key to the current one; only then does JailUntil change
\* it, and only that of k.
OracleJail(k, malicious) ==
  LET o == operatorOf[k]
      until == epoch + (IF malicious THEN MaliciousJailDuration ELSE MissJailDuration)
      copied == IF malicious /\ key[o] # k THEN [info EXCEPT ![key[o]] = MigratedInfo(k)] ELSE info
  IN  /\ ~updateFlag \/ late
      /\ lastIn[k] # NeverIn /\ lastIn[k].epoch + 1 >= epoch /\ info[k].found
      /\ o # None /\ o \notin jailed /\ key[o] # None
      /\ (malicious /\ UpdateVotingPower) \/ UNCHANGED power
      /\ info' = [copied EXCEPT ![k].jailedUntil = until]
      /\ jailed' = jailed \cup {o}
      /\ updateFlag' = (updateFlag \/ ChangesSet(o)) /\ late' = updateFlag'
      /\ sentence' = [sentence EXCEPT ![o] = until]
      /\ misfiled' = IF key[o] = k THEN misfiled \ {o} ELSE misfiled \cup {o}
      /\ transactions < MaxTransactions /\ transactions' = transactions + 1
      /\ UNCHANGED <<epoch, opted, frozen, removing, key, prevKey, operatorOf, validators, scheduleVars,
                     pubkeys, lastIn, unhooked, outEpoch>>

\* Another AVS slashes the operator.
SlashElsewhere(o) ==
  /\ IsImpactful(o)
  /\ UpdateVotingPower
  /\ updateFlag' = (updateFlag \/ ChangesSet(o))
  /\ Transaction
  /\ UNCHANGED <<epoch, opted, jailed, frozen, removing, key, prevKey, operatorOf, validators, scheduleVars,
                 slashingVars, history>>

\* MsgUnjail: the signing info of the current key decides.  A frozen operator's
\* request is ignored.
Unjail(o) ==
  /\ o \in jailed /\ o \notin frozen
  /\ key[o] # None /\ operatorOf[key[o]] = o
  /\ info[key[o]].found => ~info[key[o]].tombstoned /\ epoch >= info[key[o]].jailedUntil
  /\ jailed' = jailed \ {o}
  /\ updateFlag' = (updateFlag \/ IsImpactful(o))
  /\ Transaction
  /\ UNCHANGED <<epoch, opted, frozen, removing, key, prevKey, operatorOf, power, validators, scheduleVars,
                 slashingVars, history>>

\* A decision of the governance.
UnfreezeOperator(o) ==
  /\ o \in frozen
  /\ frozen' = frozen \ {o}
  /\ Transaction
  /\ UNCHANGED <<epoch, opted, jailed, removing, key, prevKey, operatorOf, power, validators, scheduleVars,
                 updateFlag, slashingVars, history>>
-----------------------------------------------------------------------------
(* The epoch and the end of the block.                                     *)

\* AfterEpochEnd of x/operator and x/dogfood in the first block of the next
\* epoch; what matures with the epoch becomes pending in this block.
AfterEpochEnd ==
  /\ (~updateFlag \/ late) /\ epoch < MaxEpoch
  /\ epoch' = epoch + 1
  /\ UpdateVotingPower
  /\ updateFlag' = TRUE /\ late' = FALSE
  /\ pendingOptOuts' = optOuts[epoch] /\ optOuts' = [optOuts EXCEPT ![epoch] = {}]
  /\ pendingPrunes' = prunes[epoch] /\ prunes' = [prunes EXCEPT ![epoch] = {}]
  /\ UNCHANGED <<opted, jailed, frozen, removing, key, prevKey, operatorOf, validators, slashingVars,
                 transactions, history>>

\* CompleteOperatorKeyRemovalForChainID succeeds for these.
Completes(o) == o \in removing /\ key[o] # None

\* SortByPower: by power, then by address.
Before(o, p) == power[o] > power[p] \/ (power[o] = power[p] /\ o < p)

\* The operators whose keys become validators, of those that have a key.
Chosen(keyed) ==
  LET active == {o \in keyed : IsOptedInAndNotJailed(o)}
  IN  {o \in active : power[o] >= 1 /\ Cardinality({p \in active : Before(p, o)}) < MaxValidators}

\* Mutant: forgets to remove validators.
AddedValidators(chosen) ==
  [k \in Keys |-> IF \E o \in chosen : key[o] = k THEN power[CHOOSE o \in chosen : key[o] = k] ELSE validators[k]]

\* ApplyValidatorChanges: the keys of the chosen operators, with their power.
UpdatedValidators(chosen) ==
  [k \in Keys |-> IF \E o \in chosen : key[o] = k THEN power[CHOOSE o \in chosen : key[o] = k] ELSE 0]

\* EndBlock with the update flag up: matured opt-outs, matured prunes, then the
\* validator set.
EndBlock ==
  LET completed == {o \in pendingOptOuts : Completes(o)}
      forgotten == pendingPrunes \cup {key[o] : o \in completed}
      chosen == Chosen({o \in Operators \ completed : key[o] # None})
      pruned(k) == IF k \in pendingPrunes /\ ~info[k].tombstoned THEN NoInfo ELSE info[k]
      bonded(k) == \E o \in chosen : key[o] = k
  IN  /\ updateFlag /\ updateFlag' = FALSE /\ late' = FALSE
      /\ prevKey' = [o \in Operators |-> None]
      /\ removing' = removing \ completed
      /\ key' = [o \in Operators |-> IF o \in completed THEN None ELSE key[o]]
      /\ optOuts' = [optOuts EXCEPT ![epoch + 1] = @ \cup (pendingOptOuts \ completed)]
      /\ pendingOptOuts' = {} /\ pendingPrunes' = {}
      /\ operatorOf' = [k \in Keys |-> IF k \in forgotten THEN None ELSE operatorOf[k]]
      /\ pubkeys' = pubkeys \ pendingPrunes
      /\ validators' = UpdatedValidators(chosen)
      /\ info' = [k \in Keys |-> IF bonded(k) /\ ~pruned(k).found THEN Clean ELSE pruned(k)]
      /\ lastIn' = [k \in Keys |-> IF bonded(k)
                                   THEN [epoch |-> epoch, operator |-> CHOOSE o \in chosen : key[o] = k]
                                   ELSE lastIn[k]]
      /\ UNCHANGED <<epoch, opted, jailed, frozen, power, prunes, transactions, unhooked, sentence,
                     misfiled, outEpoch>>
-----------------------------------------------------------------------------
Next ==
  \/ \E o \in Operators, k \in Keys : OptInWithConsKey(o, k)
  \/ \E o \in Operators, k \in Keys : SetConsKey(o, k)
  \/ \E o \in Operators : OptOut(o)
  \/ \E k \in Keys : Downtime(k)
  \/ \E k \in Keys : DoubleSign(k)
  \/ \E k \in Keys, malicious \in BOOLEAN : OracleJail(k, malicious)
  \/ \E o \in Operators : SlashElsewhere(o)
  \/ \E o \in Operators : Unjail(o)
  \/ \E o \in Operators : UnfreezeOperator(o)
  \/ AfterEpochEnd
  \/ EndBlock

Spec == Init /\ [][Next]_vars
-----------------------------------------------------------------------------
\* Until EpochsUntilUnbonded epochs after the last one in which a key was a
\* validator's, the lookup leads from the key to the operator it was then and
\* that operator has a key, so that evidence reaches it: neither a replacement,
\* an opt-out nor a prune scheduled for another use of the key comes in between.
InfractionsReachOperator ==
  \A k \in Keys :
    lastIn[k] # NeverIn /\ lastIn[k].epoch + EpochsUntilUnbonded >= epoch =>
      operatorOf[k] = lastIn[k].operator /\ key[operatorOf[k]] # None

\* The key of an operator is its own: no prune of an earlier use and no other
\* operator's opt-out takes the lookup of a key in use away.
KeysHaveOneOperator == \A o \in Operators : key[o] # None => operatorOf[key[o]] = o

\* A tombstoned key is used by nobody but operators that double signed, whether
\* with it or with a key it replaced.
TombstonedKeyNotReused ==
  \A o \in Operators \ unhooked : key[o] # None /\ info[key[o]].tombstoned => sentence[o] = Forever

\* Once a block has ended without a change left for the next one, no operator
\* that is jailed or frozen has voting power with the key it now uses.  A key it
\* replaced keeps its power until the epoch ends (afterStakingOrJailChange looks
\* at the new key only); a jail by x/oracle takes effect with the next block.
PunishedHoldNoPower ==
  ~updateFlag => \A o \in Operators :
                   key[o] # None /\ validators[key[o]] > 0 => o \notin jailed \cup frozen

\* An operator leaves jail only when its term is over: replacing the key, before
\* the infraction is found or in jail, or opting out and in again does not
\* shorten a term for downtime or double signing, nor replacing it in jail one
\* that x/oracle wrote down under the operator's key of that moment
\* (CopyValidatorSigningInfo, MsgUnjail).
JailTermServed ==
  \A o \in Operators \ (unhooked \cup misfiled) : o \notin jailed => epoch >= sentence[o]

\* The same of every term of x/oracle too: "If an addr ever differed from the
\* operator's forward key, dogfood SlashWithInfractionReason would set
\* slashingOldKey and CopyValidatorSigningInfo(..., UNSPECIFIED) like
\* Tendermint-driven slashes", said in handleMalicious.
OracleTermServed == \A o \in Operators \ unhooked : o \notin jailed => epoch >= sentence[o]

\* Nobody has voting power from the epoch after its opt-out on.
OptOutTakesEffect ==
  ~updateFlag => \A o \in Operators :
    opted[o] = "out" /\ outEpoch[o] < epoch => \A k \in Keys : operatorOf[k] = o => validators[k] = 0
=============================================================================
