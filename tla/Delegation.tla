----------------------------- MODULE Delegation -----------------------------
(***************************************************************************)
(* The restaking ledger: what stakers, operators and undelegations hold of *)
(* ONE asset, and every operation that moves it.                           *)
(*                                                                         *)
(*   x/assets       deposit and withdrawal, the staker and operator states *)
(*   x/delegation   delegation, undelegation, association, NST balance     *)
(*                  updates, completion at the end of a block              *)
(*   x/operator     SlashAssets, the part of a slash that moves assets     *)
(*                                                                         *)
(* Assets share nothing but the counter of undelegation ids and the        *)
(* association of a staker, so the ledger of one asset is modelled, of the *)
(* kind AssetKind.  A transaction that returns an error is rolled back:    *)
(* an error return is a guard.  The operator module's answers (how long an *)
(* undelegation takes, which proportion a slash has) and the distribution  *)
(* module's are inputs here.                                               *)
(***************************************************************************)
EXTENDS LedgerState

\* Transactions run between BeginBlock and EndBlock.  The bound on the
\* height is the model's: no transaction is sent at the last height.
Deliver == phase = "deliver" /\ height < MaxHeight
-----------------------------------------------------------------------------
(***************************************************************************)
(* The stored records, changed by a delta.  The code refuses a delta that  *)
(* makes a value negative: the guards of the actions below say so.         *)
(***************************************************************************)
UpdateStakerAssetState(a, deposit, withdrawable, pending) ==
  [TotalDepositAmount        |-> a.TotalDepositAmount + deposit,
   WithdrawableAmount        |-> a.WithdrawableAmount + withdrawable,
   PendingUndelegationAmount |-> a.PendingUndelegationAmount + pending]

UpdateOperatorAssetState(p, amount, pending, share, operatorShare) ==
  [TotalAmount               |-> p.TotalAmount + amount,
   PendingUndelegationAmount |-> p.PendingUndelegationAmount + pending,
   TotalShare                |-> p.TotalShare + share,
   OperatorShare             |-> p.OperatorShare + operatorShare]

UpdateDelegationState(d, share, pending, rewardShare, rewardPending) ==
  [exists                          |-> TRUE,
   UndelegatableShare              |-> d.UndelegatableShare + share,
   PendingUndelegationAmount       |-> d.PendingUndelegationAmount + pending,
   RewardUndelegatableShare        |-> d.RewardUndelegatableShare + rewardShare,
   RewardPendingUndelegationAmount |-> d.RewardPendingUndelegationAmount + rewardPending]
-----------------------------------------------------------------------------
(***************************************************************************)
(* x/assets: deposit and withdrawal of client chain assets.                *)
(***************************************************************************)
Deposit(s, x) ==
  /\ Deliver /\ ~Native /\ x > 0
  /\ stakingTotalAmount + x <= MaxStaking
  /\ stakerAsset' = [stakerAsset EXCEPT ![s] = UpdateStakerAssetState(@, x, x, 0)]
  /\ stakingTotalAmount' = stakingTotalAmount + x
  /\ UNCHANGED <<height, epoch, phase, todo, operatorAsset, delegation, stakerList, associated,
                 undelegation, lastUndelegationID, bank, delegatedPool, rewardIn>>

\* Mutant: the withdrawable amount is not checked.
WithdrawUnchecked(s, x) ==
  x <= 0 \/ x > stakerAsset[s].TotalDepositAmount \/ x > stakingTotalAmount

WithdrawFails(s, x) ==
  \/ x <= 0
  \/ x > stakerAsset[s].TotalDepositAmount
  \/ x > stakerAsset[s].WithdrawableAmount
  \/ x > stakingTotalAmount

Withdraw(s, x) ==
  /\ Deliver /\ ~Native
  /\ ~WithdrawFails(s, x)
  /\ stakerAsset' = [stakerAsset EXCEPT ![s] = UpdateStakerAssetState(@, -x, -x, 0)]
  /\ stakingTotalAmount' = stakingTotalAmount - x
  /\ UNCHANGED <<height, epoch, phase, todo, operatorAsset, delegation, stakerList, associated,
                 undelegation, lastUndelegationID, bank, delegatedPool, rewardIn>>
-----------------------------------------------------------------------------
(***************************************************************************)
(* Delegation.                                                             *)
(***************************************************************************)
CalculateShare(o, x) ==
  LET p == operatorAsset[o]
  IN  IF p.TotalShare = 0 THEN Dec(x) ELSE SharesFromTokens(p.TotalShare, x, p.TotalAmount)

\* The tokens of a delegation before the operation, which the hooks get;
\* both handlers fail when it cannot be computed.
PreDelegatedAmountFails(s, o) ==
  TokensFromSharesFails(DelegatableShare(s, o), operatorAsset[o].TotalShare,
                        operatorAsset[o].TotalAmount)

\* A native delegation to oneself associates the account with itself.
AssociatedAfter(s, o, reward) ==
  IF Native /\ ~reward /\ s = o THEN [associated EXCEPT ![s] = o] ELSE associated

\* A frozen operator refuses delegations.  Freezing is the operator module's;
\* here a delegation to o need not happen.
DelegateTo(s, o, x, reward) ==
  LET p     == operatorAsset[o]
      share == CalculateShare(o, x)
  IN
  /\ Deliver /\ x > 0
  /\ IF reward THEN
       /\ rewardIn + x <= MaxStaking
       /\ rewardIn' = rewardIn + x
       /\ UNCHANGED <<stakerAsset, bank, delegatedPool>>
     ELSE IF Native THEN
       /\ x <= bank[s]
       /\ bank' = [bank EXCEPT ![s] = @ - x]
       /\ delegatedPool' = delegatedPool + x
       /\ UNCHANGED <<stakerAsset, rewardIn>>
     ELSE
       /\ x <= stakerAsset[s].WithdrawableAmount
       /\ stakerAsset' = [stakerAsset EXCEPT ![s] = UpdateStakerAssetState(@, 0, -x, 0)]
       /\ UNCHANGED <<bank, delegatedPool, rewardIn>>
  /\ ~(p.TotalShare # 0 /\ SharesFromTokensFails(p.TotalShare, p.TotalAmount))
  /\ ~PreDelegatedAmountFails(s, o)
  /\ associated' = AssociatedAfter(s, o, reward)
  /\ operatorAsset' = [operatorAsset EXCEPT ![o] =
       UpdateOperatorAssetState(@, x, 0, share, IF associated'[s] = o THEN share ELSE 0)]
  /\ delegation' = [delegation EXCEPT ![s][o] =
       UpdateDelegationState(@, IF reward THEN 0 ELSE share, 0, IF reward THEN share ELSE 0, 0)]
  /\ stakerList' = stakerList \cup {<<s, o>>}
  /\ UNCHANGED <<height, epoch, phase, todo, stakingTotalAmount, undelegation, lastUndelegationID>>
-----------------------------------------------------------------------------
(***************************************************************************)
(* Removing a share from a delegation and from the operator's pool, for an *)
(* undelegation or for a slash of an NST balance.                          *)
(***************************************************************************)
Removed(o, share) ==
  RemovedToken(share, operatorAsset[o].TotalShare, operatorAsset[o].TotalAmount)

\* Mutant: a staker that removes any share is dropped from the list.
LeavesWithAnyShare(s, o, share) == share > 0

\* Mutant: the reward share is forgotten.
LeavesWithStakingShare(s, o, share) == share = delegation[s][o].UndelegatableShare

\* UpdateDelegationState's shareIsZero, after which RemoveShare takes the
\* staker off the operator's list.
ShareIsZero(s, o, share) == share = DelegatableShare(s, o)

RemoveShareFails(s, o, share, reward) ==
  LET p == operatorAsset[o]
      d == delegation[s][o]
  IN  \/ share <= 0
      \/ share > p.TotalShare
      \/ Removed(o, share) > p.TotalAmount
      \/ associated[s] = o /\ share > p.OperatorShare
      \/ share > (IF reward THEN d.RewardUndelegatableShare ELSE d.UndelegatableShare)
      \/ ShareIsZero(s, o, share) /\ <<s, o>> \notin stakerList

\* Mutant: the operator's own share stays.
PoolWithoutKeepingOperatorShare(s, o, share, isUndelegation) ==
  LET t == Removed(o, share)
  IN  UpdateOperatorAssetState(operatorAsset[o], -t, IF isUndelegation THEN t ELSE 0, -share, 0)

\* Mutant: the shares stay in the pool.
PoolWithoutKeepingShare(s, o, share, isUndelegation) ==
  LET t == Removed(o, share)
  IN  UpdateOperatorAssetState(operatorAsset[o], -t, IF isUndelegation THEN t ELSE 0, 0,
                               IF associated[s] = o THEN -share ELSE 0)

\* Mutant: the tokens stay in the pool.
PoolWithoutKeepingTokens(s, o, share, isUndelegation) ==
  UpdateOperatorAssetState(operatorAsset[o], 0,
                           IF isUndelegation THEN Removed(o, share) ELSE 0, -share,
                           IF associated[s] = o THEN -share ELSE 0)

PoolWithout(s, o, share, isUndelegation) ==
  LET t == Removed(o, share)
  IN  UpdateOperatorAssetState(operatorAsset[o], -t, IF isUndelegation THEN t ELSE 0, -share,
                               IF associated[s] = o THEN -share ELSE 0)

\* Mutant: a reward undelegation is pending as a staking one.
DelegationWithoutRewardPending(s, o, share, isUndelegation, reward) ==
  UpdateDelegationState(delegation[s][o],
    IF reward THEN 0 ELSE -share, IF isUndelegation THEN Removed(o, share) ELSE 0,
    IF reward THEN -share ELSE 0, 0)

DelegationWithout(s, o, share, isUndelegation, reward) ==
  LET t == Removed(o, share)
  IN  UpdateDelegationState(delegation[s][o],
        IF reward THEN 0 ELSE -share, IF isUndelegation /\ ~reward THEN t ELSE 0,
        IF reward THEN -share ELSE 0, IF reward THEN t ELSE 0)
-----------------------------------------------------------------------------
(***************************************************************************)
(* Undelegation.  The amount is converted to a share, rounded down; what   *)
(* would remain below the share of one token is taken along.               *)
(***************************************************************************)
UndelegatableShareOf(s, o, reward) ==
  IF reward THEN delegation[s][o].RewardUndelegatableShare
            ELSE delegation[s][o].UndelegatableShare

RequestedShare(o, x) ==
  SharesFromTokens(operatorAsset[o].TotalShare, x, operatorAsset[o].TotalAmount)

ValidateUndelegationAmountFails(s, o, x, reward) ==
  \/ x <= 0
  \/ ~delegation[s][o].exists
  \/ SharesFromTokensFails(operatorAsset[o].TotalShare, operatorAsset[o].TotalAmount)
  \/ RequestedShare(o, x) = 0
  \/ RequestedShare(o, x) > UndelegatableShareOf(s, o, reward)

ValidateUndelegationAmount(s, o, x, reward) ==
  LET share          == RequestedShare(o, x)
      undelegatable  == UndelegatableShareOf(s, o, reward)
  IN  IF undelegatable - share < RequestedShare(o, 1) THEN undelegatable ELSE share

\* When an undelegation completes: at once if the operator serves no AVS,
\* otherwise after the longest unbonding of its AVSs (GetUnbondingExpiration).
UnbondingExpirations == {NullEpoch} \cup (epoch .. epoch + UnbondingEpochs)

\* Whether the penalty applies and when the undelegation completes
\* (GetInstantUnbondingExpiration): in the current epoch with the penalty,
\* or like any other undelegation without it.
InstantUnbondingExpirations ==
  ({TRUE} \X {NullEpoch, epoch}) \cup ({FALSE} \X UnbondingExpirations)

InstantPenaltyAmount(x) ==
  TruncateInt(((InstantUndelegationPenalty * Precision) \div 100) * x)

UndelegateFrom(s, o, x, reward, instant) ==
  LET share   == ValidateUndelegationAmount(s, o, x, reward)
      removed == Removed(o, share)
  IN
  /\ Deliver /\ lastUndelegationID < MaxUndelegations
  /\ ~ValidateUndelegationAmountFails(s, o, x, reward)
  /\ ~PreDelegatedAmountFails(s, o)
  /\ ~RemoveShareFails(s, o, share, reward)
  /\ \E expiration \in (IF instant THEN InstantUnbondingExpirations
                                   ELSE {FALSE} \X UnbondingExpirations) :
       /\ expiration[2] < MaxEpoch
       /\ undelegation' = [undelegation EXCEPT ![lastUndelegationID] =
            [live |-> TRUE, staker |-> s, operator |-> o, height |-> height,
             epoch |-> expiration[2], amount |-> removed,
             actual |-> removed - (IF expiration[1] THEN InstantPenaltyAmount(x) ELSE 0),
             reward |-> reward, hold |-> 0]]
  /\ operatorAsset' = [operatorAsset EXCEPT ![o] = PoolWithout(s, o, share, TRUE)]
  /\ delegation' = [delegation EXCEPT ![s][o] = DelegationWithout(s, o, share, TRUE, reward)]
  /\ stakerAsset' = IF reward \/ Native THEN stakerAsset
                    ELSE [stakerAsset EXCEPT ![s] = UpdateStakerAssetState(@, 0, 0, removed)]
  /\ stakerList' = IF ShareIsZero(s, o, share) THEN stakerList \ {<<s, o>>} ELSE stakerList
  /\ lastUndelegationID' = lastUndelegationID + 1
  /\ UNCHANGED <<height, epoch, phase, todo, stakingTotalAmount, associated, bank, delegatedPool,
                 rewardIn>>
-----------------------------------------------------------------------------
(***************************************************************************)
(* Association: the delegations of an associated staker count as the       *)
(* operator's own.  Not for native accounts, which have no client chain.   *)
(***************************************************************************)
AssociateOperatorWithStaker(s, o) ==
  /\ Deliver /\ ~Native
  /\ associated[s] = None
  /\ associated' = [associated EXCEPT ![s] = o]
  /\ operatorAsset' = [operatorAsset EXCEPT ![o] =
       UpdateOperatorAssetState(@, 0, 0, 0, delegation[s][o].UndelegatableShare)]
  /\ UNCHANGED <<height, epoch, phase, todo, stakerAsset, stakingTotalAmount, delegation,
                 stakerList, undelegation, lastUndelegationID, bank, delegatedPool, rewardIn>>

DissociateOperatorFromStaker(s) ==
  LET o == associated[s] IN
  /\ Deliver /\ ~Native
  /\ o # None
  /\ delegation[s][o].UndelegatableShare <= operatorAsset[o].OperatorShare
  /\ associated' = [associated EXCEPT ![s] = None]
  /\ operatorAsset' = [operatorAsset EXCEPT ![o] =
       UpdateOperatorAssetState(@, 0, 0, 0, -delegation[s][o].UndelegatableShare)]
  /\ UNCHANGED <<height, epoch, phase, todo, stakerAsset, stakingTotalAmount, delegation,
                 stakerList, undelegation, lastUndelegationID, bank, delegatedPool, rewardIn>>
-----------------------------------------------------------------------------
(***************************************************************************)
(* UpdateNSTBalance: the oracle reports that a staker's balance on the     *)
(* client chain changed.  An increase is a deposit.  A decrease of x is    *)
(* taken from what the staker can withdraw, then from its undelegations in *)
(* the order of their ids, then from its delegations in proportion.        *)
(***************************************************************************)
IncreaseNSTBalance(s, x) ==
  /\ AssetKind = "NST"
  /\ Deposit(s, x)

FromWithdrawable(s, x) == MinOf(x, stakerAsset[s].WithdrawableAmount)

\* What the records before id i can absorb.
AbsorbedBefore(s, i) ==
  Sum([j \in Ids |-> IF j < i /\ undelegation[j].live /\ undelegation[j].staker = s
                     THEN undelegation[j].actual ELSE 0])

\* Mutant: more than the record has.
FromUndelegationUnbounded(s, x, i) ==
  LET left == x - FromWithdrawable(s, x) - AbsorbedBefore(s, i)
  IN  IF undelegation[i].live /\ undelegation[i].staker = s /\ left > 0 THEN left ELSE 0

FromUndelegation(s, x, i) ==
  LET left == x - FromWithdrawable(s, x) - AbsorbedBefore(s, i)
  IN  IF undelegation[i].live /\ undelegation[i].staker = s /\ left > 0
      THEN MinOf(left, undelegation[i].actual) ELSE 0

FromUndelegations(s, x) == Sum([i \in Ids |-> FromUndelegation(s, x, i)])

LeftForDelegations(s, x) == x - FromWithdrawable(s, x) - FromUndelegations(s, x)

\* TotalDelegatedAmountForStakingAsset
DelegatedAmount(s) ==
  Sum([o \in Operators |->
    TokensFromShares(delegation[s][o].UndelegatableShare, operatorAsset[o].TotalShare,
                     operatorAsset[o].TotalAmount)])

DelegatedAmountFails(s) ==
  \E o \in Operators :
    LET p == operatorAsset[o]
        d == delegation[s][o]
    IN  /\ d.exists /\ d.UndelegatableShare # 0
        /\ \/ TokensFromSharesFails(d.UndelegatableShare, p.TotalShare, p.TotalAmount)
           \/ TokensFromSharesFails(d.RewardUndelegatableShare, p.TotalShare, p.TotalAmount)

\* Mutant: the amount is taken for a decimal as it is.
NSTSlashProportionUnscaled(s, x) ==
  MinOf(One, Quo(LeftForDelegations(s, x), Dec(DelegatedAmount(s))))

NSTSlashProportion(s, x) ==
  MinOf(One, Quo(Dec(LeftForDelegations(s, x)), Dec(DelegatedAmount(s))))

SlashesDelegations(s, x) == LeftForDelegations(s, x) > 0 /\ DelegatedAmount(s) > 0

\* The share a decrease takes from the delegation to o.
NSTSlashShare(s, x, o) ==
  IF SlashesDelegations(s, x) /\ delegation[s][o].exists
  THEN Mul(delegation[s][o].UndelegatableShare, NSTSlashProportion(s, x))
  ELSE 0

FromDelegations(s, x) ==
  Sum([o \in Operators |-> IF NSTSlashShare(s, x, o) > 0 THEN Removed(o, NSTSlashShare(s, x, o)) ELSE 0])

TakenFrom(s, x) == FromWithdrawable(s, x) + FromUndelegations(s, x) + FromDelegations(s, x)

DecreaseNSTBalanceFails(s, x) ==
  \/ LeftForDelegations(s, x) > 0 /\ DelegatedAmountFails(s)
  \/ SlashesDelegations(s, x) /\
       \E o \in Operators :
         /\ delegation[s][o].exists
         /\ \/ TokensFromSharesFails(delegation[s][o].UndelegatableShare,
                                     operatorAsset[o].TotalShare, operatorAsset[o].TotalAmount)
            \/ RemoveShareFails(s, o, NSTSlashShare(s, x, o), FALSE)
  \/ TakenFrom(s, x) > stakerAsset[s].TotalDepositAmount

DecreaseNSTBalance(s, x) ==
  /\ Deliver /\ AssetKind = "NST" /\ x > 0
  /\ ~DecreaseNSTBalanceFails(s, x)
  /\ stakerAsset' = [stakerAsset EXCEPT ![s] =
       UpdateStakerAssetState(@, -TakenFrom(s, x), -FromWithdrawable(s, x), 0)]
  /\ undelegation' = [i \in Ids |->
       IF undelegation[i].live /\ undelegation[i].staker = s
       THEN [undelegation[i] EXCEPT !.actual = @ - FromUndelegation(s, x, i)]
       ELSE undelegation[i]]
  /\ operatorAsset' = [o \in Operators |->
       IF NSTSlashShare(s, x, o) > 0 THEN PoolWithout(s, o, NSTSlashShare(s, x, o), FALSE)
       ELSE operatorAsset[o]]
  /\ delegation' = [delegation EXCEPT ![s] = [o \in Operators |->
       IF NSTSlashShare(s, x, o) > 0
       THEN DelegationWithout(s, o, NSTSlashShare(s, x, o), FALSE, FALSE)
       ELSE delegation[s][o]]]
  /\ stakerList' = stakerList \ {<<s, o>> : o \in {q \in Operators :
       NSTSlashShare(s, x, q) > 0 /\ ShareIsZero(s, q, NSTSlashShare(s, x, q))}}
  /\ UNCHANGED <<height, epoch, phase, todo, stakingTotalAmount, associated,
                 lastUndelegationID, bank, delegatedPool, rewardIn>>
-----------------------------------------------------------------------------
\* Mutant: the submitted amount is slashed too.
SlashFromUndelegationAmount(r, proportion) ==
  [r EXCEPT !.amount = @ - TruncateInt(proportion * r.amount), !.actual = 0]

SlashFromUndelegation(r, proportion) ==
  LET slashAmount == TruncateInt(proportion * r.amount)
  IN  IF r.actual = 0 THEN r
      ELSE [r EXCEPT !.actual = IF slashAmount >= @ THEN 0 ELSE @ - slashAmount]

SlashedToZero(o, slashAmount) ==
  /\ slashAmount > 0 /\ slashAmount = operatorAsset[o].TotalAmount
  /\ \E s \in Stakers : <<s, o>> \in stakerList

SlashAssets(o, proportion, eventHeight, snapshotHeight) ==
  LET slashAmount == TruncateInt(proportion * operatorAsset[o].TotalAmount)
      stakers     == {s \in Stakers : <<s, o>> \in stakerList}
      wipe        == SlashedToZero(o, slashAmount)
  IN
  /\ Deliver
  /\ snapshotHeight <= eventHeight /\ eventHeight <= height
  /\ undelegation' = [i \in Ids |->
       LET r == undelegation[i]
       IN  IF eventHeight < height /\ r.live /\ r.operator = o /\ r.height >= snapshotHeight
           THEN SlashFromUndelegation(r, proportion) ELSE r]
  /\ operatorAsset' = [operatorAsset EXCEPT ![o] =
       UpdateOperatorAssetState(@, -slashAmount, 0, IF wipe THEN -@.TotalShare ELSE 0,
                                IF wipe THEN -@.OperatorShare ELSE 0)]
  /\ delegation' = [s \in Stakers |-> [q \in Operators |->
       LET d == delegation[s][q]
       IN  IF wipe /\ q = o /\ s \in stakers
           THEN UpdateDelegationState(d, -d.UndelegatableShare, 0, -d.RewardUndelegatableShare, 0)
           ELSE d]]
  /\ stakerList' = IF wipe THEN stakerList \ {<<s, o>> : s \in stakers} ELSE stakerList
  /\ UNCHANGED <<height, epoch, phase, todo, stakerAsset, stakingTotalAmount, associated,
                 lastUndelegationID, bank, delegatedPool, rewardIn>>
-----------------------------------------------------------------------------
(***************************************************************************)
(* Holds: another module may keep a record from completing.                *)
(***************************************************************************)
IncrementUndelegationHoldCount(i) ==
  /\ Deliver
  /\ undelegation[i].live /\ undelegation[i].hold < MaxHold
  /\ undelegation' = [undelegation EXCEPT ![i].hold = @ + 1]
  /\ UNCHANGED <<height, epoch, phase, todo, stakerAsset, stakingTotalAmount, operatorAsset,
                 delegation, stakerList, associated, lastUndelegationID, bank, delegatedPool,
                 rewardIn>>

\* Releases keep coming after the last height at which transactions do.
DecrementUndelegationHoldCount(i) ==
  /\ phase = "deliver"
  /\ undelegation[i].hold > 0
  /\ undelegation' = [undelegation EXCEPT ![i].hold = @ - 1]
  /\ UNCHANGED <<height, epoch, phase, todo, stakerAsset, stakingTotalAmount, operatorAsset,
                 delegation, stakerList, associated, lastUndelegationID, bank, delegatedPool,
                 rewardIn>>
-----------------------------------------------------------------------------
(***************************************************************************)
(* The end of a block: records whose epoch is over and that nobody holds   *)
(* are completed, those of the null epoch first, then by epoch and id, at  *)
(* most MaxUndelegationCompletions of them.  Each is completed in a cache  *)
(* context of its own; if that fails, the record stays for the next block. *)
(***************************************************************************)
\* Mutant: a record completes in the last epoch of its unbonding.
CompletableEarly ==
  {i \in Ids : undelegation[i].live /\ undelegation[i].epoch <= epoch /\ undelegation[i].hold = 0}

\* Mutant: only the epoch that just ended is looked at.
CompletableOnce ==
  {i \in Ids : undelegation[i].live /\ undelegation[i].epoch = epoch - 1 /\ undelegation[i].hold = 0}

Completable ==
  {i \in Ids : /\ undelegation[i].live
               /\ undelegation[i].epoch < epoch
               /\ undelegation[i].hold = 0}

Before(i, j) ==
  \/ undelegation[i].epoch < undelegation[j].epoch
  \/ undelegation[i].epoch = undelegation[j].epoch /\ i < j

\* The records in the order of the iteration, up to the limit.
GetCompletableUndelegations ==
  {i \in Completable :
     \/ MaxUndelegationCompletions = 0
     \/ Cardinality({j \in Completable : Before(j, i)}) < MaxUndelegationCompletions}

EndBlock ==
  /\ phase = "deliver"
  /\ todo' = GetCompletableUndelegations
  /\ phase' = "complete"
  /\ UNCHANGED <<height, epoch, stakerAsset, stakingTotalAmount, operatorAsset, delegation,
                 stakerList, associated, undelegation, lastUndelegationID, bank, delegatedPool,
                 rewardIn>>

\* Record i is the next one of EndBlock's loop.
Handle(i) ==
  /\ phase = "complete"
  /\ i \in todo /\ \A j \in todo \ {i} : Before(i, j)
  /\ todo' = todo \ {i}
  /\ UNCHANGED <<height, epoch, phase, stakingTotalAmount, stakerList, associated,
                 lastUndelegationID>>

\* The error returns of EndBlock's loop.  A negative coin panics instead:
\* the chain stops, and no step of this module is enabled.
CompletionFails(r) ==
  LET d == delegation[r.staker][r.operator]
      a == stakerAsset[r.staker]
  IN  \/ r.amount > (IF r.reward THEN d.RewardPendingUndelegationAmount
                                 ELSE d.PendingUndelegationAmount)
      \/ ~r.reward /\ Native /\ r.actual > delegatedPool
      \/ ~r.reward /\ ~Native /\ (r.amount > a.PendingUndelegationAmount
                                  \/ a.WithdrawableAmount + r.actual < 0)
      \/ r.amount > operatorAsset[r.operator].PendingUndelegationAmount

\* Mutant: what was slashed is paid too.
CompletedAmountUnslashed(r) == r.amount

CompletedAmount(r) == r.actual

CompleteUndelegation(i) ==
  LET r == undelegation[i]
      s == r.staker
      o == r.operator
  IN
  /\ Handle(i)
  /\ ~CompletionFails(r)
  /\ Native /\ ~r.reward => r.actual >= 0
  /\ delegation' = [delegation EXCEPT ![s][o] =
       UpdateDelegationState(@, 0, IF r.reward THEN 0 ELSE -r.amount,
                                0, IF r.reward THEN -r.amount ELSE 0)]
  /\ operatorAsset' = [operatorAsset EXCEPT ![o] = UpdateOperatorAssetState(@, 0, -r.amount, 0, 0)]
  /\ undelegation' = [undelegation EXCEPT ![i] = NoRecord]
  /\ IF r.reward THEN
       /\ rewardIn' = rewardIn - CompletedAmount(r)
       /\ UNCHANGED <<stakerAsset, bank, delegatedPool>>
     ELSE IF Native THEN
       /\ bank' = [bank EXCEPT ![s] = @ + CompletedAmount(r)]
       /\ delegatedPool' = delegatedPool - CompletedAmount(r)
       /\ UNCHANGED <<stakerAsset, rewardIn>>
     ELSE
       /\ stakerAsset' = [stakerAsset EXCEPT ![s] =
            UpdateStakerAssetState(@, 0, CompletedAmount(r), -r.amount)]
       /\ UNCHANGED <<bank, delegatedPool, rewardIn>>

\* The distribution module may refuse to complete a reward undelegation.
SkipUndelegation(i) ==
  /\ Handle(i)
  /\ undelegation[i].reward \/ CompletionFails(undelegation[i])
  /\ UNCHANGED <<stakerAsset, operatorAsset, delegation, undelegation, bank, delegatedPool, rewardIn>>

\* A block starts, with or without an epoch ending.  Height and epoch stop
\* at the bounds of the model, where no transaction can tell.
BeginBlock(epochEnds) ==
  /\ phase = "complete" /\ todo = {}
  /\ phase' = "deliver"
  /\ height' = MinOf(height + 1, MaxHeight)
  /\ epoch' = IF epochEnds THEN MinOf(epoch + 1, MaxEpoch) ELSE epoch
  /\ UNCHANGED <<todo, stakerAsset, stakingTotalAmount, operatorAsset, delegation, stakerList,
                 associated, undelegation, lastUndelegationID, bank, delegatedPool, rewardIn>>
-----------------------------------------------------------------------------
Transaction ==
  \/ \E s \in Stakers, x \in Amounts : Deposit(s, x) \/ Withdraw(s, x)
  \/ \E s \in Stakers, x \in Amounts : IncreaseNSTBalance(s, x) \/ DecreaseNSTBalance(s, x)
  \/ \E s \in Stakers, o \in Operators, x \in Amounts, reward \in {FALSE, RewardDelegation} :
       \/ DelegateTo(s, o, x, reward)
       \/ \E instant \in BOOLEAN : UndelegateFrom(s, o, x, reward, instant)
  \/ \E s \in Stakers, o \in Operators : AssociateOperatorWithStaker(s, o)
  \/ \E s \in Stakers : DissociateOperatorFromStaker(s)
  \/ \E o \in Operators, proportion \in Proportions, e \in 1 .. height, h \in 1 .. height :
       SlashAssets(o, proportion, e, h)
  \/ \E i \in Ids : IncrementUndelegationHoldCount(i)

Release == \E i \in Ids : DecrementUndelegationHoldCount(i)

Block ==
  \/ EndBlock
  \/ \E i \in Ids : CompleteUndelegation(i) \/ SkipUndelegation(i)
  \/ \E epochEnds \in BOOLEAN : BeginBlock(epochEnds)

Next == Transaction \/ Release \/ Block

Spec == Init /\ [][Next]_vars

\* Blocks keep being produced, epochs keep ending, and a hold is released
\* in the end.
Fairness ==
  /\ WF_vars(Block)
  /\ SF_vars(BeginBlock(TRUE))
  /\ SF_vars(Release)

FairSpec == Spec /\ Fairness
-----------------------------------------------------------------------------
(***************************************************************************)
(* Safety.                                                                 *)
(***************************************************************************)
Payable(i) == IF undelegation[i].actual > 0 THEN undelegation[i].actual ELSE 0

\* A staker whose undelegation passes ValidateUndelegationAmount is never
\* refused by a later check of UndelegateFrom: every amount the shares are
\* worth can leave.
LeavingSucceeds ==
  \A s \in Stakers, o \in Operators, x \in Amounts :
    ~ValidateUndelegationAmountFails(s, o, x, FALSE) =>
      /\ ~PreDelegatedAmountFails(s, o)
      /\ ~RemoveShareFails(s, o, ValidateUndelegationAmount(s, o, x, FALSE), FALSE)

\* Leaving succeeds.  Nor does a share stay behind in a pool without tokens,
\* where the next delegation would divide by zero.
CanAlwaysLeave ==
  /\ LeavingSucceeds
  /\ \A o \in Operators : operatorAsset[o].TotalAmount = 0 => operatorAsset[o].TotalShare = 0

\* A decrease that the oracle reports is applied: "the decreased amount will
\* be slashed from the withdrawable amount first, the pending undelegation
\* second, and the delegated share last".
NSTDecreaseApplies ==
  AssetKind = "NST" =>
    \A s \in Stakers, x \in Amounts : x > 0 => ~DecreaseNSTBalanceFails(s, x)

\* What a decrease leaves unapplied, of what the staker has, is less than a
\* token for each of its delegations: only rounding is lost.
NSTDecreaseLosesCrumbs ==
  AssetKind = "NST" =>
    \A s \in Stakers, x \in Amounts :
      x > 0 /\ ~DecreaseNSTBalanceFails(s, x) =>
        LET has == stakerAsset[s].WithdrawableAmount + DelegatedAmount(s)
                   + Sum([i \in Ids |-> IF undelegation[i].staker = s THEN Payable(i) ELSE 0])
        IN  TakenFrom(s, x) + Cardinality({o \in Operators : delegation[s][o].UndelegatableShare > 0})
              >= MinOf(x, has)

\* A record leaves the store only at the end of a block, once its epoch is
\* over and nobody holds it, and then its staker, and no other, gets what
\* the slashes left of it.
CompletionIsDueAndExact ==
  [][\A i \in Ids : undelegation[i].live /\ ~undelegation'[i].live =>
       LET r == undelegation[i] IN
       /\ phase = "complete" /\ r.epoch < epoch /\ r.hold = 0
       /\ \A s \in Stakers :
            Paid(s)' = IF s = r.staker /\ ~r.reward THEN Paid(s) + r.actual ELSE Paid(s)]_vars

\* The ledger implements the custody of its asset: tokens reach a staker only
\* by a deposit or by its own undelegation, which pays once, never more than
\* left the operator's pool for it, and what slashes took never comes back.
CustodyImplemented == Custody!Spec

\* Every undelegation is completed in the end, also when the completion
\* limit is 1 and others are held or were submitted before it.
EveryUndelegationCompletes ==
  \A i \in Ids : undelegation[i].live ~> ~undelegation[i].live
=============================================================================
