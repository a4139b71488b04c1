---------------------------- MODULE LedgerState -----------------------------
(***************************************************************************)
(* The state of the restaking ledger of one asset: its constants, its      *)
(* variables, the records it stores, the state at genesis, and what must   *)
(* hold of a state.  Delegation has the operations.                        *)
(***************************************************************************)
EXTENDS ShareMath, Sums

CONSTANTS
  Stakers, Operators,
  AssetKind,                  \* "LST", "NST" or "native"
  Amounts,                    \* amounts a transaction may carry
  Proportions,                \* slash proportions, decimals
  InitialBalance,             \* native tokens of each account at genesis
  InstantUndelegationPenalty, \* per cent
  MaxUndelegationCompletions, \* per block, 0 for no limit
  UnbondingEpochs,            \* longest unbonding of an AVS
  RewardDelegation,           \* whether rewards are redelegated
  MaxStaking, MaxUndelegations, MaxHeight, MaxEpoch, MaxHold   \* bounds of the model

ASSUME DelegationAssumption ==
  /\ IsFiniteSet(Stakers) /\ IsFiniteSet(Operators) /\ "none" \notin Operators
  /\ AssetKind \in {"LST", "NST", "native"}
  /\ Amounts \subseteq Nat /\ Proportions \subseteq 0 .. One
  /\ InitialBalance \in Nat
  /\ InstantUndelegationPenalty \in 0 .. 100
  /\ MaxUndelegationCompletions \in Nat /\ UnbondingEpochs \in Nat
  /\ RewardDelegation \in BOOLEAN
  /\ MaxStaking \in Nat /\ MaxUndelegations \in Nat /\ MaxHeight \in Nat
  /\ MaxEpoch \in Nat \ {0} /\ MaxHold \in Nat

VARIABLES
  height, epoch,        \* the block and the epoch being executed
  phase,                \* "deliver", or "complete" in EndBlock
  todo,                 \* ids of the records EndBlock has still to complete
  stakerAsset,          \* StakerAssetInfo of each staker
  stakingTotalAmount,   \* StakingAssetInfo.StakingTotalAmount
  operatorAsset,        \* OperatorAssetInfo of each operator: its pool
  delegation,           \* DelegationAmounts of each staker and operator
  stakerList,           \* <<staker, operator>> pairs of KeyPrefixStakersByOperator
  associated,           \* the operator a staker is associated with
  undelegation,         \* undelegation records by id
  lastUndelegationID,
  bank,                 \* native tokens of the accounts
  delegatedPool,        \* native tokens of the delegation module's account
  rewardIn              \* reward tokens in the ledger (held by distribution)

vars == <<height, epoch, phase, todo, stakerAsset, stakingTotalAmount,
          operatorAsset, delegation, stakerList, associated, undelegation,
          lastUndelegationID, bank, delegatedPool, rewardIn>>

Ids == 0 .. MaxUndelegations - 1
None == "none"
NullEpoch == 0              \* NullEpochNumber; epochs are numbered from 1
Native == AssetKind = "native"

NoRecord == [live |-> FALSE, staker |-> None, operator |-> None, height |-> 0,
             epoch |-> 0, amount |-> 0, actual |-> 0, reward |-> FALSE, hold |-> 0]
-----------------------------------------------------------------------------
Init ==
  /\ height = 1 /\ epoch = 1 /\ phase = "deliver" /\ todo = {}
  /\ stakerAsset = [s \in Stakers |->
       [TotalDepositAmount |-> 0, WithdrawableAmount |-> 0, PendingUndelegationAmount |-> 0]]
  /\ stakingTotalAmount = 0
  /\ operatorAsset = [o \in Operators |->
       [TotalAmount |-> 0, PendingUndelegationAmount |-> 0, TotalShare |-> 0, OperatorShare |-> 0]]
  /\ delegation = [s \in Stakers |-> [o \in Operators |->
       [exists |-> FALSE, UndelegatableShare |-> 0, PendingUndelegationAmount |-> 0,
        RewardUndelegatableShare |-> 0, RewardPendingUndelegationAmount |-> 0]]]
  /\ stakerList = {}
  /\ associated = [s \in Stakers |-> None]
  /\ undelegation = [i \in Ids |-> NoRecord]
  /\ lastUndelegationID = 0
  /\ bank = [s \in Stakers |-> InitialBalance]
  /\ delegatedPool = 0
  /\ rewardIn = 0

DelegatableShare(s, o) ==
  delegation[s][o].UndelegatableShare + delegation[s][o].RewardUndelegatableShare
-----------------------------------------------------------------------------
(***************************************************************************)
(* Types.                                                                  *)
(***************************************************************************)
StakerAssetInfo ==
  [TotalDepositAmount : Nat, WithdrawableAmount : Nat, PendingUndelegationAmount : Nat]

OperatorAssetInfo ==
  [TotalAmount : Nat, PendingUndelegationAmount : Nat, TotalShare : Nat, OperatorShare : Nat]

DelegationAmounts ==
  [exists : BOOLEAN, UndelegatableShare : Nat, PendingUndelegationAmount : Nat,
   RewardUndelegatableShare : Nat, RewardPendingUndelegationAmount : Nat]

UndelegationRecord ==
  [live : {TRUE}, staker : Stakers, operator : Operators, height : Nat, epoch : Nat,
   amount : Nat, actual : Int, reward : BOOLEAN, hold : Nat]

\* Every balance, pool and share is non-negative, which is what
\* UpdateAssetValue and UpdateAssetDecValue refuse to break.  The actual
\* amount of a record has no such check: see ActualWithinAmount.
TypeOK ==
  /\ height \in Nat /\ epoch \in Nat \ {0}
  /\ phase \in {"deliver", "complete"}
  /\ todo \in SUBSET Ids
  /\ stakerAsset \in [Stakers -> StakerAssetInfo]
  /\ stakingTotalAmount \in Nat
  /\ operatorAsset \in [Operators -> OperatorAssetInfo]
  /\ delegation \in [Stakers -> [Operators -> DelegationAmounts]]
  /\ stakerList \in SUBSET (Stakers \X Operators)
  /\ associated \in [Stakers -> Operators \cup {None}]
  /\ undelegation \in [Ids -> UndelegationRecord \cup {NoRecord}]
  /\ lastUndelegationID \in Nat
  /\ bank \in [Stakers -> Nat]
  /\ delegatedPool \in Nat
  /\ rewardIn \in Int
-----------------------------------------------------------------------------
(***************************************************************************)
(* Safety.                                                                 *)
(***************************************************************************)
\* The shares of an operator's pool are exactly the shares of its stakers:
\* delegateTo, RemoveShare and SlashAssets update the two in different
\* stores.
SharesMatchPool ==
  \A o \in Operators :
    operatorAsset[o].TotalShare = Sum([s \in Stakers |-> DelegatableShare(s, o)])

\* A staker with a share is in the operator's staker list, the list a slash
\* to zero clears: no share survives the tokens of its pool.
ShareholdersAreListed ==
  \A s \in Stakers, o \in Operators : DelegatableShare(s, o) > 0 => <<s, o>> \in stakerList

AmountOf(i, s, o, reward) ==
  LET r == undelegation[i]
  IN  IF r.live /\ r.staker = s /\ r.operator = o /\ r.reward = reward THEN r.amount ELSE 0

OperatorAmountOf(i, o) ==
  IF undelegation[i].live /\ undelegation[i].operator = o THEN undelegation[i].amount ELSE 0

StakerAmountOf(i, s) ==
  LET r == undelegation[i]
  IN  IF r.live /\ r.staker = s /\ ~r.reward THEN r.amount ELSE 0

\* The pending amounts of an operator, of a staker and of a delegation are
\* each the sum of the undelegation records they are about, whatever was
\* slashed, held or completed in between.
PendingMatchesRecords ==
  /\ \A o \in Operators :
       operatorAsset[o].PendingUndelegationAmount = Sum([i \in Ids |-> OperatorAmountOf(i, o)])
  /\ \A s \in Stakers : ~Native =>
       stakerAsset[s].PendingUndelegationAmount = Sum([i \in Ids |-> StakerAmountOf(i, s)])
  /\ \A s \in Stakers, o \in Operators :
       /\ delegation[s][o].PendingUndelegationAmount =
            Sum([i \in Ids |-> AmountOf(i, s, o, FALSE)])
       /\ delegation[s][o].RewardPendingUndelegationAmount =
            Sum([i \in Ids |-> AmountOf(i, s, o, TRUE)])

\* A record completes with what was undelegated less what was slashed: it
\* never pays more, and never a negative amount (a negative coin would
\* panic in EndBlock).
ActualWithinAmount ==
  \A i \in Ids : undelegation[i].live =>
    0 <= undelegation[i].actual /\ undelegation[i].actual <= undelegation[i].amount

SelfShare(s, o) == IF associated[s] = o THEN DelegatableShare(s, o) ELSE 0

\* The operator's own share of its pool is what its associated stakers
\* delegated to it ("the staker's delegations will be marked as
\* self-delegations for the operator").
OperatorShareIsSelfDelegation ==
  \A o \in Operators :
    operatorAsset[o].OperatorShare = Sum([s \in Stakers |-> SelfShare(s, o)])

\* What a staker has outside the pools and the records.
Paid(s) == bank[s] + stakerAsset[s].WithdrawableAmount

\* Where the tokens are: the shares, the pending amounts and the epochs are
\* how the ledger keeps its promise.
Vault == stakingTotalAmount + delegatedPool + rewardIn + (IF Native THEN Sum(bank) ELSE 0)

Free == IF Native THEN bank ELSE [s \in Stakers |-> stakerAsset[s].WithdrawableAmount]

Pooled == [o \in Operators |-> operatorAsset[o].TotalAmount]

Ticket == [i \in Ids |-> [live |-> undelegation[i].live, owner |-> undelegation[i].staker,
                          payable |-> undelegation[i].actual, internal |-> undelegation[i].reward]]

Custody == INSTANCE AssetCustody WITH
  Holders <- Stakers, Pools <- Operators, Tickets <- Ids,
  vault <- Vault, free <- Free, pooled <- Pooled, ticket <- Ticket
=============================================================================
