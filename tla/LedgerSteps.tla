---------------------------- MODULE LedgerSteps ----------------------------
(***************************************************************************)
(* The inductive invariants of the ledger, and what a step of it can do to *)
(* them.  The proofs meet here: LedgerProofs shows that each kind of step  *)
(* preserves each invariant, DelegationProofs that every step of           *)
(* Delegation is of one of these kinds.                                    *)
(***************************************************************************)
EXTENDS LedgerState

\* EndBlock works on records that are in the store.
TodoIsLive == \A i \in todo : undelegation[i].live

\* Ids are handed out in order: UndelegateFrom overwrites no record.
FreshIds == \A i \in Ids : i >= lastUndelegationID => undelegation[i] = NoRecord

RecordInv == TypeOK /\ TodoIsLive /\ FreshIds

\* No record comes or goes: at most what a record pays changes.
SlashesRecords ==
  /\ undelegation' \in [Ids -> UndelegationRecord \cup {NoRecord}]
  /\ \A i \in Ids :
       LET r == undelegation[i]
           q == undelegation'[i]
       IN  /\ q.live = r.live
           /\ ~r.live => q = r
           /\ r.live => /\ q.staker = r.staker /\ q.operator = r.operator
                        /\ q.reward = r.reward /\ q.amount = r.amount

\* The pending amount of a delegation, of staked tokens or of rewards.
PendingOf(s, o, reward) ==
  IF reward THEN delegation[s][o].RewardPendingUndelegationAmount
            ELSE delegation[s][o].PendingUndelegationAmount

\* A step that leaves the pending amounts alone.
PendingsKept ==
  /\ \A o \in Operators :
       operatorAsset'[o].PendingUndelegationAmount = operatorAsset[o].PendingUndelegationAmount
  /\ \A s \in Stakers :
       stakerAsset'[s].PendingUndelegationAmount = stakerAsset[s].PendingUndelegationAmount
  /\ \A s \in Stakers, o \in Operators :
       /\ delegation'[s][o].PendingUndelegationAmount = delegation[s][o].PendingUndelegationAmount
       /\ delegation'[s][o].RewardPendingUndelegationAmount = delegation[s][o].RewardPendingUndelegationAmount

\* A slash to zero clears the pool at once and the stakers by the operator's
\* list: without ShareholdersAreListed, SharesMatchPool is not inductive.
LedgerInv == SharesMatchPool /\ ShareholdersAreListed

\* How a step may change the shares in the pool of o: not at all, by as much
\* as it changes those of one staker, or both to nothing.
SharesMove(o) ==
  \/ /\ operatorAsset'[o].TotalShare = operatorAsset[o].TotalShare
     /\ \A t \in Stakers : DelegatableShare(t, o)' = DelegatableShare(t, o)
  \/ \E s \in Stakers :
       /\ operatorAsset'[o].TotalShare - operatorAsset[o].TotalShare
            = DelegatableShare(s, o)' - DelegatableShare(s, o)
       /\ \A t \in Stakers : t # s => DelegatableShare(t, o)' = DelegatableShare(t, o)
  \/ /\ operatorAsset'[o].TotalShare = 0
     /\ \A t \in Stakers : DelegatableShare(t, o)' = 0

NoRewardShares ==
  \A s \in Stakers, o \in Operators : delegation[s][o].RewardUndelegatableShare = 0

\* An account can be associated with itself only, and is from its first
\* delegation to itself on.
NativeAssociation ==
  Native => \A s \in Stakers : /\ associated[s] \in {None, s}
                               /\ s \in Operators /\ associated[s] = None => DelegatableShare(s, s) = 0

SelfInv == NoRewardShares /\ NativeAssociation /\ OperatorShareIsSelfDelegation

\* No pool has more tokens than shares, counted in units of 1/Precision.
PoolsBacked == \A o \in Operators : operatorAsset[o].TotalAmount <= operatorAsset[o].TotalShare

PaidInv == PoolsBacked /\ ActualWithinAmount

\* What EndBlock has still to complete is due.
DueTodo ==
  phase = "complete" =>
    \A i \in todo : undelegation[i].epoch < epoch /\ undelegation[i].hold = 0

\* The values of the refinement mapping.
Mapped ==
  /\ Vault \in Int
  /\ DOMAIN Free = Stakers /\ DOMAIN Pooled = Operators /\ DOMAIN Ticket = Ids
  /\ \A s \in Stakers :
       Free[s] \in Nat /\ Free[s] = IF Native THEN bank[s] ELSE stakerAsset[s].WithdrawableAmount
  /\ \A o \in Operators : Pooled[o] \in Nat /\ Pooled[o] = operatorAsset[o].TotalAmount

\* The values that TypeOK speaks of.
FieldsTyped ==
  /\ \A o \in Operators :
       /\ operatorAsset[o] \in OperatorAssetInfo
       /\ operatorAsset[o].TotalAmount \in Nat /\ operatorAsset[o].TotalShare \in Nat
       /\ operatorAsset[o].OperatorShare \in Nat
       /\ operatorAsset[o].PendingUndelegationAmount \in Nat
  /\ \A s \in Stakers :
       /\ stakerAsset[s] \in StakerAssetInfo /\ bank[s] \in Nat
       /\ stakerAsset[s].TotalDepositAmount \in Nat /\ stakerAsset[s].WithdrawableAmount \in Nat
       /\ stakerAsset[s].PendingUndelegationAmount \in Nat
  /\ \A s \in Stakers, o \in Operators :
       /\ delegation[s][o] \in DelegationAmounts
       /\ delegation[s][o].UndelegatableShare \in Nat
       /\ delegation[s][o].RewardUndelegatableShare \in Nat
       /\ delegation[s][o].PendingUndelegationAmount \in Nat
       /\ delegation[s][o].RewardPendingUndelegationAmount \in Nat
       /\ DelegatableShare(s, o) \in Nat
       /\ \A reward : PendingOf(s, o, reward) \in Nat
-----------------------------------------------------------------------------
(***************************************************************************)
(* The kinds of steps.                                                     *)
(***************************************************************************)
\* A step that takes from what records pay.
PaysLess ==
  /\ SlashesRecords
  /\ \A i \in Ids : undelegation[i].live /\ undelegation[i].actual >= 0 =>
       undelegation'[i].actual \in 0 .. undelegation[i].actual

\* A staker stays on the list of an operator as long as it has a share there.
ListKept ==
  \A s \in Stakers, o \in Operators :
    <<s, o>> \in stakerList => <<s, o>> \in stakerList' \/ DelegatableShare(s, o)' = 0

BackingKept == PoolsBacked => PoolsBacked'

\* Holds, and the steps of a block: at most the hold count of a record changes.
Holds ==
  /\ SlashesRecords /\ \A i \in Ids : undelegation'[i].actual = undelegation[i].actual
  /\ UNCHANGED <<stakerAsset, stakingTotalAmount, operatorAsset, delegation, stakerList, associated,
                 bank, delegatedPool, rewardIn>>

\* Deposit and withdrawal: what the staker can withdraw changes with what is in
\* custody.
Deposits(s) ==
  /\ PendingsKept /\ ~Native
  /\ \E d \in Int :
       /\ \A t \in Stakers : stakerAsset'[t].WithdrawableAmount =
            stakerAsset[t].WithdrawableAmount + (IF t = s THEN d ELSE 0)
       /\ stakingTotalAmount' = stakingTotalAmount + d
  /\ UNCHANGED <<operatorAsset, delegation, stakerList, associated, undelegation, bank,
                 delegatedPool, rewardIn>>

\* Delegation: the tokens go from the staker, or from the distribution module,
\* to the pool.
Delegates(s, o, x, reward, share) ==
  /\ PendingsKept /\ <<s, o>> \in stakerList' /\ x > 0 /\ (reward => RewardDelegation)
  /\ \A p \in Operators :
       /\ operatorAsset'[p].TotalAmount = operatorAsset[p].TotalAmount + (IF p = o THEN x ELSE 0)
       /\ operatorAsset'[p].TotalShare = operatorAsset[p].TotalShare + (IF p = o THEN share ELSE 0)
       /\ operatorAsset'[p].OperatorShare = operatorAsset[p].OperatorShare
            + (IF p = o /\ associated'[s] = o THEN share ELSE 0)
  /\ \A t \in Stakers, p \in Operators :
       /\ delegation'[t][p].RewardUndelegatableShare = delegation[t][p].RewardUndelegatableShare
            + (IF t = s /\ p = o /\ reward THEN share ELSE 0)
       /\ DelegatableShare(t, p)' = DelegatableShare(t, p) + (IF t = s /\ p = o THEN share ELSE 0)
  /\ \A t \in Stakers :
       /\ associated'[t] = IF t = s /\ Native /\ ~reward /\ s = o THEN o ELSE associated[t]
       /\ stakerAsset'[t].WithdrawableAmount = stakerAsset[t].WithdrawableAmount
            - (IF t = s /\ ~reward /\ ~Native THEN x ELSE 0)
       /\ bank'[t] = bank[t] - (IF t = s /\ ~reward /\ Native THEN x ELSE 0)
  /\ delegatedPool' = delegatedPool + (IF ~reward /\ Native THEN x ELSE 0)
  /\ rewardIn' = rewardIn + (IF reward THEN x ELSE 0)
  /\ UNCHANGED <<undelegation, stakingTotalAmount>>

\* The record of an undelegation of s from o.  What it pays is within its
\* amount, as long as an instant undelegation leaves something to pay.
Opens(s, o, reward, removed) ==
  \E i \in Ids, r \in UndelegationRecord :
    /\ r.live /\ r.staker = s /\ r.operator = o /\ r.reward = reward /\ r.amount = removed
    /\ InstantUndelegationPenalty < 100 /\ PoolsBacked => 0 <= r.actual /\ r.actual <= r.amount
    /\ undelegation[i] = NoRecord /\ undelegation'[i] = r
    /\ \A j \in Ids : j # i => undelegation'[j] = undelegation[j]

\* Undelegation: the tokens leave the pool for a record.
Undelegates(s, o, reward, share, removed) ==
  /\ Opens(s, o, reward, removed) /\ (reward => RewardDelegation)
  /\ \A p \in Operators :
       /\ operatorAsset'[p].TotalAmount = operatorAsset[p].TotalAmount
            - (IF p = o THEN removed ELSE 0)
       /\ operatorAsset'[p].TotalShare = operatorAsset[p].TotalShare
            - (IF p = o THEN share ELSE 0)
       /\ operatorAsset'[p].OperatorShare = operatorAsset[p].OperatorShare
            - (IF p = o /\ associated[s] = o THEN share ELSE 0)
       /\ operatorAsset'[p].PendingUndelegationAmount = operatorAsset[p].PendingUndelegationAmount
            + (IF p = o THEN removed ELSE 0)
  /\ \A t \in Stakers :
       /\ stakerAsset'[t].WithdrawableAmount = stakerAsset[t].WithdrawableAmount
       /\ ~Native => stakerAsset'[t].PendingUndelegationAmount =
            stakerAsset[t].PendingUndelegationAmount + (IF t = s /\ ~reward THEN removed ELSE 0)
  /\ \A t \in Stakers, p \in Operators :
       /\ delegation'[t][p].RewardUndelegatableShare = delegation[t][p].RewardUndelegatableShare
            - (IF t = s /\ p = o /\ reward THEN share ELSE 0)
       /\ DelegatableShare(t, p)' = DelegatableShare(t, p) - (IF t = s /\ p = o THEN share ELSE 0)
       /\ \A b \in BOOLEAN : PendingOf(t, p, b)' = PendingOf(t, p, b)
            + (IF t = s /\ p = o /\ b = reward THEN removed ELSE 0)
  /\ UNCHANGED <<stakingTotalAmount, associated, bank, delegatedPool, rewardIn>>

\* A decrease of an NST balance: it takes w from the staker, from its records,
\* and d[p] shares from its delegation to p.
Decreases(s, d, w) ==
  /\ PaysLess /\ PendingsKept /\ ~Native
  /\ \A i \in Ids : undelegation[i].staker # s => undelegation'[i] = undelegation[i]
  /\ \A p \in Operators :
       /\ operatorAsset'[p].TotalAmount \in 0 .. operatorAsset[p].TotalAmount
       /\ operatorAsset'[p].TotalShare = operatorAsset[p].TotalShare - d[p]
       /\ operatorAsset'[p].OperatorShare = operatorAsset[p].OperatorShare
            - (IF associated[s] = p THEN d[p] ELSE 0)
  /\ \A t \in Stakers, p \in Operators :
       /\ delegation'[t][p].RewardUndelegatableShare = delegation[t][p].RewardUndelegatableShare
       /\ DelegatableShare(t, p)' = DelegatableShare(t, p) - (IF t = s THEN d[p] ELSE 0)
  /\ \A t \in Stakers : stakerAsset'[t].WithdrawableAmount = stakerAsset[t].WithdrawableAmount
                          - (IF t = s THEN w ELSE 0)
  /\ UNCHANGED <<stakingTotalAmount, associated, bank, delegatedPool, rewardIn>>

\* A slash: it takes from the records and the pool, and clears the pool at once
\* when nothing is left.
Slashes(o) ==
  /\ PaysLess /\ PendingsKept
  /\ \A p \in Operators : operatorAsset'[p].TotalAmount \in 0 .. operatorAsset[p].TotalAmount
  /\ \E wipe \in BOOLEAN :
       /\ \A p \in Operators :
            /\ operatorAsset'[p].TotalShare = IF wipe /\ p = o THEN 0 ELSE operatorAsset[p].TotalShare
            /\ operatorAsset'[p].OperatorShare =
                 IF wipe /\ p = o THEN 0 ELSE operatorAsset[p].OperatorShare
       /\ \A t \in Stakers, p \in Operators :
            /\ delegation'[t][p].RewardUndelegatableShare =
                 IF wipe /\ p = o /\ <<t, p>> \in stakerList THEN 0
                 ELSE delegation[t][p].RewardUndelegatableShare
            /\ DelegatableShare(t, p)' =
                 IF wipe /\ p = o /\ <<t, p>> \in stakerList THEN 0 ELSE DelegatableShare(t, p)
  /\ UNCHANGED <<stakerAsset, stakingTotalAmount, associated, bank, delegatedPool, rewardIn>>

\* Association and dissociation: the staker's share becomes the operator's own,
\* or stops being it.
Associates(s) ==
  /\ PendingsKept /\ ~Native
  /\ \A t \in Stakers : t # s => associated'[t] = associated[t]
  /\ \A p \in Operators :
       /\ operatorAsset'[p].TotalAmount = operatorAsset[p].TotalAmount
       /\ operatorAsset'[p].TotalShare = operatorAsset[p].TotalShare
       /\ operatorAsset'[p].OperatorShare = operatorAsset[p].OperatorShare
            + (IF associated'[s] = p THEN delegation[s][p].UndelegatableShare ELSE 0)
            - (IF associated[s] = p THEN delegation[s][p].UndelegatableShare ELSE 0)
  /\ UNCHANGED <<delegation, stakerList, undelegation, stakerAsset, stakingTotalAmount, bank,
                 delegatedPool, rewardIn>>

\* Completion: the record goes, its amount leaves the pending amounts, and its
\* actual amount goes where it came from.
Completes(i, r) ==
  /\ i \in todo /\ phase = "complete" /\ undelegation[i] = r
  /\ r \in UndelegationRecord
  /\ undelegation'[i] = NoRecord /\ \A j \in Ids : j # i => undelegation'[j] = undelegation[j]
  /\ \A p \in Operators :
       /\ operatorAsset'[p].TotalAmount = operatorAsset[p].TotalAmount
       /\ operatorAsset'[p].TotalShare = operatorAsset[p].TotalShare
       /\ operatorAsset'[p].OperatorShare = operatorAsset[p].OperatorShare
       /\ operatorAsset'[p].PendingUndelegationAmount = operatorAsset[p].PendingUndelegationAmount
            - (IF p = r.operator THEN r.amount ELSE 0)
  /\ \A t \in Stakers, p \in Operators :
       /\ delegation'[t][p].RewardUndelegatableShare = delegation[t][p].RewardUndelegatableShare
       /\ DelegatableShare(t, p)' = DelegatableShare(t, p)
       /\ \A b \in BOOLEAN : PendingOf(t, p, b)' = PendingOf(t, p, b)
            - (IF t = r.staker /\ p = r.operator /\ b = r.reward THEN r.amount ELSE 0)
  /\ \A t \in Stakers :
       /\ stakerAsset'[t].WithdrawableAmount = stakerAsset[t].WithdrawableAmount
            + (IF t = r.staker /\ ~r.reward /\ ~Native THEN r.actual ELSE 0)
       /\ ~Native => stakerAsset'[t].PendingUndelegationAmount =
            stakerAsset[t].PendingUndelegationAmount
            - (IF t = r.staker /\ ~r.reward THEN r.amount ELSE 0)
       /\ bank'[t] = bank[t] + (IF t = r.staker /\ ~r.reward /\ Native THEN r.actual ELSE 0)
  /\ delegatedPool' = delegatedPool - (IF ~r.reward /\ Native THEN r.actual ELSE 0)
  /\ rewardIn' = rewardIn - (IF r.reward THEN r.actual ELSE 0)
  /\ UNCHANGED <<stakingTotalAmount, associated>>

LedgerStep ==
  /\ ListKept /\ BackingKept
  /\ \/ Holds
     \/ \E s \in Stakers : Deposits(s) \/ Associates(s)
     \/ \E s \in Stakers, o \in Operators, x \in Nat, reward \in BOOLEAN, share \in Nat :
          Delegates(s, o, x, reward, share)
     \/ \E s \in Stakers, o \in Operators, reward \in BOOLEAN, share \in Nat, removed \in Nat :
          Undelegates(s, o, reward, share, removed)
     \/ \E s \in Stakers, d \in [Operators -> Nat], w \in Nat : Decreases(s, d, w)
     \/ \E o \in Operators : Slashes(o)
     \/ \E i \in Ids, r \in UndelegationRecord : Completes(i, r)
=============================================================================
