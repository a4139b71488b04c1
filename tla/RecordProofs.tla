---------------------------- MODULE RecordProofs ----------------------------
(***************************************************************************)
(* The types of the ledger, and the bookkeeping of its undelegation        *)
(* records, for every set of stakers and operators, every amount, every    *)
(* precision and every parameter.                                          *)
(***************************************************************************)
EXTENDS Delegation, LedgerSteps, ArithmeticProofs

-----------------------------------------------------------------------------
(***************************************************************************)
(* What removing a share does to the pool and to the delegation.           *)
(***************************************************************************)
\* A live undelegation record has all the fields of UndelegationRecord.
LEMMA LiveRecords ==
  ASSUME TypeOK, NEW i \in Ids, undelegation[i].live
  PROVE  undelegation[i] \in UndelegationRecord
BY DEF TypeOK, NoRecord

\* What RemoveShareFromOperator takes out of a pool is a natural number.
LEMMA RemovedType ==
  ASSUME TypeOK, NEW o \in Operators, NEW share \in Nat
  PROVE  Removed(o, share) \in Nat
<1>1. operatorAsset[o].TotalShare \in Nat /\ operatorAsset[o].TotalAmount \in Nat
  BY Zenon DEF TypeOK, OperatorAssetInfo
<1> QED
  BY <1>1, RemovedTokenType, Zenon DEF Removed

\* RemoveShare makes nothing of the pool and of the delegation negative, when
\* none of its checks fails.
LEMMA RemoveShareTypes ==
  ASSUME TypeOK, NEW s \in Stakers, NEW o \in Operators, NEW share \in Nat,
         NEW reward \in BOOLEAN, NEW isUndelegation \in BOOLEAN,
         ~RemoveShareFails(s, o, share, reward)
  PROVE  /\ PoolWithout(s, o, share, isUndelegation) \in OperatorAssetInfo
         /\ DelegationWithout(s, o, share, isUndelegation, reward) \in DelegationAmounts
<1> DEFINE p == operatorAsset[o]
           d == delegation[s][o]
           t == Removed(o, share)
<1>1. t \in Nat
  BY RemovedType
<1>2. p \in OperatorAssetInfo /\ d \in DelegationAmounts
  BY DEF TypeOK
<1>3. /\ share <= p.TotalShare /\ t <= p.TotalAmount
      /\ associated[s] = o => share <= p.OperatorShare
      /\ share <= (IF reward THEN d.RewardUndelegatableShare ELSE d.UndelegatableShare)
  BY <1>1, <1>2 DEF RemoveShareFails, OperatorAssetInfo, DelegationAmounts
<1> HIDE DEF p, d, t
<1>4. PoolWithout(s, o, share, isUndelegation) \in OperatorAssetInfo
  BY <1>1, <1>2, <1>3 DEF PoolWithout, UpdateOperatorAssetState, OperatorAssetInfo, p, t
<1>5. DelegationWithout(s, o, share, isUndelegation, reward) \in DelegationAmounts
  BY <1>1, <1>2, <1>3 DEF DelegationWithout, UpdateDelegationState, DelegationAmounts, d, t
<1> QED
  BY <1>4, <1>5
-----------------------------------------------------------------------------
(***************************************************************************)
(* Types, and the bookkeeping of the records.                              *)
(***************************************************************************)
LEMMA RecordInit == Init => RecordInv
<1> SUFFICES ASSUME Init PROVE RecordInv
  OBVIOUS
<1> USE DelegationAssumption
<1>1. TypeOK
  BY DEF Init, TypeOK, StakerAssetInfo, OperatorAssetInfo, DelegationAmounts, None
<1>2. TodoIsLive /\ FreshIds
  BY DEF Init, TodoIsLive, FreshIds
<1> QED
  BY <1>1, <1>2 DEF RecordInv

\* A deposit preserves the records' invariant (PerformDepositOrWithdraw).
LEMMA DepositRecord ==
  ASSUME RecordInv, NEW s \in Stakers, NEW x \in Nat, Deposit(s, x) PROVE RecordInv'
<1> USE DEF Deposit, RecordInv
<1>1. stakerAsset' \in [Stakers -> StakerAssetInfo]
  BY DEF TypeOK, StakerAssetInfo, UpdateStakerAssetState
<1>2. TypeOK'
  BY <1>1 DEF TypeOK
<1> QED
  BY <1>2 DEF TodoIsLive, FreshIds

\* A withdrawal preserves it: it is refused above the withdrawable amount.
LEMMA WithdrawRecord ==
  ASSUME RecordInv, NEW s \in Stakers, NEW x \in Nat, Withdraw(s, x) PROVE RecordInv'
<1> USE DEF Withdraw, WithdrawFails, RecordInv
<1>1. stakerAsset' \in [Stakers -> StakerAssetInfo]
  BY DEF TypeOK, StakerAssetInfo, UpdateStakerAssetState
<1>2. TypeOK'
  BY <1>1 DEF TypeOK
<1> QED
  BY <1>2 DEF TodoIsLive, FreshIds

\* CalculateShare returns a natural number.
LEMMA CalculateShareType ==
  ASSUME TypeOK, NEW o \in Operators, NEW x \in Nat
  PROVE  CalculateShare(o, x) \in Nat
<1>1. operatorAsset[o].TotalShare \in Nat /\ operatorAsset[o].TotalAmount \in Nat
  BY DEF TypeOK, OperatorAssetInfo
<1>2. Dec(x) \in Nat
  BY PrecisionAssumption DEF Dec
<1>3. SharesFromTokens(operatorAsset[o].TotalShare, x, operatorAsset[o].TotalAmount) \in Nat
  BY <1>1, SharesFromTokensType, Zenon
<1> QED
  BY <1>2, <1>3 DEF CalculateShare

\* Delegation preserves the records' invariant (delegateTo).
LEMMA DelegateToRecord ==
  ASSUME RecordInv, NEW s \in Stakers, NEW o \in Operators, NEW x \in Nat,
         NEW reward \in BOOLEAN, DelegateTo(s, o, x, reward)
  PROVE  RecordInv'
<1> DEFINE share == CalculateShare(o, x)
<1>1. share \in Nat
  BY CalculateShareType DEF RecordInv
<1> HIDE DEF share
<1>2. stakerAsset' \in [Stakers -> StakerAssetInfo]
  <2>1. \/ stakerAsset' = stakerAsset
        \/ /\ x <= stakerAsset[s].WithdrawableAmount
           /\ stakerAsset' = [stakerAsset EXCEPT ![s] = UpdateStakerAssetState(@, 0, -x, 0)]
    BY DEF DelegateTo
  <2> QED
    BY <2>1 DEF RecordInv, TypeOK, StakerAssetInfo, UpdateStakerAssetState
<1>3. bank' \in [Stakers -> Nat] /\ delegatedPool' \in Nat /\ rewardIn' \in Int
  BY DEF DelegateTo, RecordInv, TypeOK
<1>4. associated' \in [Stakers -> Operators \cup {None}]
  BY Zenon DEF DelegateTo, RecordInv, TypeOK, AssociatedAfter
<1>5. operatorAsset' \in [Operators -> OperatorAssetInfo]
  BY <1>1 DEF DelegateTo, RecordInv, TypeOK, OperatorAssetInfo,
     UpdateOperatorAssetState, share
<1>6. delegation' \in [Stakers -> [Operators -> DelegationAmounts]]
  BY <1>1 DEF DelegateTo, RecordInv, TypeOK, DelegationAmounts,
     UpdateDelegationState, share
<1>7. TypeOK'
  BY <1>2, <1>3, <1>4, <1>5, <1>6, SMTT(60) DEF DelegateTo, RecordInv, TypeOK
<1> QED
  BY <1>7 DEF DelegateTo, RecordInv, TodoIsLive, FreshIds

\* The shares that validation of an undelegation computes are natural numbers.
LEMMA ShareTypes ==
  ASSUME TypeOK, NEW s \in Stakers, NEW o \in Operators, NEW x \in Nat, NEW reward \in BOOLEAN
  PROVE  /\ RequestedShare(o, x) \in Nat
         /\ UndelegatableShareOf(s, o, reward) \in Nat
         /\ ValidateUndelegationAmount(s, o, x, reward) \in Nat
         /\ DelegatableShare(s, o) \in Nat
<1>1. operatorAsset[o] \in OperatorAssetInfo /\ delegation[s][o] \in DelegationAmounts
  BY DEF TypeOK
<1>2. RequestedShare(o, x) \in Nat
  BY <1>1, SharesFromTokensType, Zenon DEF RequestedShare, OperatorAssetInfo
<1>3. UndelegatableShareOf(s, o, reward) \in Nat /\ DelegatableShare(s, o) \in Nat
  BY <1>1 DEF UndelegatableShareOf, DelegatableShare, DelegationAmounts
<1> QED
  BY <1>2, <1>3 DEF ValidateUndelegationAmount

\* The penalty of an instant undelegation is a natural number.
LEMMA InstantPenaltyType ==
  ASSUME NEW x \in Nat PROVE InstantPenaltyAmount(x) \in Nat
<1>1. InstantUndelegationPenalty * Precision \in Nat /\ Precision \in Nat \ {0}
  BY DelegationAssumption, PrecisionAssumption
<1>2. (InstantUndelegationPenalty * Precision) \div 100 \in Nat
  BY <1>1, DivBounds
<1>3. ((InstantUndelegationPenalty * Precision) \div 100) * x \in Nat
  BY <1>2
<1> QED
  BY <1>1, <1>3, DivBounds DEF InstantPenaltyAmount, TruncateInt

\* The record an undelegation writes.
LEMMA UndelegateFromResult ==
  ASSUME RecordInv, NEW s \in Stakers, NEW o \in Operators, NEW x \in Nat,
         NEW reward \in BOOLEAN, NEW instant \in BOOLEAN,
         UndelegateFrom(s, o, x, reward, instant)
  PROVE  LET share   == ValidateUndelegationAmount(s, o, x, reward)
             removed == Removed(o, share)
             id      == lastUndelegationID
         IN  /\ id \in Ids /\ undelegation[id] = NoRecord
             /\ \E r \in UndelegationRecord :
                  /\ r.live /\ r.staker = s /\ r.operator = o /\ r.reward = reward
                  /\ r.amount = removed /\ r.actual <= removed
                  /\ r.actual >= removed - InstantPenaltyAmount(x)
                  /\ undelegation' = [undelegation EXCEPT ![id] = r]
<1> DEFINE share   == ValidateUndelegationAmount(s, o, x, reward)
           removed == Removed(o, share)
<1>1. share \in Nat /\ removed \in Nat
  BY ShareTypes, RemovedType, Zenon DEF RecordInv
<1>2. lastUndelegationID \in Ids
  BY DelegationAssumption DEF UndelegateFrom, RecordInv, TypeOK, Ids
<1>3. undelegation[lastUndelegationID] = NoRecord
  BY <1>2 DEF RecordInv, FreshIds, TypeOK
<1> HIDE DEF share, removed
<1>4. PICK expiration \in (IF instant THEN InstantUnbondingExpirations
                           ELSE {FALSE} \X UnbondingExpirations) :
        undelegation' = [undelegation EXCEPT ![lastUndelegationID] =
            [live |-> TRUE, staker |-> s, operator |-> o, height |-> height,
             epoch |-> expiration[2], amount |-> removed,
             actual |-> removed - (IF expiration[1] THEN InstantPenaltyAmount(x) ELSE 0),
             reward |-> reward, hold |-> 0]]
  BY ZenonT(60) DEF UndelegateFrom, share, removed
<1>5. epoch \in Nat /\ UnbondingEpochs \in Nat /\ height \in Nat
  BY DelegationAssumption, Zenon DEF RecordInv, TypeOK
<1>6. UnbondingExpirations \subseteq Nat
  BY <1>5 DEF UnbondingExpirations, NullEpoch
<1>7. expiration[2] \in Nat
  <2>1. expiration \in BOOLEAN \X Nat
    <3>1. {NullEpoch, epoch} \subseteq Nat /\ {TRUE} \subseteq BOOLEAN /\ {FALSE} \subseteq BOOLEAN
      BY <1>5 DEF NullEpoch
    <3>2. \A A, B, C, D : A \subseteq C /\ B \subseteq D => A \X B \subseteq C \X D
      OBVIOUS
    <3>3. /\ {TRUE} \X {NullEpoch, epoch} \subseteq BOOLEAN \X Nat
          /\ {FALSE} \X UnbondingExpirations \subseteq BOOLEAN \X Nat
      BY <1>6, <3>1, <3>2, Zenon
    <3> QED
      BY <3>3, Zenon DEF InstantUnbondingExpirations
  <2> QED
    BY <2>1
<1>8. InstantPenaltyAmount(x) \in Nat
  BY InstantPenaltyType, Zenon
<1> DEFINE r == [live |-> TRUE, staker |-> s, operator |-> o, height |-> height,
             epoch |-> expiration[2], amount |-> removed,
             actual |-> removed - (IF expiration[1] THEN InstantPenaltyAmount(x) ELSE 0),
             reward |-> reward, hold |-> 0]
<1>9. /\ r \in UndelegationRecord
      /\ r.actual <= removed /\ r.actual >= removed - InstantPenaltyAmount(x)
  BY <1>1, <1>5, <1>7, <1>8 DEF UndelegationRecord
<1>10. r.live /\ r.staker = s /\ r.operator = o /\ r.reward = reward /\ r.amount = removed
  OBVIOUS
<1>11. undelegation' = [undelegation EXCEPT ![lastUndelegationID] = r]
  BY <1>4
<1> HIDE DEF r
<1> QED
  BY <1>2, <1>3, <1>9, <1>10, <1>11, Zenon DEF share, removed

\* Undelegation preserves the records' invariant, and its record has a fresh id
\* (UndelegateFrom).
LEMMA UndelegateFromRecord ==
  ASSUME RecordInv, NEW s \in Stakers, NEW o \in Operators, NEW x \in Nat,
         NEW reward \in BOOLEAN, NEW instant \in BOOLEAN,
         UndelegateFrom(s, o, x, reward, instant)
  PROVE  RecordInv'
<1> DEFINE share   == ValidateUndelegationAmount(s, o, x, reward)
           removed == Removed(o, share)
           id      == lastUndelegationID
<1>1. share \in Nat /\ removed \in Nat
  BY ShareTypes, RemovedType DEF RecordInv
<1>2. ~RemoveShareFails(s, o, share, reward)
  BY DEF UndelegateFrom
<1> HIDE DEF share, removed, id
<1>3. PICK r \in UndelegationRecord : r.live /\ undelegation' = [undelegation EXCEPT ![id] = r]
  BY UndelegateFromResult DEF id
<1>4. id \in Ids /\ undelegation[id] = NoRecord
  BY UndelegateFromResult DEF id
<1>5. undelegation' \in [Ids -> UndelegationRecord \cup {NoRecord}]
  BY <1>3, <1>4, SMTT(60) DEF RecordInv, TypeOK
<1>6. /\ PoolWithout(s, o, share, TRUE) \in OperatorAssetInfo
      /\ DelegationWithout(s, o, share, TRUE, reward) \in DelegationAmounts
  BY <1>1, <1>2, RemoveShareTypes, ZenonT(60) DEF RecordInv
<1>7. operatorAsset' \in [Operators -> OperatorAssetInfo]
  BY <1>6, Zenon DEF UndelegateFrom, RecordInv, TypeOK, share
<1>8. delegation' \in [Stakers -> [Operators -> DelegationAmounts]]
  BY <1>6, ZenonT(60) DEF UndelegateFrom, RecordInv, TypeOK, share
<1>9. stakerAsset' \in [Stakers -> StakerAssetInfo]
  <2>1. \/ stakerAsset' = stakerAsset
        \/ stakerAsset' = [stakerAsset EXCEPT ![s] = UpdateStakerAssetState(@, 0, 0, removed)]
    BY Zenon DEF UndelegateFrom, removed, share
  <2>2. UpdateStakerAssetState(stakerAsset[s], 0, 0, removed) \in StakerAssetInfo
    BY <1>1 DEF RecordInv, TypeOK, StakerAssetInfo, UpdateStakerAssetState
  <2> QED
    BY <2>1, <2>2 DEF RecordInv, TypeOK
<1>10. stakerList' \in SUBSET (Stakers \X Operators)
  BY Zenon DEF UndelegateFrom, RecordInv, TypeOK
<1>11. lastUndelegationID' = id + 1 /\ id \in Nat
  BY Zenon DEF UndelegateFrom, RecordInv, TypeOK, id
<1>12. TypeOK'
  <2>1. UNCHANGED <<height, epoch, phase, todo, stakingTotalAmount, associated, bank,
                    delegatedPool, rewardIn>>
    BY Zenon DEF UndelegateFrom
  <2> QED
    BY <1>5, <1>7, <1>8, <1>9, <1>10, <1>11, <2>1, SMTT(60) DEF RecordInv, TypeOK
<1>13. TodoIsLive'
  BY <1>3, <1>4, Zenon DEF UndelegateFrom, RecordInv, TodoIsLive, TypeOK
<1>14. FreshIds'
  BY <1>3, <1>4, <1>11 DEF RecordInv, FreshIds, TypeOK, Ids, id
<1> QED
  BY <1>12, <1>13, <1>14, Zenon DEF RecordInv

\* Association of a staker with an operator preserves the records' invariant.
LEMMA AssociateRecord ==
  ASSUME RecordInv, NEW s \in Stakers, NEW o \in Operators, AssociateOperatorWithStaker(s, o)
  PROVE  RecordInv'
<1>1. UpdateOperatorAssetState(operatorAsset[o], 0, 0, 0, delegation[s][o].UndelegatableShare)
        \in OperatorAssetInfo
  BY DEF RecordInv, TypeOK, OperatorAssetInfo, DelegationAmounts, UpdateOperatorAssetState
<1>2. /\ operatorAsset' \in [Operators -> OperatorAssetInfo]
      /\ associated' \in [Stakers -> Operators \cup {None}]
  BY <1>1, Zenon DEF AssociateOperatorWithStaker, RecordInv, TypeOK
<1> QED
  BY <1>2, Zenon DEF AssociateOperatorWithStaker, RecordInv, TypeOK, TodoIsLive, FreshIds

\* So does dissociation.
LEMMA DissociateRecord ==
  ASSUME RecordInv, NEW s \in Stakers, DissociateOperatorFromStaker(s)
  PROVE  RecordInv'
<1> DEFINE o == associated[s]
<1>1. o \in Operators
  BY Zenon DEF DissociateOperatorFromStaker, RecordInv, TypeOK
<1> HIDE DEF o
<1>2. UpdateOperatorAssetState(operatorAsset[o], 0, 0, 0, -delegation[s][o].UndelegatableShare)
        \in OperatorAssetInfo
  BY <1>1 DEF DissociateOperatorFromStaker, RecordInv, TypeOK, OperatorAssetInfo,
     DelegationAmounts, UpdateOperatorAssetState, o
<1>3. /\ operatorAsset' \in [Operators -> OperatorAssetInfo]
      /\ associated' \in [Stakers -> Operators \cup {None}]
  BY <1>1, <1>2, Zenon DEF DissociateOperatorFromStaker, RecordInv, TypeOK, o
<1> QED
  BY <1>3, Zenon DEF DissociateOperatorFromStaker, RecordInv, TypeOK, TodoIsLive, FreshIds

\* What a decrease of an NST balance takes, in each place.
LEMMA NSTTypes ==
  ASSUME TypeOK, NEW s \in Stakers, NEW x \in Nat
  PROVE  /\ FromWithdrawable(s, x) \in 0 .. stakerAsset[s].WithdrawableAmount
         /\ \A i \in Ids : FromUndelegation(s, x, i) \in Int
         /\ \A i \in Ids : undelegation[i].actual >= 0 =>
              FromUndelegation(s, x, i) \in 0 .. undelegation[i].actual
         /\ LeftForDelegations(s, x) \in Int
         /\ DelegatedAmount(s) \in Nat
         /\ \A o \in Operators : NSTSlashShare(s, x, o) \in Nat
         /\ TakenFrom(s, x) \in Int
<1>0. IsFiniteSet(Ids)
  BY DelegationAssumption, IntervalFinite DEF Ids
<1>1. stakerAsset[s].WithdrawableAmount \in Nat
  BY DEF TypeOK, StakerAssetInfo
<1>2. FromWithdrawable(s, x) \in 0 .. stakerAsset[s].WithdrawableAmount
  BY <1>1 DEF FromWithdrawable, MinOf
<1>3. \A i \in Ids : undelegation[i].actual \in Int
  <2>1. \A r \in UndelegationRecord : r.actual \in Int
    BY DEF UndelegationRecord
  <2>2. NoRecord.actual = 0
    BY DEF NoRecord
  <2> QED
    BY <2>1, <2>2 DEF TypeOK
<1>4. \A i \in Ids : AbsorbedBefore(s, i) \in Int
  <2> TAKE i \in Ids
  <2> DEFINE f == [j \in Ids |-> IF j < i /\ undelegation[j].live /\ undelegation[j].staker = s
                                 THEN undelegation[j].actual ELSE 0]
  <2>1. f \in [Ids -> Int]
    BY <1>3
  <2> HIDE DEF f
  <2>2. Sum(f) \in Int
    BY <1>0, <2>1, SumType
  <2> QED
    BY <2>2 DEF AbsorbedBefore, f
<1>5. \A i \in Ids : FromUndelegation(s, x, i) \in Int
  BY <1>1, <1>2, <1>3, <1>4 DEF FromUndelegation, MinOf
<1>6. \A i \in Ids : undelegation[i].actual >= 0 =>
         FromUndelegation(s, x, i) \in 0 .. undelegation[i].actual
  BY <1>1, <1>2, <1>3, <1>4 DEF FromUndelegation, MinOf
<1>7. FromUndelegations(s, x) \in Int
  <2> DEFINE f == [i \in Ids |-> FromUndelegation(s, x, i)]
  <2>1. f \in [Ids -> Int]
    BY <1>5
  <2> HIDE DEF f
  <2>2. Sum(f) \in Int
    BY <1>0, <2>1, SumType
  <2> QED
    BY <2>2 DEF FromUndelegations, f
<1>8. LeftForDelegations(s, x) \in Int
  BY <1>1, <1>2, <1>7 DEF LeftForDelegations
<1>9. DelegatedAmount(s) \in Nat
  <2> DEFINE f == [o \in Operators |->
        TokensFromShares(delegation[s][o].UndelegatableShare, operatorAsset[o].TotalShare,
                         operatorAsset[o].TotalAmount)]
  <2>1. \A o \in Operators :
          /\ delegation[s][o].UndelegatableShare \in Nat
          /\ operatorAsset[o].TotalShare \in Nat /\ operatorAsset[o].TotalAmount \in Nat
    BY DEF TypeOK, DelegationAmounts, OperatorAssetInfo
  <2>2. f \in [Operators -> Nat]
    BY <2>1, TokensFromSharesType, Zenon
  <2> HIDE DEF f
  <2>3. Sum(f) \in Nat
    BY <2>2, SumNat, DelegationAssumption
  <2> QED
    BY <2>3 DEF DelegatedAmount, f
<1>10. \A o \in Operators : NSTSlashShare(s, x, o) \in Nat
  <2> SUFFICES ASSUME NEW o \in Operators, SlashesDelegations(s, x)
               PROVE  Mul(delegation[s][o].UndelegatableShare, NSTSlashProportion(s, x)) \in Nat
    BY DEF NSTSlashShare
  <2>1. /\ Dec(LeftForDelegations(s, x)) \in Nat
        /\ Dec(DelegatedAmount(s)) \in Nat \ {0}
    BY <1>8, <1>9, PrecisionAssumption DEF SlashesDelegations, Dec
  <2>2. NSTSlashProportion(s, x) \in Nat
    BY <2>1, QuoMulType, PrecisionAssumption, Zenon DEF NSTSlashProportion, MinOf, One
  <2>3. delegation[s][o].UndelegatableShare \in Nat
    BY DEF TypeOK, DelegationAmounts
  <2> QED
    BY <2>2, <2>3, QuoMulType, Zenon
<1>11. FromDelegations(s, x) \in Int
  <2> DEFINE f == [o \in Operators |->
        IF NSTSlashShare(s, x, o) > 0 THEN Removed(o, NSTSlashShare(s, x, o)) ELSE 0]
  <2>1. f \in [Operators -> Nat]
    BY <1>10, RemovedType, Zenon
  <2> HIDE DEF f
  <2>2. Sum(f) \in Nat
    BY <2>1, SumNat, DelegationAssumption
  <2> QED
    BY <2>2 DEF FromDelegations, f
<1>12. TakenFrom(s, x) \in Int
  BY <1>1, <1>2, <1>7, <1>11 DEF TakenFrom
<1> QED
  BY <1>2, <1>5, <1>6, <1>8, <1>9, <1>10, <1>12, Zenon

\* A delegation that a decrease reduces can give the share.
LEMMA NSTRemoves ==
  ASSUME TypeOK, NEW s \in Stakers, NEW x \in Nat, ~DecreaseNSTBalanceFails(s, x),
         NEW o \in Operators, NSTSlashShare(s, x, o) > 0
  PROVE  ~RemoveShareFails(s, o, NSTSlashShare(s, x, o), FALSE)
<1>1. SlashesDelegations(s, x) /\ delegation[s][o].exists
  BY DEF NSTSlashShare
<1> QED
  BY <1>1, Zenon DEF DecreaseNSTBalanceFails

\* Slashing a record changes nothing but what it will pay.
LEMMA RecordSlashed ==
  ASSUME NEW r \in UndelegationRecord, NEW a \in Int
  PROVE  LET q == [r EXCEPT !.actual = a]
         IN  /\ q \in UndelegationRecord /\ q.actual = a
             /\ q.live = r.live /\ q.staker = r.staker /\ q.operator = r.operator
             /\ q.reward = r.reward /\ q.amount = r.amount /\ q.hold = r.hold /\ q.epoch = r.epoch
BY Zenon DEF UndelegationRecord

\* A step that only reduces live records keeps them live and the ids fresh.
LEMMA SlashesRecordsInv ==
  ASSUME RecordInv, SlashesRecords, UNCHANGED <<todo, lastUndelegationID>>
  PROVE  TodoIsLive' /\ FreshIds'
<1>1. TodoIsLive'
  BY DEF RecordInv, SlashesRecords, TodoIsLive, TypeOK
<1>2. NoRecord.live = FALSE
  BY DEF NoRecord
<1>3. FreshIds'
  BY <1>2, Zenon DEF RecordInv, SlashesRecords, FreshIds
<1> QED
  BY <1>1, <1>3

\* A decrease of an NST balance only reduces live records (UpdateNSTBalance).
LEMMA DecreaseSlashesRecords ==
  ASSUME TypeOK, NEW s \in Stakers, NEW x \in Nat, DecreaseNSTBalance(s, x)
  PROVE  SlashesRecords
<1> SUFFICES ASSUME NEW i \in Ids
             PROVE  LET r == undelegation[i]
                        q == undelegation'[i]
                    IN  /\ q \in UndelegationRecord \cup {NoRecord}
                        /\ q.live = r.live
                        /\ ~r.live => q = r
                        /\ r.live => /\ q.staker = r.staker /\ q.operator = r.operator
                                     /\ q.reward = r.reward /\ q.amount = r.amount
  BY DEF SlashesRecords, DecreaseNSTBalance
<1> DEFINE r == undelegation[i]
           a == r.actual - FromUndelegation(s, x, i)
<1>1. CASE r.live /\ r.staker = s
  <2>1. r \in UndelegationRecord
    BY <1>1, LiveRecords
  <2>2. a \in Int
    <3>1. r.actual \in Int
      BY <2>1, Zenon DEF UndelegationRecord
    <3>2. FromUndelegation(s, x, i) \in Int
      BY NSTTypes, Zenon
    <3> QED
      BY <3>1, <3>2
  <2>3. undelegation'[i] = [r EXCEPT !.actual = a]
    BY <1>1 DEF DecreaseNSTBalance
  <2> HIDE DEF a, r
  <2>4. LET q == [r EXCEPT !.actual = a]
         IN  /\ q \in UndelegationRecord
             /\ q.live = r.live /\ q.staker = r.staker /\ q.operator = r.operator
             /\ q.reward = r.reward /\ q.amount = r.amount
    BY <2>1, <2>2, RecordSlashed
  <2> QED
    BY <1>1, <2>3, <2>4, Zenon DEF r
<1>2. CASE ~(r.live /\ r.staker = s)
  <2>1. undelegation'[i] = r /\ r \in UndelegationRecord \cup {NoRecord}
    BY <1>2 DEF DecreaseNSTBalance, TypeOK
  <2> QED
    BY <2>1
<1> QED
  BY <1>1, <1>2, Zenon

\* A decrease of an NST balance preserves the records' invariant.
LEMMA DecreaseRecord ==
  ASSUME RecordInv, NEW s \in Stakers, NEW x \in Nat, DecreaseNSTBalance(s, x)
  PROVE  RecordInv'
<1>1. TypeOK
  BY DEF RecordInv
<1>2. SlashesRecords
  BY <1>1, DecreaseSlashesRecords
<1>3. ~DecreaseNSTBalanceFails(s, x)
  BY DEF DecreaseNSTBalance
<1>4. TakenFrom(s, x) <= stakerAsset[s].TotalDepositAmount
  <2>1. TakenFrom(s, x) \in Int
    BY <1>1, NSTTypes, Zenon
  <2>2. stakerAsset[s].TotalDepositAmount \in Int
    BY <1>1 DEF TypeOK, StakerAssetInfo
  <2>3. ~(TakenFrom(s, x) > stakerAsset[s].TotalDepositAmount)
    BY <1>3, Zenon DEF DecreaseNSTBalanceFails
  <2> QED
    BY <2>1, <2>2, <2>3
<1>5. UpdateStakerAssetState(stakerAsset[s], -TakenFrom(s, x), -FromWithdrawable(s, x), 0)
        \in StakerAssetInfo
  <2>1. /\ TakenFrom(s, x) \in Int
        /\ FromWithdrawable(s, x) \in 0 .. stakerAsset[s].WithdrawableAmount
    BY <1>1, NSTTypes, Zenon
  <2> QED
    BY <1>1, <1>4, <2>1 DEF TypeOK, StakerAssetInfo, UpdateStakerAssetState
<1>6. stakerAsset' \in [Stakers -> StakerAssetInfo]
  BY <1>1, <1>5, SMTT(60) DEF DecreaseNSTBalance, TypeOK
<1>7. \A o \in Operators : NSTSlashShare(s, x, o) > 0 =>
        /\ PoolWithout(s, o, NSTSlashShare(s, x, o), FALSE) \in OperatorAssetInfo
        /\ DelegationWithout(s, o, NSTSlashShare(s, x, o), FALSE, FALSE) \in DelegationAmounts
  <2> SUFFICES ASSUME NEW o \in Operators, NSTSlashShare(s, x, o) > 0
               PROVE  /\ PoolWithout(s, o, NSTSlashShare(s, x, o), FALSE) \in OperatorAssetInfo
                      /\ DelegationWithout(s, o, NSTSlashShare(s, x, o), FALSE, FALSE)
                           \in DelegationAmounts
    BY Zenon
  <2>1. NSTSlashShare(s, x, o) \in Nat /\ ~RemoveShareFails(s, o, NSTSlashShare(s, x, o), FALSE)
    BY <1>1, <1>3, NSTTypes, NSTRemoves, Zenon
  <2> QED
    BY <1>1, <2>1, RemoveShareTypes, Zenon
<1>8. operatorAsset' \in [Operators -> OperatorAssetInfo]
  BY <1>1, <1>7, Zenon DEF DecreaseNSTBalance, TypeOK
<1>9. delegation' \in [Stakers -> [Operators -> DelegationAmounts]]
  BY <1>1, <1>7, ZenonT(60) DEF DecreaseNSTBalance, TypeOK
<1>10. stakerList' \in SUBSET (Stakers \X Operators)
  BY <1>1 DEF DecreaseNSTBalance, TypeOK
<1>11. UNCHANGED <<height, epoch, phase, todo, stakingTotalAmount, associated,
                   lastUndelegationID, bank, delegatedPool, rewardIn>>
  BY Zenon DEF DecreaseNSTBalance
<1>12. TypeOK'
  BY <1>1, <1>2, <1>6, <1>8, <1>9, <1>10, <1>11, Zenon DEF TypeOK, SlashesRecords
<1> QED
  BY <1>2, <1>11, <1>12, SlashesRecordsInv DEF RecordInv

\* A slash takes a part of the pool and no more than the pool.
LEMMA SlashAmountType ==
  ASSUME TypeOK, NEW o \in Operators, NEW proportion \in Proportions
  PROVE  TruncateInt(proportion * operatorAsset[o].TotalAmount) \in 0 .. operatorAsset[o].TotalAmount
<1>1. proportion \in 0 .. One
  BY DelegationAssumption
<1>2. operatorAsset[o].TotalAmount \in Nat
  BY DEF TypeOK, OperatorAssetInfo
<1> QED
  BY <1>1, <1>2, TruncateProportion, Zenon

\* What a slash leaves of a record: never more, and never a debt.
LEMMA SlashFromUndelegationResult ==
  ASSUME NEW r \in UndelegationRecord, NEW proportion \in Proportions
  PROVE  LET q == SlashFromUndelegation(r, proportion)
         IN  /\ q \in UndelegationRecord
             /\ q.live = r.live /\ q.staker = r.staker /\ q.operator = r.operator
             /\ q.reward = r.reward /\ q.amount = r.amount
             /\ r.actual >= 0 => q.actual \in 0 .. r.actual
             /\ r.actual < 0 => q.actual <= 0
<1> DEFINE slash == TruncateInt(proportion * r.amount)
           a     == IF slash >= r.actual THEN 0 ELSE r.actual - slash
<1>1. r.amount \in Nat /\ r.actual \in Int
  BY Zenon DEF UndelegationRecord
<1>2. proportion \in 0 .. One
  BY DelegationAssumption
<1>3. slash \in 0 .. r.amount
  BY <1>1, <1>2, TruncateProportion, Zenon
<1> HIDE DEF slash
<1>4. a \in Int /\ (r.actual >= 0 => a \in 0 .. r.actual) /\ (r.actual < 0 => a <= 0)
  BY <1>1, <1>3
<1>5. SlashFromUndelegation(r, proportion) = r \/ SlashFromUndelegation(r, proportion) = [r EXCEPT !.actual = a]
  BY DEF SlashFromUndelegation, slash
<1>6. CASE SlashFromUndelegation(r, proportion) = r
  <2>1. r.actual >= 0 => r.actual \in 0 .. r.actual
    BY <1>1
  <2>2. r.actual < 0 => r.actual <= 0
    BY <1>1
  <2> QED
    BY <1>6, <2>1, <2>2, Zenon
<1>7. CASE SlashFromUndelegation(r, proportion) = [r EXCEPT !.actual = a]
  <2> HIDE DEF a
  <2>1. LET q == [r EXCEPT !.actual = a]
        IN  /\ q \in UndelegationRecord /\ q.actual = a
            /\ q.live = r.live /\ q.staker = r.staker /\ q.operator = r.operator
            /\ q.reward = r.reward /\ q.amount = r.amount
    BY <1>4, RecordSlashed, Zenon
  <2> QED
    BY <1>4, <1>7, <2>1
<1> QED
  BY <1>5, <1>6, <1>7, Zenon

\* A slash only reduces live records, and none below zero (SlashAssets).
LEMMA SlashSlashesRecords ==
  ASSUME TypeOK, NEW o \in Operators, NEW proportion \in Proportions, NEW e, NEW h,
         SlashAssets(o, proportion, e, h)
  PROVE  /\ SlashesRecords
         /\ \A i \in Ids : undelegation[i].live =>
              /\ undelegation[i].actual >= 0 => undelegation'[i].actual \in 0 .. undelegation[i].actual
              /\ undelegation[i].actual < 0 => undelegation'[i].actual <= 0
<1>1. undelegation' = [i \in Ids |->
        LET r == undelegation[i]
        IN  IF e < height /\ r.live /\ r.operator = o /\ r.height >= h
            THEN SlashFromUndelegation(r, proportion) ELSE r]
  BY Zenon DEF SlashAssets
<1>2. \A i \in Ids : undelegation[i] \in UndelegationRecord \cup {NoRecord}
  BY Zenon DEF TypeOK
<1> SUFFICES ASSUME NEW i \in Ids
             PROVE  LET r == undelegation[i]
                        q == undelegation'[i]
                    IN  /\ q \in UndelegationRecord \cup {NoRecord}
                        /\ q.live = r.live
                        /\ ~r.live => q = r
                        /\ r.live => /\ q.staker = r.staker /\ q.operator = r.operator
                                     /\ q.reward = r.reward /\ q.amount = r.amount
                                     /\ r.actual >= 0 => q.actual \in 0 .. r.actual
                                     /\ r.actual < 0 => q.actual <= 0
  BY <1>1, Zenon DEF SlashesRecords
<1> DEFINE r == undelegation[i]
<1>3. CASE ~r.live
  BY <1>1, <1>2, <1>3, SMTT(60)
<1>4. CASE r.live
  <2>1. r \in UndelegationRecord
    BY <1>4, LiveRecords, Zenon
  <2>2. undelegation'[i] = r \/ undelegation'[i] = SlashFromUndelegation(r, proportion)
    BY <1>1
  <2>3. r.actual \in Int
    BY <2>1, Zenon DEF UndelegationRecord
  <2>4. CASE undelegation'[i] = r
    <3>1. r.actual >= 0 => r.actual \in 0 .. r.actual
      BY <2>3
    <3>2. r.actual < 0 => r.actual <= 0
      BY <2>3
    <3> QED
      BY <1>4, <2>1, <2>4, <3>1, <3>2, Zenon
  <2>5. CASE undelegation'[i] = SlashFromUndelegation(r, proportion)
    <3> DEFINE q == SlashFromUndelegation(r, proportion)
    <3>1. /\ q \in UndelegationRecord
          /\ q.live = r.live /\ q.staker = r.staker /\ q.operator = r.operator
          /\ q.reward = r.reward /\ q.amount = r.amount
          /\ r.actual >= 0 => q.actual \in 0 .. r.actual
          /\ r.actual < 0 => q.actual <= 0
      BY <2>1, SlashFromUndelegationResult, Zenon
    <3> QED
      BY <1>4, <2>5, <3>1, Zenon
  <2> QED
    BY <2>2, <2>4, <2>5, Zenon
<1> QED
  BY <1>3, <1>4, Zenon

\* A slash preserves the records' invariant.
LEMMA SlashRecord ==
  ASSUME RecordInv, NEW o \in Operators, NEW proportion \in Proportions, NEW e, NEW h,
         SlashAssets(o, proportion, e, h)
  PROVE  RecordInv'
<1> DEFINE slashAmount == TruncateInt(proportion * operatorAsset[o].TotalAmount)
           wipe == SlashedToZero(o, slashAmount)
           stakers == {s \in Stakers : <<s, o>> \in stakerList}
<1>1. TypeOK
  BY DEF RecordInv
<1>2. SlashesRecords
  BY <1>1, SlashSlashesRecords, Zenon
<1>3. slashAmount \in 0 .. operatorAsset[o].TotalAmount
  BY <1>1, SlashAmountType
<1> HIDE DEF slashAmount
<1>4. operatorAsset[o] \in OperatorAssetInfo
  BY <1>1 DEF TypeOK
<1>5. operatorAsset' = [operatorAsset EXCEPT ![o] =
        UpdateOperatorAssetState(operatorAsset[o], -slashAmount, 0,
          IF wipe THEN -operatorAsset[o].TotalShare ELSE 0,
          IF wipe THEN -operatorAsset[o].OperatorShare ELSE 0)]
  <2>1. operatorAsset' = [operatorAsset EXCEPT ![o] =
          UpdateOperatorAssetState(@, -slashAmount, 0, IF wipe THEN -@.TotalShare ELSE 0,
                                   IF wipe THEN -@.OperatorShare ELSE 0)]
    BY Zenon DEF SlashAssets, slashAmount
  <2> HIDE DEF wipe
  <2>2. DOMAIN operatorAsset = Operators
    BY <1>1, Zenon DEF TypeOK
  <2> QED
    BY <2>1, <2>2
<1>6. delegation' = [s \in Stakers |-> [q \in Operators |->
       LET d == delegation[s][q]
       IN  IF wipe /\ q = o /\ s \in stakers
           THEN UpdateDelegationState(d, -d.UndelegatableShare, 0, -d.RewardUndelegatableShare, 0)
           ELSE d]]
  BY Zenon DEF SlashAssets, slashAmount
<1> HIDE DEF wipe, stakers
<1>7. operatorAsset' \in [Operators -> OperatorAssetInfo]
  <2>1. UpdateOperatorAssetState(operatorAsset[o], -slashAmount, 0,
          IF wipe THEN -operatorAsset[o].TotalShare ELSE 0,
          IF wipe THEN -operatorAsset[o].OperatorShare ELSE 0) \in OperatorAssetInfo
    <3>1. CASE wipe
      BY <1>3, <1>4, <3>1 DEF UpdateOperatorAssetState, OperatorAssetInfo
    <3>2. CASE ~wipe
      BY <1>3, <1>4, <3>2 DEF UpdateOperatorAssetState, OperatorAssetInfo
    <3> QED
      BY <3>1, <3>2, Zenon
  <2>2. operatorAsset \in [Operators -> OperatorAssetInfo]
    BY <1>1, Zenon DEF TypeOK
  <2> QED
    BY <1>5, <2>1, <2>2, Zenon
<1>8. delegation' \in [Stakers -> [Operators -> DelegationAmounts]]
  <2>1. \A d \in DelegationAmounts :
          UpdateDelegationState(d, -d.UndelegatableShare, 0, -d.RewardUndelegatableShare, 0)
            \in DelegationAmounts
    BY DEF UpdateDelegationState, DelegationAmounts
  <2>2. \A s \in Stakers, q \in Operators : delegation[s][q] \in DelegationAmounts
    BY <1>1, SMTT(60) DEF TypeOK
  <2> QED
    BY <1>6, <2>1, <2>2, Zenon
<1>9. stakerList' \in SUBSET (Stakers \X Operators)
  BY <1>1, ZenonT(60) DEF SlashAssets, TypeOK
<1>10. UNCHANGED <<height, epoch, phase, todo, stakerAsset, stakingTotalAmount, associated,
                 lastUndelegationID, bank, delegatedPool, rewardIn>>
  BY Zenon DEF SlashAssets
<1>11. TypeOK'
  BY <1>1, <1>2, <1>7, <1>8, <1>9, <1>10, Zenon DEF TypeOK, SlashesRecords
<1> QED
  BY <1>2, <1>10, <1>11, SlashesRecordsInv DEF RecordInv

\* A hold changes nothing of a record but its hold count.
LEMMA HoldChanged ==
  ASSUME NEW r \in UndelegationRecord, NEW h \in Nat
  PROVE  LET q == [r EXCEPT !.hold = h]
         IN  /\ q \in UndelegationRecord
             /\ q.live = r.live /\ q.staker = r.staker /\ q.operator = r.operator
             /\ q.reward = r.reward /\ q.amount = r.amount /\ q.actual = r.actual
BY Zenon DEF UndelegationRecord

\* Holding and releasing a record changes neither its amount nor whether it is
\* live (IncrementUndelegationHoldCount, DecrementUndelegationHoldCount).
LEMMA HoldRecord ==
  ASSUME RecordInv, NEW i \in Ids,
         IncrementUndelegationHoldCount(i) \/ DecrementUndelegationHoldCount(i)
  PROVE  RecordInv' /\ SlashesRecords
         /\ \A j \in Ids : undelegation'[j].actual = undelegation[j].actual
<1>1. TypeOK
  BY DEF RecordInv
<1> DEFINE r == undelegation[i]
<1>2. r \in UndelegationRecord
  <2>1. NoRecord.hold = 0 /\ NoRecord.live = FALSE
    BY DEF NoRecord
  <2>2. r.live \/ r.hold > 0
    BY DEF IncrementUndelegationHoldCount, DecrementUndelegationHoldCount
  <2> QED
    BY <1>1, <2>1, <2>2 DEF TypeOK
<1>3. r.hold \in Nat /\ r.live = TRUE
  BY <1>2, Zenon DEF UndelegationRecord
<1>4. PICK h \in Nat : undelegation' = [undelegation EXCEPT ![i] = [r EXCEPT !.hold = h]]
  <2>1. CASE IncrementUndelegationHoldCount(i)
    <3>1. undelegation' = [undelegation EXCEPT ![i] = [r EXCEPT !.hold = r.hold + 1]]
      BY <1>1, <2>1, Zenon DEF IncrementUndelegationHoldCount, TypeOK
    <3>2. r.hold + 1 \in Nat
      BY <1>3
    <3> QED
      BY <3>1, <3>2, Zenon
  <2>2. CASE DecrementUndelegationHoldCount(i)
    <3>1. undelegation' = [undelegation EXCEPT ![i] = [r EXCEPT !.hold = r.hold - 1]] /\ r.hold > 0
      BY <1>1, <2>2 DEF DecrementUndelegationHoldCount, TypeOK
    <3>2. r.hold - 1 \in Nat
      BY <1>3, <3>1
    <3> QED
      BY <3>1, <3>2, Zenon
  <2> QED
    BY <2>1, <2>2
<1> DEFINE q == [r EXCEPT !.hold = h]
<1>5. /\ q \in UndelegationRecord
      /\ q.live = r.live /\ q.staker = r.staker /\ q.operator = r.operator
      /\ q.reward = r.reward /\ q.amount = r.amount /\ q.actual = r.actual
  BY <1>2, HoldChanged
<1> HIDE DEF q
<1>6. undelegation' = [undelegation EXCEPT ![i] = q]
  BY <1>4, Zenon DEF q
<1>7. \A j \in Ids : undelegation'[j] = IF j = i THEN q ELSE undelegation[j]
  BY <1>1, <1>6, Zenon DEF TypeOK
<1>8. undelegation' \in [Ids -> UndelegationRecord \cup {NoRecord}]
  BY <1>1, <1>6, <1>5 DEF TypeOK
<1>9. SlashesRecords
  BY <1>3, <1>5, <1>7, <1>8, Zenon DEF SlashesRecords
<1>10. UNCHANGED <<height, epoch, phase, todo, stakerAsset, stakingTotalAmount, operatorAsset,
                 delegation, stakerList, associated, lastUndelegationID, bank, delegatedPool,
                 rewardIn>>
  BY DEF IncrementUndelegationHoldCount, DecrementUndelegationHoldCount
<1>11. TypeOK'
  BY <1>1, <1>8, <1>10, Zenon DEF TypeOK
<1>12. \A j \in Ids : undelegation'[j].actual = undelegation[j].actual
  BY <1>5, <1>7, Zenon
<1> QED
  BY <1>9, <1>10, <1>11, <1>12, SlashesRecordsInv, Zenon DEF RecordInv

\* EndBlock picks records of the store.
LEMMA EndBlockRecord ==
  ASSUME RecordInv, EndBlock PROVE RecordInv'
<1>1. todo' \subseteq Ids /\ \A i \in todo' : undelegation[i].live
  BY DEF EndBlock, GetCompletableUndelegations, Completable
<1>2. UNCHANGED <<height, epoch, stakerAsset, stakingTotalAmount, operatorAsset, delegation,
                  stakerList, associated, undelegation, lastUndelegationID, bank, delegatedPool,
                  rewardIn>> /\ phase' = "complete"
  BY DEF EndBlock
<1>3. TypeOK'
  BY <1>1, <1>2, Zenon DEF RecordInv, TypeOK
<1> QED
  BY <1>1, <1>2, <1>3, Zenon DEF RecordInv, TodoIsLive, FreshIds

\* What the completion of a record does, field by field.
LEMMA CompletionResult ==
  ASSUME RecordInv, NEW i \in Ids, CompleteUndelegation(i)
  PROVE  LET r == undelegation[i]
         IN  /\ r \in UndelegationRecord
             /\ r.amount <= operatorAsset[r.operator].PendingUndelegationAmount
             /\ r.amount <= (IF r.reward THEN delegation[r.staker][r.operator].RewardPendingUndelegationAmount
                             ELSE delegation[r.staker][r.operator].PendingUndelegationAmount)
             /\ ~r.reward /\ ~Native =>
                  /\ r.amount <= stakerAsset[r.staker].PendingUndelegationAmount
                  /\ stakerAsset[r.staker].WithdrawableAmount + r.actual >= 0
             /\ ~r.reward /\ Native => r.actual >= 0 /\ r.actual <= delegatedPool
<1>1. i \in todo /\ ~CompletionFails(undelegation[i]) /\ (Native /\ ~undelegation[i].reward => undelegation[i].actual >= 0)
  BY Zenon DEF CompleteUndelegation, Handle
<1>2. undelegation[i] \in UndelegationRecord
  BY <1>1, LiveRecords DEF RecordInv, TodoIsLive
<1> DEFINE r == undelegation[i]
           d == delegation[r.staker][r.operator]
           a == stakerAsset[r.staker]
<1>3. /\ r.staker \in Stakers /\ r.operator \in Operators /\ r.amount \in Nat /\ r.actual \in Int
      /\ r.reward \in BOOLEAN
  BY <1>2, Zenon DEF UndelegationRecord
<1>4. /\ d \in DelegationAmounts /\ a \in StakerAssetInfo
      /\ operatorAsset[r.operator] \in OperatorAssetInfo /\ delegatedPool \in Nat
  BY <1>3 DEF RecordInv, TypeOK
<1>5. /\ ~(r.amount > (IF r.reward THEN d.RewardPendingUndelegationAmount
                                   ELSE d.PendingUndelegationAmount))
      /\ ~(~r.reward /\ Native /\ r.actual > delegatedPool)
      /\ ~(~r.reward /\ ~Native /\ (r.amount > a.PendingUndelegationAmount
                                    \/ a.WithdrawableAmount + r.actual < 0))
      /\ ~(r.amount > operatorAsset[r.operator].PendingUndelegationAmount)
  BY <1>1, Zenon DEF CompletionFails
<1> HIDE DEF d, a, r
<1>6. /\ d.RewardPendingUndelegationAmount \in Nat /\ d.PendingUndelegationAmount \in Nat
      /\ a.PendingUndelegationAmount \in Nat /\ a.WithdrawableAmount \in Nat
      /\ operatorAsset[r.operator].PendingUndelegationAmount \in Nat /\ delegatedPool \in Nat
  BY <1>4, Zenon DEF DelegationAmounts, StakerAssetInfo, OperatorAssetInfo
<1>7. /\ r.amount <= operatorAsset[r.operator].PendingUndelegationAmount
      /\ r.amount <= (IF r.reward THEN d.RewardPendingUndelegationAmount
                                  ELSE d.PendingUndelegationAmount)
      /\ ~r.reward /\ ~Native => /\ r.amount <= a.PendingUndelegationAmount
                                /\ a.WithdrawableAmount + r.actual >= 0
      /\ ~r.reward /\ Native => r.actual <= delegatedPool
  BY <1>3, <1>5, <1>6, SMTT(60)
<1> QED
  BY <1>1, <1>2, <1>7, Zenon DEF r, d, a

\* Completion of a record preserves the invariant of the others (EndBlock).
LEMMA CompleteRecord ==
  ASSUME RecordInv, NEW i \in Ids, CompleteUndelegation(i) PROVE RecordInv'
<1> DEFINE r == undelegation[i]
           s == r.staker
           o == r.operator
<1>1. r \in UndelegationRecord
  BY CompletionResult, Zenon
<1>2. s \in Stakers /\ o \in Operators /\ r.amount \in Nat /\ r.actual \in Int /\ r.reward \in BOOLEAN
  BY <1>1, ZenonT(60) DEF UndelegationRecord
<1>3. /\ delegation[s][o] \in DelegationAmounts /\ stakerAsset[s] \in StakerAssetInfo
      /\ operatorAsset[o] \in OperatorAssetInfo /\ delegatedPool \in Nat /\ bank[s] \in Nat
      /\ rewardIn \in Int
  BY <1>2, Zenon DEF RecordInv, TypeOK
<1>4. /\ stakerAsset \in [Stakers -> StakerAssetInfo] /\ bank \in [Stakers -> Nat]
       /\ operatorAsset \in [Operators -> OperatorAssetInfo]
       /\ delegatedPool \in Nat /\ rewardIn \in Int
  BY Zenon DEF RecordInv, TypeOK
<1>5. /\ delegation' = [delegation EXCEPT ![s][o] =
           UpdateDelegationState(delegation[s][o], 0, IF r.reward THEN 0 ELSE -r.amount,
                                0, IF r.reward THEN -r.amount ELSE 0)]
      /\ operatorAsset' = [operatorAsset EXCEPT ![o] =
           UpdateOperatorAssetState(operatorAsset[o], 0, -r.amount, 0, 0)]
      /\ undelegation' = [undelegation EXCEPT ![i] = NoRecord]
  BY <1>2, Zenon DEF CompleteUndelegation, RecordInv, TypeOK
<1>6. delegation' \in [Stakers -> [Operators -> DelegationAmounts]]
  <2>1. UpdateDelegationState(delegation[s][o], 0, IF r.reward THEN 0 ELSE -r.amount,
                                0, IF r.reward THEN -r.amount ELSE 0) \in DelegationAmounts
    <3>1. r.amount <= (IF r.reward THEN delegation[s][o].RewardPendingUndelegationAmount
                                   ELSE delegation[s][o].PendingUndelegationAmount)
      BY CompletionResult, ZenonT(60)
    <3>2. ASSUME NEW d \in DelegationAmounts, NEW x \in Nat
          PROVE  /\ x <= d.PendingUndelegationAmount => UpdateDelegationState(d, 0, -x, 0, 0) \in DelegationAmounts
                 /\ x <= d.RewardPendingUndelegationAmount =>
                      UpdateDelegationState(d, 0, 0, 0, -x) \in DelegationAmounts
      BY DEF UpdateDelegationState, DelegationAmounts
    <3>3. CASE r.reward
      BY <1>2, <1>3, <3>1, <3>2, <3>3, Zenon
    <3>4. CASE ~r.reward
      BY <1>2, <1>3, <3>1, <3>2, <3>4, Zenon
    <3> QED
      BY <3>3, <3>4, Zenon
  <2> QED
    BY <1>2, <1>5, <2>1, ZenonT(60) DEF RecordInv, TypeOK
<1>7. operatorAsset' \in [Operators -> OperatorAssetInfo]
  <2>1. UpdateOperatorAssetState(operatorAsset[o], 0, -r.amount, 0, 0) \in OperatorAssetInfo
    <3>1. r.amount <= operatorAsset[o].PendingUndelegationAmount
      BY CompletionResult, Zenon
    <3> HIDE DEF r, s, o
    <3> QED
      BY <1>2, <1>3, <3>1 DEF UpdateOperatorAssetState, OperatorAssetInfo
  <2> HIDE DEF r, s, o
  <2> QED
    BY <1>2, <1>5, <1>4, <2>1, Zenon
<1>8. /\ stakerAsset' \in [Stakers -> StakerAssetInfo] /\ bank' \in [Stakers -> Nat]
      /\ delegatedPool' \in Nat /\ rewardIn' \in Int
  <2>1. CASE r.reward
    <3>1. rewardIn' = rewardIn - r.actual /\ UNCHANGED <<stakerAsset, bank, delegatedPool>>
      BY <2>1, Zenon DEF CompleteUndelegation, CompletedAmount
    <3> HIDE DEF r, s, o
    <3> QED
      BY <3>1, <1>2, <1>4
  <2>2. CASE ~r.reward /\ Native
    <3>1. /\ bank' = [bank EXCEPT ![s] = bank[s] + r.actual]
          /\ delegatedPool' = delegatedPool - r.actual /\ UNCHANGED <<stakerAsset, rewardIn>>
      BY <2>2, <1>2, Zenon DEF CompleteUndelegation, CompletedAmount, RecordInv, TypeOK
    <3>2. bank[s] + r.actual \in Nat /\ delegatedPool - r.actual \in Nat
      <4>1. r.actual >= 0 /\ r.actual <= delegatedPool
        BY <2>2, CompletionResult, Zenon
      <4> HIDE DEF r, s, o
      <4> QED
        BY <1>2, <1>3, <4>1
    <3> HIDE DEF r, s, o
    <3> QED
      BY <3>1, <3>2, <1>2, <1>4
  <2>3. CASE ~r.reward /\ ~Native
    <3>1. /\ stakerAsset' = [stakerAsset EXCEPT ![s] =
               UpdateStakerAssetState(stakerAsset[s], 0, r.actual, -r.amount)]
          /\ UNCHANGED <<bank, delegatedPool, rewardIn>>
      BY <2>3, <1>2, ZenonT(60) DEF CompleteUndelegation, CompletedAmount, RecordInv, TypeOK
    <3>2. UpdateStakerAssetState(stakerAsset[s], 0, r.actual, -r.amount) \in StakerAssetInfo
      <4>1. /\ r.amount <= stakerAsset[s].PendingUndelegationAmount
            /\ stakerAsset[s].WithdrawableAmount + r.actual >= 0
        BY <2>3, CompletionResult, Zenon
      <4> HIDE DEF r, s, o
      <4> QED
        BY <1>2, <1>3, <4>1 DEF UpdateStakerAssetState, StakerAssetInfo
    <3> HIDE DEF r, s, o
    <3> QED
      BY <3>1, <3>2, <1>2, <1>4, Zenon
  <2> QED
    BY <2>1, <2>2, <2>3, Zenon
<1>9. /\ undelegation' \in [Ids -> UndelegationRecord \cup {NoRecord}]
      /\ \A j \in Ids : undelegation'[j] = IF j = i THEN NoRecord ELSE undelegation[j]
  <2>1. undelegation \in [Ids -> UndelegationRecord \cup {NoRecord}]
    BY DEF RecordInv, TypeOK
  <2>2. undelegation' = [undelegation EXCEPT ![i] = NoRecord]
    BY <1>5, Zenon
  <2> QED
    BY <2>1, <2>2
<1>10. todo' = todo \ {i} /\ UNCHANGED <<height, epoch, phase, stakingTotalAmount, stakerList,
                                       associated, lastUndelegationID>>
  BY Zenon DEF CompleteUndelegation, Handle
<1>11. TypeOK'
  BY <1>6, <1>7, <1>8, <1>9, <1>10, Zenon DEF RecordInv, TypeOK
<1> QED
  BY <1>9, <1>10, <1>11, Zenon DEF RecordInv, TodoIsLive, FreshIds, TypeOK

\* A record whose completion fails is left as it is (EndBlock).
LEMMA SkipRecord ==
  ASSUME RecordInv, NEW i \in Ids, SkipUndelegation(i) PROVE RecordInv'
<1>1. /\ todo' = todo \ {i}
      /\ UNCHANGED <<height, epoch, phase, stakingTotalAmount, stakerList, associated,
                     lastUndelegationID, stakerAsset, operatorAsset, delegation, undelegation,
                     bank, delegatedPool, rewardIn>>
  BY DEF SkipUndelegation, Handle
<1>2. TypeOK'
  BY <1>1 DEF RecordInv, TypeOK
<1> QED
  BY <1>1, <1>2 DEF RecordInv, TodoIsLive, FreshIds

\* A new block preserves the records' invariant.
LEMMA BeginBlockRecord ==
  ASSUME RecordInv, NEW epochEnds \in BOOLEAN, BeginBlock(epochEnds) PROVE RecordInv'
<1>1. height' \in Nat /\ epoch' \in Nat \ {0} /\ phase' = "deliver"
  BY DelegationAssumption DEF BeginBlock, MinOf, RecordInv, TypeOK
<1>2. UNCHANGED <<todo, stakerAsset, stakingTotalAmount, operatorAsset, delegation, stakerList,
                  associated, undelegation, lastUndelegationID, bank, delegatedPool, rewardIn>>
  BY DEF BeginBlock
<1>3. TypeOK'
  BY <1>1, <1>2, Zenon DEF RecordInv, TypeOK
<1> QED
  BY <1>2, <1>3, Zenon DEF RecordInv, TodoIsLive, FreshIds

\* Every step of the ledger keeps the types, and EndBlock's records live.
LEMMA RecordNext ==
  ASSUME RecordInv, [Next]_vars PROVE RecordInv'
<1> USE DelegationAssumption
<1>1. CASE \E s \in Stakers, x \in Amounts : Deposit(s, x) \/ Withdraw(s, x)
  BY <1>1, DepositRecord, WithdrawRecord, Zenon
<1>2. CASE \E s \in Stakers, x \in Amounts : IncreaseNSTBalance(s, x) \/ DecreaseNSTBalance(s, x)
  BY <1>2, DepositRecord, DecreaseRecord DEF IncreaseNSTBalance
<1>3. CASE \E s \in Stakers, o \in Operators, x \in Amounts, reward \in {FALSE, RewardDelegation} :
             DelegateTo(s, o, x, reward)
  <2>1. PICK s \in Stakers, o \in Operators, x \in Amounts, reward \in {FALSE, RewardDelegation} :
          DelegateTo(s, o, x, reward)
    BY <1>3, Zenon
  <2>2. x \in Nat /\ reward \in BOOLEAN
    BY Zenon
  <2> QED
    BY <2>1, <2>2, DelegateToRecord
<1>4. CASE \E s \in Stakers, o \in Operators, x \in Amounts, reward \in {FALSE, RewardDelegation},
              instant \in BOOLEAN : UndelegateFrom(s, o, x, reward, instant)
  <2>1. PICK s \in Stakers, o \in Operators, x \in Amounts, reward \in {FALSE, RewardDelegation},
             instant \in BOOLEAN : UndelegateFrom(s, o, x, reward, instant)
    BY <1>4, Zenon
  <2>2. x \in Nat /\ reward \in BOOLEAN
    BY Zenon
  <2> QED
    BY <2>1, <2>2, UndelegateFromRecord
<1>5. CASE \E s \in Stakers, o \in Operators : AssociateOperatorWithStaker(s, o)
  BY <1>5, AssociateRecord
<1>6. CASE \E s \in Stakers : DissociateOperatorFromStaker(s)
  BY <1>6, DissociateRecord, SMTT(60)
<1>7. CASE \E o \in Operators, proportion \in Proportions, e \in 1 .. height, h \in 1 .. height :
             SlashAssets(o, proportion, e, h)
  BY <1>7, SlashRecord, Zenon
<1>8. CASE \E i \in Ids : IncrementUndelegationHoldCount(i) \/ DecrementUndelegationHoldCount(i)
  BY <1>8, HoldRecord, Zenon
<1>9. CASE EndBlock
  BY <1>9, EndBlockRecord, Zenon
<1>10. CASE \E i \in Ids : CompleteUndelegation(i) \/ SkipUndelegation(i)
  BY <1>10, CompleteRecord, SkipRecord, Zenon
<1>11. CASE \E epochEnds \in BOOLEAN : BeginBlock(epochEnds)
  BY <1>11, BeginBlockRecord, Zenon
<1>12. CASE UNCHANGED vars
  BY <1>12, Zenon DEF vars, RecordInv, TypeOK, TodoIsLive, FreshIds
<1> QED
  BY <1>1, <1>2, <1>3, <1>4, <1>5, <1>6, <1>7, <1>8, <1>9, <1>10, <1>11, <1>12, Zenon
  DEF Next, Transaction, Release, Block

\* No balance, pool or share ever becomes negative, for every number of
\* stakers and operators, every even precision and every parameter.  The
\* ActualCompletedAmount of a record is only an integer here.
THEOREM TypeCorrect == Spec => []TypeOK
<1>1. Init => RecordInv
  BY RecordInit
<1>2. RecordInv /\ [Next]_vars => RecordInv'
  BY RecordNext
<1>3. RecordInv => TypeOK
  BY DEF RecordInv
<1> QED
  BY <1>1, <1>2, <1>3, PTL DEF Spec
=============================================================================
