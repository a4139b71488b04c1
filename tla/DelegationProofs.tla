-------------------------- MODULE DelegationProofs --------------------------
(***************************************************************************)
(* The ledger's invariants and its refinement of AssetCustody, for every   *)
(* set of stakers and operators, every amount, every precision and every   *)
(* parameter.  Each operation of Delegation is shown to be one of the      *)
(* kinds of steps of LedgerSteps, field by field; LedgerProofs has the     *)
(* rest of the argument.                                                   *)
(***************************************************************************)
EXTENDS RecordProofs, LedgerProofs

-----------------------------------------------------------------------------
(***************************************************************************)
(* What the operations do, field by field.                                 *)
(***************************************************************************)
\* The completion of a record (EndBlock of x/delegation).
LEMMA CompleteEffect ==
  ASSUME RecordInv, NEW i \in Ids, CompleteUndelegation(i), NEW r, r = undelegation[i]
  PROVE  Completes(i, r)
<1> DEFINE s == r.staker
           o == r.operator
           e == UpdateDelegationState(delegation[s][o], 0, IF r.reward THEN 0 ELSE -r.amount,
                                      0, IF r.reward THEN -r.amount ELSE 0)
           q == UpdateOperatorAssetState(operatorAsset[o], 0, -r.amount, 0, 0)
<1>1. TypeOK /\ i \in todo /\ phase = "complete" /\ UNCHANGED <<stakingTotalAmount, associated>>
  BY Zenon DEF RecordInv, CompleteUndelegation, Handle
<1>2. r \in UndelegationRecord
  BY CompletionResult, ZenonT(60)
<1>3. s \in Stakers /\ o \in Operators /\ r.amount \in Nat /\ r.actual \in Int /\ r.reward \in BOOLEAN
  BY <1>2, ZenonT(60) DEF UndelegationRecord
<1>4. /\ delegation' = [delegation EXCEPT ![s][o] = e]
      /\ operatorAsset' = [operatorAsset EXCEPT ![o] = q]
      /\ undelegation' = [undelegation EXCEPT ![i] = NoRecord]
  BY <1>1, <1>3, Zenon DEF CompleteUndelegation, TypeOK
<1>5. /\ r.reward => rewardIn' = rewardIn - r.actual /\ UNCHANGED <<stakerAsset, bank, delegatedPool>>
      /\ ~r.reward /\ Native => /\ bank' = [bank EXCEPT ![s] = bank[s] + r.actual]
                                /\ delegatedPool' = delegatedPool - r.actual
                                /\ UNCHANGED <<stakerAsset, rewardIn>>
      /\ ~r.reward /\ ~Native =>
           /\ stakerAsset' = [stakerAsset EXCEPT ![s] =
                UpdateStakerAssetState(stakerAsset[s], 0, r.actual, -r.amount)]
           /\ UNCHANGED <<bank, delegatedPool, rewardIn>>
  <2>1. CASE r.reward
    BY <2>1, Zenon DEF CompleteUndelegation, CompletedAmount
  <2>2. CASE ~r.reward /\ Native
    BY <1>1, <1>3, <2>2, ZenonT(60) DEF CompleteUndelegation, CompletedAmount, TypeOK
  <2>3. CASE ~r.reward /\ ~Native
    BY <1>1, <1>3, <2>3, ZenonT(60) DEF CompleteUndelegation, CompletedAmount, TypeOK
  <2> QED
    BY <1>3, <2>1, <2>2, <2>3, Zenon
<1>13. s = r.staker /\ o = r.operator
  BY DEF s, o
<1> HIDE DEF s, o
<1>6. operatorAsset[o] \in OperatorAssetInfo /\ delegation[s][o] \in DelegationAmounts
  BY <1>1, <1>3, Zenon DEF TypeOK
<1>7. /\ q.TotalAmount = operatorAsset[o].TotalAmount /\ q.TotalShare = operatorAsset[o].TotalShare
      /\ q.OperatorShare = operatorAsset[o].OperatorShare
      /\ q.PendingUndelegationAmount = operatorAsset[o].PendingUndelegationAmount - r.amount
  BY <1>3, <1>6, SMTT(30) DEF UpdateOperatorAssetState, OperatorAssetInfo
<1>8. /\ e.UndelegatableShare = delegation[s][o].UndelegatableShare
      /\ e.RewardUndelegatableShare = delegation[s][o].RewardUndelegatableShare
      /\ e.PendingUndelegationAmount =
           delegation[s][o].PendingUndelegationAmount - (IF r.reward THEN 0 ELSE r.amount)
      /\ e.RewardPendingUndelegationAmount =
           delegation[s][o].RewardPendingUndelegationAmount - (IF r.reward THEN r.amount ELSE 0)
  BY <1>3, <1>6 DEF UpdateDelegationState, DelegationAmounts
<1> HIDE DEF e, q
<1>9. /\ operatorAsset'[o] = q /\ delegation'[s][o] = e
      /\ \A p \in Operators : p # o => operatorAsset'[p] = operatorAsset[p]
      /\ \A t \in Stakers, p \in Operators : t # s \/ p # o => delegation'[t][p] = delegation[t][p]
      /\ undelegation'[i] = NoRecord /\ \A j \in Ids : j # i => undelegation'[j] = undelegation[j]
  BY <1>1, <1>3, <1>4, ZenonT(60) DEF TypeOK
<1>10. \A p \in Operators :
         /\ operatorAsset'[p].TotalAmount = operatorAsset[p].TotalAmount
         /\ operatorAsset'[p].TotalShare = operatorAsset[p].TotalShare
         /\ operatorAsset'[p].OperatorShare = operatorAsset[p].OperatorShare
         /\ operatorAsset'[p].PendingUndelegationAmount = operatorAsset[p].PendingUndelegationAmount
              - (IF p = r.operator THEN r.amount ELSE 0)
  <2>1. \A p \in Operators :
          /\ operatorAsset[p].TotalAmount \in Nat /\ operatorAsset[p].TotalShare \in Nat
          /\ operatorAsset[p].OperatorShare \in Nat /\ operatorAsset[p].PendingUndelegationAmount \in Nat
    BY <1>1, FieldTypes, Zenon DEF FieldsTyped
  <2> QED
    BY <1>7, <1>13, <1>9, <2>1, SMTT(30)
<1>11. \A t \in Stakers, p \in Operators :
         /\ delegation'[t][p].RewardUndelegatableShare = delegation[t][p].RewardUndelegatableShare
         /\ DelegatableShare(t, p)' = DelegatableShare(t, p)
  BY <1>8, <1>9 DEF DelegatableShare
<1>12. ASSUME NEW t \in Stakers, NEW p \in Operators, NEW b \in BOOLEAN
       PROVE  PendingOf(t, p, b)' = PendingOf(t, p, b)
                - (IF t = r.staker /\ p = r.operator /\ b = r.reward THEN r.amount ELSE 0)
  <2>1. PendingOf(t, p, b) \in Nat
    BY <1>1, FieldTypes, ZenonT(60) DEF FieldsTyped
  <2>2. CASE t = r.staker /\ p = r.operator
    <3>1. delegation[s][o].PendingUndelegationAmount \in Nat /\ delegation[s][o].RewardPendingUndelegationAmount \in Nat
      BY <1>1, <1>3, FieldTypes, Zenon DEF FieldsTyped
    <3> QED
      BY <1>3, <1>8, <1>9, <1>13, <2>2, <3>1, Zenon DEF PendingOf
  <2>3. CASE ~(t = r.staker /\ p = r.operator)
    BY <1>9, <1>13, <2>1, <2>3, SMTT(30) DEF PendingOf
  <2> QED
    BY <2>2, <2>3
<1>14. FieldsTyped
  BY <1>1, FieldTypes
<1>15. ASSUME NEW t \in Stakers
       PROVE  /\ stakerAsset'[t].WithdrawableAmount = stakerAsset[t].WithdrawableAmount
                   + (IF t = r.staker /\ ~r.reward /\ ~Native THEN r.actual ELSE 0)
              /\ ~Native => stakerAsset'[t].PendingUndelegationAmount =
                   stakerAsset[t].PendingUndelegationAmount
                   - (IF t = r.staker /\ ~r.reward THEN r.amount ELSE 0)
              /\ bank'[t] = bank[t] + (IF t = r.staker /\ ~r.reward /\ Native THEN r.actual ELSE 0)
  <2>1. /\ stakerAsset[t].WithdrawableAmount \in Nat /\ stakerAsset[t].PendingUndelegationAmount \in Nat
        /\ bank[t] \in Nat
    BY <1>14, Zenon DEF FieldsTyped
  <2>2. stakerAsset \in [Stakers -> StakerAssetInfo] /\ bank \in [Stakers -> Nat]
    BY <1>1, Zenon DEF TypeOK
  <2>3. CASE r.reward
    BY <1>5, <2>1, <2>3
  <2>4. CASE ~r.reward /\ Native
    <3>1. bank'[t] = IF t = s THEN bank[t] + r.actual ELSE bank[t]
      BY <1>3, <1>5, <2>2, <2>4, Zenon
    <3> QED
      BY <1>3, <1>5, <1>13, <2>1, <2>4, <3>1
  <2>5. CASE ~r.reward /\ ~Native
    <3>1. stakerAsset'[t] = IF t = s THEN UpdateStakerAssetState(stakerAsset[t], 0, r.actual, -r.amount)
                            ELSE stakerAsset[t]
      BY <1>3, <1>5, <2>2, <2>5, ZenonT(60)
    <3>2. CASE t = s
      BY <1>3, <1>5, <1>13, <2>1, <2>5, <3>1, <3>2 DEF UpdateStakerAssetState
    <3>3. CASE t # s
      BY <1>3, <1>5, <1>13, <2>1, <2>5, <3>1, <3>3
    <3> QED
      BY <3>2, <3>3, Zenon
  <2> QED
    BY <1>3, <2>3, <2>4, <2>5, Zenon
<1>16. /\ delegatedPool' = delegatedPool - (IF ~r.reward /\ Native THEN r.actual ELSE 0)
       /\ rewardIn' = rewardIn - (IF r.reward THEN r.actual ELSE 0)
  <2>1. delegatedPool \in Int /\ rewardIn \in Int
    BY <1>1 DEF TypeOK
  <2> QED
    BY <1>3, <1>5, <2>1
<1> QED
  BY <1>1, <1>2, <1>9, <1>10, <1>11, <1>12, <1>15, <1>16, ZenonT(60) DEF Completes

\* A delegation (delegateTo).  A share is worth no more than a token when there
\* are as many shares as tokens, so the pool stays backed.
LEMMA DelegateEffect ==
  ASSUME RecordInv, NEW s \in Stakers, NEW o \in Operators, NEW x \in Nat,
         NEW reward \in BOOLEAN, reward => RewardDelegation, DelegateTo(s, o, x, reward),
         NEW share, share = CalculateShare(o, x)
  PROVE  share \in Nat /\ Delegates(s, o, x, reward, share) /\ ListKept /\ BackingKept
<1> DEFINE e == UpdateDelegationState(delegation[s][o], IF reward THEN 0 ELSE share, 0,
                                      IF reward THEN share ELSE 0, 0)
           q == UpdateOperatorAssetState(operatorAsset[o], x, 0, share,
                                         IF associated'[s] = o THEN share ELSE 0)
<1>1. TypeOK
  BY DEF RecordInv
<1>2. share \in Nat
  BY <1>1, CalculateShareType
<1>3. /\ operatorAsset' = [operatorAsset EXCEPT ![o] = q]
      /\ delegation' = [delegation EXCEPT ![s][o] = e]
      /\ associated' = AssociatedAfter(s, o, reward) /\ x > 0
      /\ stakerList' = stakerList \cup {<<s, o>>}
      /\ UNCHANGED <<undelegation, stakingTotalAmount>>
  BY Zenon DEF DelegateTo
<1>4. operatorAsset[o] \in OperatorAssetInfo /\ delegation[s][o] \in DelegationAmounts
  BY <1>1, Zenon DEF TypeOK
<1>5. /\ q.TotalAmount = operatorAsset[o].TotalAmount + x
      /\ q.TotalShare = operatorAsset[o].TotalShare + share
      /\ q.PendingUndelegationAmount = operatorAsset[o].PendingUndelegationAmount
      /\ q.OperatorShare = operatorAsset[o].OperatorShare + (IF associated'[s] = o THEN share ELSE 0)
  BY <1>4, SMTT(30) DEF UpdateOperatorAssetState, OperatorAssetInfo
<1>6. /\ e.UndelegatableShare = delegation[s][o].UndelegatableShare + (IF reward THEN 0 ELSE share)
      /\ e.RewardUndelegatableShare = delegation[s][o].RewardUndelegatableShare + (IF reward THEN share ELSE 0)
      /\ e.PendingUndelegationAmount = delegation[s][o].PendingUndelegationAmount
      /\ e.RewardPendingUndelegationAmount = delegation[s][o].RewardPendingUndelegationAmount
  BY <1>4 DEF UpdateDelegationState, DelegationAmounts
<1> HIDE DEF e, q
<1>7. /\ operatorAsset'[o] = q /\ delegation'[s][o] = e
      /\ \A p \in Operators : p # o => operatorAsset'[p] = operatorAsset[p]
      /\ \A t \in Stakers, p \in Operators : t # s \/ p # o => delegation'[t][p] = delegation[t][p]
  BY <1>1, <1>3, Zenon DEF TypeOK
<1>8. \A p \in Operators :
        /\ operatorAsset'[p].TotalAmount = operatorAsset[p].TotalAmount + (IF p = o THEN x ELSE 0)
        /\ operatorAsset'[p].TotalShare = operatorAsset[p].TotalShare + (IF p = o THEN share ELSE 0)
        /\ operatorAsset'[p].OperatorShare = operatorAsset[p].OperatorShare
             + (IF p = o /\ associated'[s] = o THEN share ELSE 0)
        /\ operatorAsset'[p].PendingUndelegationAmount = operatorAsset[p].PendingUndelegationAmount
  <2>1. \A p \in Operators :
          /\ operatorAsset[p].TotalAmount \in Nat /\ operatorAsset[p].TotalShare \in Nat
          /\ operatorAsset[p].OperatorShare \in Nat /\ operatorAsset[p].PendingUndelegationAmount \in Nat
    BY <1>1, FieldTypes, Zenon DEF FieldsTyped
  <2> QED
    BY <1>5, <1>7, <2>1, SMTT(30)
<1>9. \A t \in Stakers, p \in Operators :
        /\ delegation'[t][p].RewardUndelegatableShare = delegation[t][p].RewardUndelegatableShare
             + (IF t = s /\ p = o /\ reward THEN share ELSE 0)
        /\ DelegatableShare(t, p)' = DelegatableShare(t, p)
             + (IF t = s /\ p = o THEN share ELSE 0)
        /\ delegation'[t][p].PendingUndelegationAmount = delegation[t][p].PendingUndelegationAmount
        /\ delegation'[t][p].RewardPendingUndelegationAmount = delegation[t][p].RewardPendingUndelegationAmount
  <2> TAKE t \in Stakers, p \in Operators
  <2>1. delegation[t][p].UndelegatableShare \in Nat /\ delegation[t][p].RewardUndelegatableShare \in Nat
    BY <1>1, FieldTypes, Zenon DEF FieldsTyped
  <2>2. CASE t = s /\ p = o
    BY <1>2, <1>6, <1>7, <2>1, <2>2, SMTT(30) DEF DelegatableShare
  <2>3. CASE ~(t = s /\ p = o)
    BY <1>7, <2>1, <2>3 DEF DelegatableShare
  <2> QED
    BY <2>2, <2>3
<1>10. FieldsTyped /\ stakerAsset \in [Stakers -> StakerAssetInfo] /\ bank \in [Stakers -> Nat]
       /\ delegatedPool \in Int /\ rewardIn \in Int /\ DOMAIN associated = Stakers
  BY <1>1, FieldTypes DEF TypeOK
<1>11. ASSUME NEW t \in Stakers
       PROVE  associated'[t] = IF t = s /\ Native /\ ~reward /\ s = o THEN o ELSE associated[t]
  BY <1>3, <1>10, Zenon DEF AssociatedAfter
<1>12. ASSUME NEW t \in Stakers
       PROVE  /\ stakerAsset'[t].WithdrawableAmount = stakerAsset[t].WithdrawableAmount
                   - (IF t = s /\ ~reward /\ ~Native THEN x ELSE 0)
              /\ stakerAsset'[t].PendingUndelegationAmount = stakerAsset[t].PendingUndelegationAmount
              /\ bank'[t] = bank[t] - (IF t = s /\ ~reward /\ Native THEN x ELSE 0)
              /\ delegatedPool' = delegatedPool + (IF ~reward /\ Native THEN x ELSE 0)
              /\ rewardIn' = rewardIn + (IF reward THEN x ELSE 0)
  <2>1. /\ stakerAsset[t].WithdrawableAmount \in Nat /\ stakerAsset[t].PendingUndelegationAmount \in Nat
        /\ bank[t] \in Nat
    BY <1>10, Zenon DEF FieldsTyped
  <2>2. CASE reward
    <3>1. rewardIn' = rewardIn + x /\ UNCHANGED <<stakerAsset, bank, delegatedPool>>
      BY <2>2, Zenon DEF DelegateTo
    <3> QED
      BY <1>10, <2>1, <2>2, <3>1
  <2>3. CASE ~reward /\ Native
    <3>1. /\ bank'[t] = IF t = s THEN bank[t] - x ELSE bank[t]
          /\ delegatedPool' = delegatedPool + x /\ UNCHANGED <<stakerAsset, rewardIn>>
      BY <1>10, <2>3, Zenon DEF DelegateTo
    <3> QED
      BY <1>10, <2>1, <2>3, <3>1
  <2>4. CASE ~reward /\ ~Native
    <3>1. /\ stakerAsset'[t] = IF t = s THEN UpdateStakerAssetState(stakerAsset[t], 0, -x, 0)
                               ELSE stakerAsset[t]
          /\ UNCHANGED <<bank, delegatedPool, rewardIn>>
      BY <1>10, <2>4, ZenonT(60) DEF DelegateTo
    <3>2. CASE t = s
      BY <1>10, <2>1, <2>4, <3>1, <3>2 DEF UpdateStakerAssetState
    <3>3. CASE t # s
      BY <1>10, <2>1, <2>4, <3>1, <3>3
    <3> QED
      BY <3>2, <3>3
  <2> QED
    BY <2>2, <2>3, <2>4, Zenon
<1>13. PendingsKept
  BY <1>8, <1>9, <1>12, Zenon DEF PendingsKept
<1>14. <<s, o>> \in stakerList' /\ ListKept
  BY <1>3, Zenon DEF ListKept
<1>15. ASSUME PoolsBacked PROVE x <= share
  <2> DEFINE n == operatorAsset[o].TotalShare
             m == operatorAsset[o].TotalAmount
  <2>1. n \in Nat /\ m \in Nat /\ m <= n
    BY <1>10, <1>15, Zenon DEF FieldsTyped, PoolsBacked
  <2>2. ~(n # 0 /\ SharesFromTokensFails(n, m))
    BY Zenon DEF DelegateTo
  <2>3. share = IF n = 0 THEN Dec(x) ELSE SharesFromTokens(n, x, m)
    BY Zenon DEF CalculateShare
  <2> HIDE DEF n, m
  <2>4. CASE n = 0
    <3>1. Precision \in Nat \ {0} /\ 1 <= Precision
      BY PrecisionAssumption
    <3>2. x * 1 <= x * Precision
      BY <3>1, TimesMonotone
    <3> QED
      BY <2>3, <2>4, <3>2 DEF Dec
  <2>5. CASE n # 0
    <3>1. m # 0
      BY <2>2, <2>5, Zenon DEF SharesFromTokensFails
    <3>2. m * x <= n * x /\ n * x \in Nat
      BY <2>1, TimesMonotone
    <3>3. x <= (n * x) \div m
      BY <2>1, <3>1, <3>2, DivAtLeast, Zenon
    <3> QED
      BY <2>3, <2>5, <3>1, <3>3 DEF SharesFromTokens
  <2> QED
    BY <2>4, <2>5
<1>16. BackingKept
  <2> SUFFICES ASSUME PoolsBacked, NEW p \in Operators
               PROVE  operatorAsset'[p].TotalAmount <= operatorAsset'[p].TotalShare
    BY Zenon DEF BackingKept, PoolsBacked
  <2>1. /\ operatorAsset[p].TotalAmount \in Nat /\ operatorAsset[p].TotalShare \in Nat
        /\ operatorAsset[p].TotalAmount <= operatorAsset[p].TotalShare
    BY <1>10, Zenon DEF FieldsTyped, PoolsBacked
  <2> QED
    BY <1>2, <1>8, <1>15, <2>1
<1> QED
  BY <1>2, <1>3, <1>8, <1>9, <1>11, <1>12, <1>13, <1>14, <1>16, ZenonT(60) DEF Delegates

\* The penalty of an instant undelegation below 100 per cent leaves a token.
LEMMA PenaltyLeavesOne ==
  ASSUME InstantUndelegationPenalty < 100, NEW x \in Nat \ {0}
  PROVE  InstantPenaltyAmount(x) \in Nat /\ InstantPenaltyAmount(x) <= x - 1
<1> DEFINE P == Precision
           n == InstantUndelegationPenalty * P
           d == n \div 100
<1>1. P \in Nat \ {0} /\ InstantUndelegationPenalty \in Nat /\ InstantUndelegationPenalty <= 99
  BY DelegationAssumption, PrecisionAssumption
<1>2. n \in Nat /\ n <= 99 * P
  BY <1>1, TimesMonotone
<1> HIDE DEF n
<1>3. d \in Nat /\ 100 * d <= n
  BY <1>2, DivBounds
<1> HIDE DEF d, P
<1>4. d + 1 <= P
  BY <1>1, <1>2, <1>3
<1>5. (d + 1) * x <= P * x /\ (d + 1) * x = d * x + x /\ d * x \in Nat /\ P * x \in Nat
  BY <1>1, <1>3, <1>4, TimesMonotone
<1>6. x - 1 \in Nat /\ (x - 1) + 1 = x
  OBVIOUS
<1>7. d * x < P * ((x - 1) + 1)
  BY <1>5, <1>6
<1>8. (d * x) \div P <= x - 1
  BY <1>1, <1>5, <1>6, <1>7, DivAtMost, Zenon
<1>9. InstantPenaltyAmount(x) = (d * x) \div P
  BY DEF InstantPenaltyAmount, TruncateInt, d, n, P
<1> QED
  BY <1>8, <1>9, InstantPenaltyType

\* The record of an undelegation pays something between nothing and what left
\* the pool for it, if an instant undelegation leaves something to pay.
LEMMA UndelegateOpens ==
  ASSUME RecordInv, NEW s \in Stakers, NEW o \in Operators, NEW x \in Nat,
         NEW reward \in BOOLEAN, NEW instant \in BOOLEAN,
         UndelegateFrom(s, o, x, reward, instant),
         NEW share \in Nat, share = ValidateUndelegationAmount(s, o, x, reward),
         NEW removed \in Nat, removed = Removed(o, share)
  PROVE  Opens(s, o, reward, removed)
<1>1. TypeOK
  BY DEF RecordInv
<1>2. PICK id \in Ids, r \in UndelegationRecord :
        /\ r.live /\ r.staker = s /\ r.operator = o /\ r.reward = reward
        /\ r.amount = removed /\ r.actual <= removed
        /\ r.actual >= removed - InstantPenaltyAmount(x)
        /\ undelegation' = [undelegation EXCEPT ![id] = r] /\ undelegation[id] = NoRecord
  BY UndelegateFromResult
<1>3. undelegation'[id] = r /\ \A j \in Ids : j # id => undelegation'[j] = undelegation[j]
  BY <1>1, <1>2, Zenon DEF TypeOK
<1>4. ASSUME InstantUndelegationPenalty < 100, PoolsBacked
      PROVE  0 <= r.actual /\ r.actual <= r.amount
  <2> DEFINE n == operatorAsset[o].TotalShare
             m == operatorAsset[o].TotalAmount
  <2>1. n \in Nat /\ m \in Nat /\ m <= n
    BY <1>1, <1>4, FieldTypes, Zenon DEF PoolsBacked, FieldsTyped
  <2>2. ~ValidateUndelegationAmountFails(s, o, x, reward)
    BY Zenon DEF UndelegateFrom
  <2>3. x \in Nat \ {0} /\ RequestedShare(o, x) # 0 /\ RequestedShare(o, x) \in Nat
    BY <1>1, <2>2, ShareTypes DEF ValidateUndelegationAmountFails
  <2>4. RequestedShare(o, x) <= share
    <3>1. /\ ~(RequestedShare(o, x) > UndelegatableShareOf(s, o, reward))
          /\ UndelegatableShareOf(s, o, reward) \in Nat
      BY <1>1, <2>2, ShareTypes, Zenon DEF ValidateUndelegationAmountFails
    <3> QED
      BY <2>3, <3>1 DEF ValidateUndelegationAmount
  <2>5. RequestedShare(o, x) = SharesFromTokens(n, x, m) /\ removed = RemovedToken(share, n, m)
    BY Zenon DEF RequestedShare, Removed
  <2> HIDE DEF n, m
  <2>6. m # 0 /\ n # 0
    BY <2>1, <2>3, <2>5 DEF SharesFromTokens
  <2>7. x <= removed + 1
    BY <2>1, <2>3, <2>4, <2>5, <2>6, RequestedRemoved, Zenon
  <2>8. InstantPenaltyAmount(x) \in Nat /\ InstantPenaltyAmount(x) <= x - 1
    BY <1>4, <2>3, PenaltyLeavesOne
  <2>9. r.actual \in Int
    BY Zenon DEF UndelegationRecord
  <2> QED
    BY <1>2, <2>3, <2>7, <2>8, <2>9
<1> QED
  BY <1>2, <1>3, <1>4, Zenon DEF Opens

\* An undelegation (UndelegateFrom).
LEMMA UndelegateEffect ==
  ASSUME RecordInv, NEW s \in Stakers, NEW o \in Operators, NEW x \in Nat,
         NEW reward \in BOOLEAN, reward => RewardDelegation, NEW instant \in BOOLEAN,
         UndelegateFrom(s, o, x, reward, instant),
         NEW share, share = ValidateUndelegationAmount(s, o, x, reward),
         NEW removed, removed = Removed(o, share)
  PROVE  /\ share \in Nat /\ removed \in Nat /\ Undelegates(s, o, reward, share, removed)
         /\ ListKept /\ BackingKept
<1> DEFINE q == PoolWithout(s, o, share, TRUE)
           e == DelegationWithout(s, o, share, TRUE, reward)
<1>1. TypeOK
  BY DEF RecordInv
<1>2. share \in Nat /\ removed \in Nat
  BY <1>1, ShareTypes, RemovedType, SMTT(30)
<1>3. /\ ~RemoveShareFails(s, o, share, reward)
      /\ operatorAsset' = [operatorAsset EXCEPT ![o] = q]
      /\ delegation' = [delegation EXCEPT ![s][o] = e]
      /\ stakerList' = IF ShareIsZero(s, o, share) THEN stakerList \ {<<s, o>>} ELSE stakerList
  BY Zenon DEF UndelegateFrom
<1>4. UNCHANGED <<stakingTotalAmount, associated, bank, delegatedPool, rewardIn>>
  BY Zenon DEF UndelegateFrom
<1>5. stakerAsset' = IF reward \/ Native THEN stakerAsset
                     ELSE [stakerAsset EXCEPT ![s] = UpdateStakerAssetState(stakerAsset[s], 0, 0, removed)]
  <2>1. DOMAIN stakerAsset = Stakers
    BY <1>1 DEF TypeOK
  <2> QED
    BY <2>1, Zenon DEF UndelegateFrom
<1>6. removed <= operatorAsset[o].TotalAmount /\ share <= operatorAsset[o].TotalShare
  <2>1. ~(removed > operatorAsset[o].TotalAmount) /\ ~(share > operatorAsset[o].TotalShare)
    BY <1>3, Zenon DEF RemoveShareFails
  <2>2. operatorAsset[o].TotalAmount \in Nat /\ operatorAsset[o].TotalShare \in Nat
    BY <1>1, FieldTypes, Zenon DEF FieldsTyped
  <2> QED
    BY <1>2, <2>1, <2>2
<1>7. operatorAsset[o] \in OperatorAssetInfo /\ delegation[s][o] \in DelegationAmounts
  BY <1>1, Zenon DEF TypeOK
<1>8. /\ q.TotalAmount = operatorAsset[o].TotalAmount - removed
      /\ q.TotalShare = operatorAsset[o].TotalShare - share
      /\ q.PendingUndelegationAmount = operatorAsset[o].PendingUndelegationAmount + removed
      /\ q.OperatorShare = operatorAsset[o].OperatorShare - (IF associated[s] = o THEN share ELSE 0)
  BY <1>2, <1>7, SMTT(30) DEF PoolWithout, UpdateOperatorAssetState, OperatorAssetInfo
<1>9. /\ e.UndelegatableShare = delegation[s][o].UndelegatableShare - (IF reward THEN 0 ELSE share)
      /\ e.RewardUndelegatableShare = delegation[s][o].RewardUndelegatableShare - (IF reward THEN share ELSE 0)
      /\ e.PendingUndelegationAmount = delegation[s][o].PendingUndelegationAmount
           + (IF reward THEN 0 ELSE removed)
      /\ e.RewardPendingUndelegationAmount = delegation[s][o].RewardPendingUndelegationAmount
           + (IF reward THEN removed ELSE 0)
  BY <1>2, <1>7 DEF DelegationWithout, UpdateDelegationState, DelegationAmounts
<1> HIDE DEF q, e
<1>10. /\ operatorAsset'[o] = q /\ delegation'[s][o] = e
       /\ \A p \in Operators : p # o => operatorAsset'[p] = operatorAsset[p]
       /\ \A t \in Stakers, p \in Operators : t # s \/ p # o => delegation'[t][p] = delegation[t][p]
  BY <1>1, <1>3, Zenon DEF TypeOK
<1>11. \A p \in Operators :
         /\ operatorAsset'[p].TotalAmount = operatorAsset[p].TotalAmount
              - (IF p = o THEN removed ELSE 0)
         /\ operatorAsset'[p].TotalShare = operatorAsset[p].TotalShare
              - (IF p = o THEN share ELSE 0)
         /\ operatorAsset'[p].OperatorShare = operatorAsset[p].OperatorShare
              - (IF p = o /\ associated[s] = o THEN share ELSE 0)
         /\ operatorAsset'[p].PendingUndelegationAmount = operatorAsset[p].PendingUndelegationAmount
              + (IF p = o THEN removed ELSE 0)
  <2>1. \A p \in Operators :
          /\ operatorAsset[p].TotalAmount \in Nat /\ operatorAsset[p].TotalShare \in Nat
          /\ operatorAsset[p].OperatorShare \in Nat /\ operatorAsset[p].PendingUndelegationAmount \in Nat
    BY <1>1, FieldTypes, Zenon DEF FieldsTyped
  <2> QED
    BY <1>8, <1>10, <2>1, SMTT(30)
<1>12. \A t \in Stakers :
         /\ ~Native => stakerAsset'[t].PendingUndelegationAmount =
              stakerAsset[t].PendingUndelegationAmount + (IF t = s /\ ~reward THEN removed ELSE 0)
         /\ stakerAsset'[t].WithdrawableAmount = stakerAsset[t].WithdrawableAmount
  <2> TAKE t \in Stakers
  <2>1. /\ stakerAsset[t].PendingUndelegationAmount \in Nat /\ stakerAsset[t].WithdrawableAmount \in Nat
        /\ stakerAsset[s].WithdrawableAmount \in Nat
    BY <1>1, FieldTypes, Zenon DEF FieldsTyped
  <2>2. CASE reward \/ Native
    BY <1>5, <2>1, <2>2
  <2>3. CASE ~reward /\ ~Native
    <3>1. stakerAsset' = [stakerAsset EXCEPT ![s] = UpdateStakerAssetState(stakerAsset[s], 0, 0, removed)]
      BY <1>5, <2>3, Zenon
    <3> QED
      BY <1>1, <2>1, <2>3, <3>1 DEF TypeOK, UpdateStakerAssetState
  <2> QED
    BY <2>2, <2>3, Zenon
<1>13. \A t \in Stakers, p \in Operators :
         /\ delegation'[t][p].RewardUndelegatableShare = delegation[t][p].RewardUndelegatableShare
              - (IF t = s /\ p = o /\ reward THEN share ELSE 0)
         /\ DelegatableShare(t, p)' = DelegatableShare(t, p)
              - (IF t = s /\ p = o THEN share ELSE 0)
  <2> TAKE t \in Stakers, p \in Operators
  <2>1. delegation[t][p].UndelegatableShare \in Nat /\ delegation[t][p].RewardUndelegatableShare \in Nat
    BY <1>1, FieldTypes, Zenon DEF FieldsTyped
  <2>2. CASE t = s /\ p = o
    BY <1>2, <1>9, <1>10, <2>1, <2>2, SMTT(30) DEF DelegatableShare
  <2>3. CASE ~(t = s /\ p = o)
    BY <1>10, <2>1, <2>3 DEF DelegatableShare
  <2> QED
    BY <2>2, <2>3, Zenon
<1>14. ASSUME NEW t \in Stakers, NEW p \in Operators, NEW b \in BOOLEAN
       PROVE  PendingOf(t, p, b)' = PendingOf(t, p, b)
                + (IF t = s /\ p = o /\ b = reward THEN removed ELSE 0)
  <2>1. /\ delegation[t][p].PendingUndelegationAmount \in Nat
        /\ delegation[t][p].RewardPendingUndelegationAmount \in Nat
    BY <1>1, FieldTypes, Zenon DEF FieldsTyped
  <2>2. CASE t = s /\ p = o
    BY <1>2, <1>9, <1>10, <2>1, <2>2, Zenon DEF PendingOf
  <2>3. CASE ~(t = s /\ p = o)
    BY <1>10, <2>1, <2>3, SMTT(30) DEF PendingOf
  <2> QED
    BY <2>2, <2>3, Zenon
<1>15. Opens(s, o, reward, removed)
  BY <1>2, UndelegateOpens, Zenon
<1>16. ListKept
  <2>1. CASE ShareIsZero(s, o, share)
    <3>1. DelegatableShare(s, o) \in Nat
      BY <1>1, FieldTypes, Zenon DEF FieldsTyped
    <3>2. DelegatableShare(s, o)' = 0
      BY <1>13, <2>1, <3>1 DEF ShareIsZero
    <3> QED
      BY <1>3, <2>1, <3>2, Zenon DEF ListKept
  <2>2. CASE ~ShareIsZero(s, o, share)
    BY <1>3, <2>2, Zenon DEF ListKept
  <2> QED
    BY <2>1, <2>2, Zenon
<1>17. BackingKept
  <2> SUFFICES ASSUME PoolsBacked, NEW p \in Operators
               PROVE  operatorAsset'[p].TotalAmount <= operatorAsset'[p].TotalShare
    BY Zenon DEF BackingKept, PoolsBacked
  <2>1. \A k \in Operators :
          /\ operatorAsset[k].TotalAmount \in Nat /\ operatorAsset[k].TotalShare \in Nat
          /\ operatorAsset[k].TotalAmount <= operatorAsset[k].TotalShare
    BY <1>1, FieldTypes, Zenon DEF FieldsTyped, PoolsBacked
  <2>2. operatorAsset[o].TotalAmount - removed <= operatorAsset[o].TotalShare - share
    BY <1>2, <1>6, <2>1, RemovalKeepsBacking, Zenon DEF Removed
  <2> QED
    BY <1>2, <1>11, <2>1, <2>2
<1> QED
  BY <1>2, <1>4, <1>11, <1>12, <1>13, <1>14, <1>15, <1>16, <1>17, ZenonT(60) DEF Undelegates

\* A decrease of an NST balance (UpdateNSTBalance).
LEMMA DecreaseEffect ==
  ASSUME RecordInv, NEW s \in Stakers, NEW x \in Nat, DecreaseNSTBalance(s, x)
  PROVE  /\ \E d \in [Operators -> Nat], w \in Nat : Decreases(s, d, w)
         /\ ListKept /\ BackingKept
<1> DEFINE share(o) == NSTSlashShare(s, x, o)
<1>1. TypeOK
  BY DEF RecordInv
<1>2. ~DecreaseNSTBalanceFails(s, x) /\ ~Native
  <2>1. "NST" # "native"
    OBVIOUS
  <2> QED
    BY <2>1, Zenon DEF DecreaseNSTBalance, Native
<1>3. \A o \in Operators : share(o) \in Nat
  BY <1>1, NSTTypes, Zenon
<1>4. \A t \in Stakers, o \in Operators : t # s => delegation'[t][o] = delegation[t][o]
  BY <1>1, Zenon DEF DecreaseNSTBalance, TypeOK
<1>5. ASSUME NEW o \in Operators
      PROVE  /\ share(o) <= operatorAsset[o].TotalShare
             /\ operatorAsset'[o].TotalAmount \in 0 .. operatorAsset[o].TotalAmount
             /\ operatorAsset'[o].TotalAmount = operatorAsset[o].TotalAmount
                  - (IF share(o) > 0 THEN Removed(o, share(o)) ELSE 0)
             /\ operatorAsset'[o].TotalShare = operatorAsset[o].TotalShare - share(o)
             /\ operatorAsset'[o].OperatorShare = operatorAsset[o].OperatorShare
                  - (IF associated[s] = o THEN share(o) ELSE 0)
             /\ operatorAsset'[o].PendingUndelegationAmount = operatorAsset[o].PendingUndelegationAmount
             /\ delegation'[s][o].UndelegatableShare = delegation[s][o].UndelegatableShare - share(o)
             /\ delegation'[s][o].RewardUndelegatableShare = delegation[s][o].RewardUndelegatableShare
             /\ delegation'[s][o].PendingUndelegationAmount = delegation[s][o].PendingUndelegationAmount
             /\ delegation'[s][o].RewardPendingUndelegationAmount = delegation[s][o].RewardPendingUndelegationAmount
  <2>1. /\ operatorAsset'[o] = IF share(o) > 0 THEN PoolWithout(s, o, share(o), FALSE)
                               ELSE operatorAsset[o]
        /\ delegation'[s][o] = IF share(o) > 0 THEN DelegationWithout(s, o, share(o), FALSE, FALSE)
                               ELSE delegation[s][o]
    BY <1>1, ZenonT(60) DEF DecreaseNSTBalance, TypeOK
  <2>2. operatorAsset[o] \in OperatorAssetInfo /\ delegation[s][o] \in DelegationAmounts
    BY <1>1, Zenon DEF TypeOK
  <2>3. CASE share(o) > 0
    <3>1. share(o) \in Nat /\ ~RemoveShareFails(s, o, share(o), FALSE)
      BY <1>1, <1>2, <1>3, <2>3, NSTRemoves, Zenon
    <3> HIDE DEF share
    <3>2. PICK d : d = share(o)
      OBVIOUS
    <3>3. d \in Nat /\ ~RemoveShareFails(s, o, d, FALSE)
      BY <3>1, <3>2, Zenon
    <3>4. PICK t : t = Removed(o, d)
      OBVIOUS
    <3>5. t \in Nat
      BY <1>1, <3>3, <3>4, RemovedType
    <3>6. ~(t > operatorAsset[o].TotalAmount) /\ ~(d > operatorAsset[o].TotalShare)
      BY <3>3, <3>4, Zenon DEF RemoveShareFails
    <3>7. operatorAsset'[o] = PoolWithout(s, o, d, FALSE) /\ delegation'[s][o] = DelegationWithout(s, o, d, FALSE, FALSE)
      BY <2>1, <2>3, <3>2, Zenon
    <3>8. operatorAsset'[o] = UpdateOperatorAssetState(operatorAsset[o], -t, 0, -d,
                                                       IF associated[s] = o THEN -d ELSE 0)
      BY <3>4, <3>7 DEF PoolWithout
    <3>9. delegation'[s][o] = UpdateDelegationState(delegation[s][o], -d, 0, 0, 0)
      BY <3>4, <3>7, Zenon DEF DelegationWithout
    <3>10. /\ d <= operatorAsset[o].TotalShare
           /\ operatorAsset'[o].TotalAmount \in 0 .. operatorAsset[o].TotalAmount
           /\ operatorAsset'[o].TotalAmount = operatorAsset[o].TotalAmount - t
           /\ operatorAsset'[o].TotalShare = operatorAsset[o].TotalShare - d
           /\ operatorAsset'[o].OperatorShare = operatorAsset[o].OperatorShare
                - (IF associated[s] = o THEN d ELSE 0)
           /\ operatorAsset'[o].PendingUndelegationAmount = operatorAsset[o].PendingUndelegationAmount
      BY <2>2, <3>3, <3>5, <3>6, <3>8, SMTT(30) DEF UpdateOperatorAssetState, OperatorAssetInfo
    <3>11. /\ delegation'[s][o].UndelegatableShare = delegation[s][o].UndelegatableShare - d
           /\ delegation'[s][o].RewardUndelegatableShare = delegation[s][o].RewardUndelegatableShare
           /\ delegation'[s][o].PendingUndelegationAmount = delegation[s][o].PendingUndelegationAmount
           /\ delegation'[s][o].RewardPendingUndelegationAmount = delegation[s][o].RewardPendingUndelegationAmount
      BY <2>2, <3>3, <3>9, SMTT(30) DEF UpdateDelegationState, DelegationAmounts
    <3> QED
      BY <2>3, <3>2, <3>4, <3>10, <3>11, Zenon
  <2>4. CASE ~(share(o) > 0)
    <3>1. share(o) = 0
      BY <1>3, <2>4
    <3> HIDE DEF share
    <3>2. operatorAsset'[o] = operatorAsset[o] /\ delegation'[s][o] = delegation[s][o]
      BY <2>1, <2>4, Zenon
    <3> QED
      BY <2>2, <3>1, <3>2 DEF OperatorAssetInfo, DelegationAmounts
  <2> QED
    BY <2>3, <2>4, Zenon
<1>6. \A t \in Stakers, p \in Operators :
        /\ delegation'[t][p].RewardUndelegatableShare = delegation[t][p].RewardUndelegatableShare
        /\ DelegatableShare(t, p)' = DelegatableShare(t, p) - (IF t = s THEN share(p) ELSE 0)
  <2> TAKE t \in Stakers, p \in Operators
  <2>1. delegation[t][p].UndelegatableShare \in Nat /\ delegation[t][p].RewardUndelegatableShare \in Nat
    BY <1>1, FieldTypes, Zenon DEF FieldsTyped
  <2>2. share(p) \in Nat
    BY <1>3, Zenon
  <2> HIDE DEF share
  <2>3. CASE t = s
    BY <1>5, <2>1, <2>2, <2>3 DEF DelegatableShare
  <2>4. CASE t # s
    BY <1>4, <2>1, <2>4, SMTT(30) DEF DelegatableShare
  <2> QED
    BY <2>3, <2>4
<1>7. FromWithdrawable(s, x) \in 0 .. stakerAsset[s].WithdrawableAmount /\ TakenFrom(s, x) \in Int
  BY <1>1, NSTTypes, Zenon
<1>8. stakerAsset' = [stakerAsset EXCEPT ![s] =
        UpdateStakerAssetState(stakerAsset[s], -TakenFrom(s, x), -FromWithdrawable(s, x), 0)]
  <2>1. DOMAIN stakerAsset = Stakers
    BY <1>1, Zenon DEF TypeOK
  <2> QED
    BY <2>1, Zenon DEF DecreaseNSTBalance
<1>9. \A t \in Stakers :
        /\ stakerAsset'[t].WithdrawableAmount = stakerAsset[t].WithdrawableAmount
             - (IF t = s THEN FromWithdrawable(s, x) ELSE 0)
        /\ stakerAsset'[t].PendingUndelegationAmount = stakerAsset[t].PendingUndelegationAmount
  <2>1. \A t \in Stakers :
          stakerAsset[t].WithdrawableAmount \in Nat /\ stakerAsset[t].PendingUndelegationAmount \in Nat
    BY <1>1, FieldTypes, Zenon DEF FieldsTyped
  <2> QED
    BY <1>1, <1>7, <1>8, <2>1, SMTT(30) DEF TypeOK, UpdateStakerAssetState
<1>10. UNCHANGED <<stakingTotalAmount, associated, bank, delegatedPool, rewardIn>>
  BY Zenon DEF DecreaseNSTBalance
<1>11. PendingsKept
  BY <1>4, <1>5, <1>9, ZenonT(60) DEF PendingsKept
<1>12. PaysLess
  <2> SUFFICES ASSUME NEW i \in Ids, undelegation[i].live, undelegation[i].actual >= 0
               PROVE  undelegation'[i].actual \in 0 .. undelegation[i].actual
    BY <1>1, DecreaseSlashesRecords, Zenon DEF PaysLess
  <2>1. undelegation'[i] = IF undelegation[i].staker = s
                           THEN [undelegation[i] EXCEPT !.actual = undelegation[i].actual - FromUndelegation(s, x, i)]
                           ELSE undelegation[i]
    BY Zenon DEF DecreaseNSTBalance
  <2>2. undelegation[i] \in UndelegationRecord
    BY <1>1, LiveRecords, Zenon
  <2>3. undelegation[i].actual \in Int
    BY <2>2, Zenon DEF UndelegationRecord
  <2>4. FromUndelegation(s, x, i) \in 0 .. undelegation[i].actual
    BY <1>1, NSTTypes, Zenon
  <2>5. PICK a : a = undelegation[i].actual - FromUndelegation(s, x, i)
    OBVIOUS
  <2>6. a \in 0 .. undelegation[i].actual /\ undelegation[i].actual \in 0 .. undelegation[i].actual
    BY <2>3, <2>4, <2>5
  <2>7. [undelegation[i] EXCEPT !.actual = a].actual = a
    BY <2>2, Zenon DEF UndelegationRecord
  <2> QED
    BY <2>1, <2>5, <2>6, <2>7, Zenon
<1>13. \A i \in Ids : undelegation[i].staker # s => undelegation'[i] = undelegation[i]
  BY Zenon DEF DecreaseNSTBalance
<1>14. ListKept
  <2> SUFFICES ASSUME NEW t \in Stakers, NEW p \in Operators, <<t, p>> \in stakerList,
                      <<t, p>> \notin stakerList'
               PROVE  DelegatableShare(t, p)' = 0
    BY Zenon DEF ListKept
  <2>1. <<t, p>> \in {<<s, o>> : o \in {q \in Operators :
                          share(q) > 0 /\ ShareIsZero(s, q, share(q))}}
    BY Zenon DEF DecreaseNSTBalance
  <2>2. PICK q \in Operators : <<t, p>> = <<s, q>> /\ ShareIsZero(s, q, share(q))
    BY <2>1, Zenon
  <2>3. t = s /\ p = q
    BY <2>2
  <2>4. DelegatableShare(s, p) \in Nat /\ share(p) = DelegatableShare(s, p)
    BY <1>1, <2>2, <2>3, FieldTypes, Zenon DEF FieldsTyped, ShareIsZero
  <2>5. DelegatableShare(s, p)' = DelegatableShare(s, p) - share(p)
    BY <1>6, Zenon
  <2> HIDE DEF share
  <2> QED
    BY <2>3, <2>4, <2>5
<1>15. BackingKept
  <2> SUFFICES ASSUME PoolsBacked, NEW p \in Operators
               PROVE  operatorAsset'[p].TotalAmount <= operatorAsset'[p].TotalShare
    BY Zenon DEF BackingKept, PoolsBacked
  <2>1. PICK n : n = operatorAsset[p].TotalShare
    OBVIOUS
  <2>2. PICK m : m = operatorAsset[p].TotalAmount
    OBVIOUS
  <2>3. PICK d : d = share(p)
    OBVIOUS
  <2>4. n \in Nat /\ m \in Nat /\ m <= n /\ d \in Nat
    BY <1>1, <1>3, <2>1, <2>2, <2>3, FieldTypes, Zenon DEF FieldsTyped, PoolsBacked
  <2>5. /\ d <= n /\ operatorAsset'[p].TotalShare = n - d
        /\ operatorAsset'[p].TotalAmount = m - (IF d > 0 THEN RemovedToken(d, n, m) ELSE 0)
    BY <1>5, <2>1, <2>2, <2>3, Zenon DEF Removed
  <2>6. m - RemovedToken(d, n, m) <= n - d
    BY <2>4, <2>5, RemovalKeepsBacking, Zenon
  <2> QED
    BY <2>4, <2>5, <2>6
<1>16. PICK d \in [Operators -> Nat] : \A o \in Operators : d[o] = share(o)
  <2> DEFINE f == [o \in Operators |-> share(o)]
  <2>1. f \in [Operators -> Nat] /\ \A o \in Operators : f[o] = share(o)
    BY <1>3, Zenon
  <2> QED
    BY <2>1, Zenon
<1>17. PICK w : w = FromWithdrawable(s, x)
  BY Zenon
<1>18. w \in Nat
  <2>1. stakerAsset[s].WithdrawableAmount \in Nat
    BY <1>1, FieldTypes, Zenon DEF FieldsTyped
  <2> QED
    BY <1>7, <1>17, <2>1
<1>19. \A p \in Operators :
         /\ operatorAsset'[p].TotalAmount \in 0 .. operatorAsset[p].TotalAmount
         /\ operatorAsset'[p].TotalShare = operatorAsset[p].TotalShare - d[p]
         /\ operatorAsset'[p].OperatorShare = operatorAsset[p].OperatorShare
              - (IF associated[s] = p THEN d[p] ELSE 0)
  <2> HIDE DEF share
  <2> TAKE p \in Operators
  <2>1. d[p] = share(p)
    BY <1>16, Zenon
  <2> QED
    BY <1>5, <2>1
<1>20. \A t \in Stakers, p \in Operators :
         /\ delegation'[t][p].RewardUndelegatableShare = delegation[t][p].RewardUndelegatableShare
         /\ DelegatableShare(t, p)' = DelegatableShare(t, p) - (IF t = s THEN d[p] ELSE 0)
  BY <1>6, <1>16, Zenon
<1> HIDE DEF share
<1>21. Decreases(s, d, w)
  BY <1>2, <1>9, <1>10, <1>11, <1>12, <1>13, <1>17, <1>19, <1>20, ZenonT(60) DEF Decreases
<1> QED
  BY <1>14, <1>15, <1>18, <1>21, Zenon

\* A slash of the assets (SlashAssets).
LEMMA SlashEffect ==
  ASSUME RecordInv, NEW o \in Operators, NEW proportion \in Proportions, NEW v, NEW h,
         SlashAssets(o, proportion, v, h)
  PROVE  Slashes(o) /\ ListKept /\ BackingKept
<1> DEFINE slashAmount == TruncateInt(proportion * operatorAsset[o].TotalAmount)
           wiped == SlashedToZero(o, slashAmount)
           q == UpdateOperatorAssetState(operatorAsset[o], -slashAmount, 0,
                  IF wiped THEN -operatorAsset[o].TotalShare ELSE 0,
                  IF wiped THEN -operatorAsset[o].OperatorShare ELSE 0)
<1>1. TypeOK
  BY DEF RecordInv
<1>2. operatorAsset' = [operatorAsset EXCEPT ![o] = q]
  <2>1. operatorAsset' = [operatorAsset EXCEPT ![o] =
          UpdateOperatorAssetState(@, -slashAmount, 0, IF wiped THEN -@.TotalShare ELSE 0,
                                   IF wiped THEN -@.OperatorShare ELSE 0)]
    BY Zenon DEF SlashAssets
  <2> HIDE DEF slashAmount, wiped
  <2>2. DOMAIN operatorAsset = Operators
    BY <1>1, Zenon DEF TypeOK
  <2> QED
    BY <2>1, <2>2
<1>3. delegation' = [s \in Stakers |-> [p \in Operators |->
       LET d == delegation[s][p]
       IN  IF wiped /\ p = o /\ s \in {u \in Stakers : <<u, o>> \in stakerList}
           THEN UpdateDelegationState(d, -d.UndelegatableShare, 0, -d.RewardUndelegatableShare, 0)
           ELSE d]]
  BY Zenon DEF SlashAssets
<1>14. stakerList' = IF wiped THEN stakerList \ {<<s, o>> : s \in {u \in Stakers : <<u, o>> \in stakerList}}
                           ELSE stakerList
  BY Zenon DEF SlashAssets
<1>4. UNCHANGED <<stakerAsset, stakingTotalAmount, associated, bank, delegatedPool, rewardIn>>
  BY Zenon DEF SlashAssets
<1>5. slashAmount \in 0 .. operatorAsset[o].TotalAmount
  BY <1>1, SlashAmountType
<1>6. wiped \in BOOLEAN /\ (wiped => slashAmount = operatorAsset[o].TotalAmount)
  BY Zenon DEF SlashedToZero
<1> HIDE DEF slashAmount, wiped
<1>7. operatorAsset[o] \in OperatorAssetInfo
  BY <1>1, Zenon DEF TypeOK
<1>8. /\ q.TotalAmount \in 0 .. operatorAsset[o].TotalAmount
      /\ q.TotalShare = (IF wiped THEN 0 ELSE operatorAsset[o].TotalShare)
      /\ wiped => q.TotalAmount = 0
      /\ q.PendingUndelegationAmount = operatorAsset[o].PendingUndelegationAmount
      /\ q.OperatorShare = IF wiped THEN 0 ELSE operatorAsset[o].OperatorShare
  BY <1>5, <1>6, <1>7 DEF UpdateOperatorAssetState, OperatorAssetInfo
<1> HIDE DEF q
<1>9. operatorAsset'[o] = q /\ \A p \in Operators : p # o => operatorAsset'[p] = operatorAsset[p]
  BY <1>1, <1>2, Zenon DEF TypeOK
<1>10. \A p \in Operators :
         /\ operatorAsset'[p].TotalAmount \in 0 .. operatorAsset[p].TotalAmount
         /\ wiped /\ p = o => operatorAsset'[p].TotalAmount = 0
         /\ operatorAsset'[p].TotalShare = IF wiped /\ p = o THEN 0 ELSE operatorAsset[p].TotalShare
         /\ operatorAsset'[p].PendingUndelegationAmount = operatorAsset[p].PendingUndelegationAmount
         /\ operatorAsset'[p].OperatorShare = IF wiped /\ p = o THEN 0 ELSE operatorAsset[p].OperatorShare
  <2>1. \A p \in Operators : operatorAsset[p].TotalAmount \in Nat
    BY <1>1, FieldTypes, Zenon DEF FieldsTyped
  <2>2. \A n \in Nat : n \in 0 .. n
    OBVIOUS
  <2> QED
    BY <1>8, <1>9, <2>1, <2>2, Zenon
<1>11. ASSUME NEW t \in Stakers, NEW p \in Operators
       PROVE  /\ delegation'[t][p].PendingUndelegationAmount = delegation[t][p].PendingUndelegationAmount
              /\ delegation'[t][p].RewardPendingUndelegationAmount = delegation[t][p].RewardPendingUndelegationAmount
              /\ delegation'[t][p].RewardUndelegatableShare =
                   IF wiped /\ p = o /\ <<t, p>> \in stakerList THEN 0
                   ELSE delegation[t][p].RewardUndelegatableShare
              /\ DelegatableShare(t, p)' =
                   IF wiped /\ p = o /\ <<t, p>> \in stakerList THEN 0 ELSE DelegatableShare(t, p)
  <2>1. delegation[t][p] \in DelegationAmounts
    BY <1>1, FieldTypes, ZenonT(60) DEF FieldsTyped
  <2>2. CASE wiped /\ p = o /\ <<t, p>> \in stakerList
    <3>1. delegation'[t][p] = UpdateDelegationState(delegation[t][p],
            -delegation[t][p].UndelegatableShare, 0, -delegation[t][p].RewardUndelegatableShare, 0)
      BY <1>3, <2>2, Zenon
    <3> QED
      BY <2>1, <2>2, <3>1, SMTT(30) DEF DelegatableShare, UpdateDelegationState, DelegationAmounts
  <2>3. CASE ~(wiped /\ p = o /\ <<t, p>> \in stakerList)
    <3>1. delegation'[t][p] = delegation[t][p]
      BY <1>3, <2>3, Zenon
    <3> QED
      BY <2>3, <3>1, Zenon DEF DelegatableShare
  <2> QED
    BY <2>2, <2>3, Zenon
<1>12. PendingsKept
  BY <1>4, <1>10, <1>11, Zenon DEF PendingsKept
<1>13. PaysLess
  BY <1>1, SlashSlashesRecords, Zenon DEF PaysLess
<1>15. ListKept
  <2> SUFFICES ASSUME NEW t \in Stakers, NEW p \in Operators, <<t, p>> \in stakerList,
                      <<t, p>> \notin stakerList'
               PROVE  DelegatableShare(t, p)' = 0
    BY Zenon DEF ListKept
  <2>1. wiped /\ <<t, p>> \in {<<s, o>> : s \in {u \in Stakers : <<u, o>> \in stakerList}}
    BY <1>14, Zenon
  <2>2. PICK w \in Stakers : <<t, p>> = <<w, o>>
    BY <2>1, Zenon
  <2>3. p = o
    BY <2>2, Zenon
  <2> QED
    BY <1>11, <2>1, <2>3, Zenon
<1>16. BackingKept
  <2> SUFFICES ASSUME PoolsBacked, NEW p \in Operators
               PROVE  operatorAsset'[p].TotalAmount <= operatorAsset'[p].TotalShare
    BY Zenon DEF BackingKept, PoolsBacked
  <2>1. /\ operatorAsset[p].TotalAmount \in Nat /\ operatorAsset[p].TotalShare \in Nat
        /\ operatorAsset[p].TotalAmount <= operatorAsset[p].TotalShare
    BY <1>1, FieldTypes, Zenon DEF FieldsTyped, PoolsBacked
  <2> QED
    BY <1>10, <2>1
<1> QED
  BY <1>4, <1>6, <1>10, <1>11, <1>12, <1>13, <1>15, <1>16, ZenonT(60) DEF Slashes

\* Association and dissociation.
LEMMA AssociationEffect ==
  ASSUME RecordInv, NEW s \in Stakers,
         DissociateOperatorFromStaker(s) \/ \E o \in Operators : AssociateOperatorWithStaker(s, o)
  PROVE  Associates(s)
<1>1. TypeOK
  BY DEF RecordInv
<1>2. /\ ~Native
      /\ UNCHANGED <<delegation, stakerList, undelegation, stakerAsset, stakingTotalAmount, bank,
                     delegatedPool, rewardIn>>
  BY Zenon DEF DissociateOperatorFromStaker, AssociateOperatorWithStaker
<1>3. PICK o \in Operators, d \in Int :
        /\ operatorAsset' = [operatorAsset EXCEPT ![o] =
             UpdateOperatorAssetState(operatorAsset[o], 0, 0, 0, d)]
        /\ \/ associated[s] = None /\ associated'[s] = o /\ d = delegation[s][o].UndelegatableShare
           \/ associated[s] = o /\ associated'[s] = None /\ d = -delegation[s][o].UndelegatableShare
        /\ \A t \in Stakers : t # s => associated'[t] = associated[t]
  <2>1. associated \in [Stakers -> Operators \cup {None}] /\ DOMAIN operatorAsset = Operators
    BY <1>1, Zenon DEF TypeOK
  <2>2. \A o \in Operators : /\ delegation[s][o].UndelegatableShare \in Int
                             /\ -delegation[s][o].UndelegatableShare \in Int
    BY <1>1 DEF TypeOK, DelegationAmounts
  <2>3. CASE DissociateOperatorFromStaker(s)
    <3>1. associated[s] \in Operators
      BY <2>1, <2>3, Zenon DEF DissociateOperatorFromStaker
    <3>2. /\ operatorAsset' = [operatorAsset EXCEPT ![associated[s]] = UpdateOperatorAssetState(
                operatorAsset[associated[s]], 0, 0, 0, -delegation[s][associated[s]].UndelegatableShare)]
          /\ associated'[s] = None /\ \A t \in Stakers : t # s => associated'[t] = associated[t]
      BY <2>1, <2>3, <3>1, Zenon DEF DissociateOperatorFromStaker
    <3> QED
      BY <2>2, <3>1, <3>2, Zenon
  <2>4. CASE \E o \in Operators : AssociateOperatorWithStaker(s, o)
    <3>1. PICK o \in Operators : AssociateOperatorWithStaker(s, o)
      BY <2>4
    <3>2. /\ operatorAsset' = [operatorAsset EXCEPT ![o] =
               UpdateOperatorAssetState(operatorAsset[o], 0, 0, 0, delegation[s][o].UndelegatableShare)]
          /\ associated[s] = None /\ associated'[s] = o
          /\ \A t \in Stakers : t # s => associated'[t] = associated[t]
      BY <2>1, <3>1, ZenonT(60) DEF AssociateOperatorWithStaker
    <3> QED
      BY <2>2, <3>2, Zenon
  <2> QED
    BY <2>3, <2>4, Zenon
<1>4. \A p \in Operators :
        /\ operatorAsset'[p].TotalAmount = operatorAsset[p].TotalAmount
        /\ operatorAsset'[p].TotalShare = operatorAsset[p].TotalShare
        /\ operatorAsset'[p].PendingUndelegationAmount = operatorAsset[p].PendingUndelegationAmount
        /\ operatorAsset'[p].OperatorShare = operatorAsset[p].OperatorShare + (IF p = o THEN d ELSE 0)
  BY <1>1, <1>3 DEF TypeOK, OperatorAssetInfo, UpdateOperatorAssetState
<1>5. ASSUME NEW p \in Operators
      PROVE  operatorAsset'[p].OperatorShare = operatorAsset[p].OperatorShare
               + (IF associated'[s] = p THEN delegation[s][p].UndelegatableShare ELSE 0)
               - (IF associated[s] = p THEN delegation[s][p].UndelegatableShare ELSE 0)
  <2>1. None \notin Operators
    BY DelegationAssumption, Zenon DEF None
  <2>2. operatorAsset[p].OperatorShare \in Nat /\ delegation[s][p].UndelegatableShare \in Nat
    BY <1>1, FieldTypes, Zenon DEF FieldsTyped
  <2> QED
    BY <1>3, <1>4, <2>1, <2>2
<1>6. PendingsKept
  BY <1>2, <1>4, Zenon DEF PendingsKept
<1> QED
  BY <1>2, <1>3, <1>4, <1>5, <1>6, Zenon DEF Associates

\* Deposits and withdrawals (PerformDepositOrWithdraw).
LEMMA DepositEffect ==
  ASSUME RecordInv, NEW s \in Stakers, NEW x \in Nat, Deposit(s, x) \/ Withdraw(s, x)
  PROVE  Deposits(s)
<1>1. TypeOK
  BY DEF RecordInv
<1>2. PICK d \in Int :
        /\ stakerAsset' = [stakerAsset EXCEPT ![s] = UpdateStakerAssetState(stakerAsset[s], d, d, 0)]
        /\ stakingTotalAmount' = stakingTotalAmount + d
  <2>1. stakingTotalAmount \in Nat /\ DOMAIN stakerAsset = Stakers
    BY <1>1 DEF TypeOK
  <2>2. CASE Deposit(s, x)
    <3>1. /\ stakerAsset' = [stakerAsset EXCEPT ![s] = UpdateStakerAssetState(stakerAsset[s], x, x, 0)]
          /\ stakingTotalAmount' = stakingTotalAmount + x
      BY <2>1, <2>2, Zenon DEF Deposit
    <3>2. x \in Int
      OBVIOUS
    <3> QED
      BY <3>1, <3>2, Zenon
  <2>3. CASE Withdraw(s, x)
    <3>1. /\ stakerAsset' = [stakerAsset EXCEPT ![s] = UpdateStakerAssetState(stakerAsset[s], -x, -x, 0)]
          /\ stakingTotalAmount' = stakingTotalAmount - x
      BY <2>1, <2>3, Zenon DEF Withdraw
    <3>2. -x \in Int /\ stakingTotalAmount - x = stakingTotalAmount + -x
      BY <2>1
    <3> QED
      BY <3>1, <3>2, Zenon
  <2> QED
    BY <2>2, <2>3, Zenon
<1>3. \A t \in Stakers :
        stakerAsset[t].WithdrawableAmount \in Nat /\ stakerAsset[t].PendingUndelegationAmount \in Nat
  BY <1>1, FieldTypes, Zenon DEF FieldsTyped
<1>4. \A t \in Stakers :
        /\ stakerAsset'[t].WithdrawableAmount = stakerAsset[t].WithdrawableAmount + (IF t = s THEN d ELSE 0)
        /\ stakerAsset'[t].PendingUndelegationAmount = stakerAsset[t].PendingUndelegationAmount
  BY <1>1, <1>2, <1>3 DEF TypeOK, UpdateStakerAssetState
<1>5. ~Native /\ UNCHANGED <<operatorAsset, delegation, stakerList, associated, undelegation,
                             bank, delegatedPool, rewardIn>>
  BY Zenon DEF Deposit, Withdraw
<1>6. PendingsKept
  BY <1>4, <1>5, Zenon DEF PendingsKept
<1> QED
  BY <1>2, <1>4, <1>5, <1>6, Zenon DEF Deposits

-----------------------------------------------------------------------------
(***************************************************************************)
(* Every step of the ledger is of one of the kinds.                        *)
(***************************************************************************)

\* A step of Delegation is a LedgerStep, whatever happened before it.
LEMMA StepOfLedger ==
  ASSUME RecordInv, [Next]_vars PROVE LedgerStep
<1>1. \A x \in Amounts : x \in Nat
  BY DelegationAssumption, Zenon
<1>2. ASSUME NEW reward \in {FALSE, RewardDelegation}
      PROVE  reward \in BOOLEAN /\ (reward => RewardDelegation)
  <2>1. RewardDelegation \in BOOLEAN
    BY DelegationAssumption, Zenon
  <2>2. CASE reward = FALSE
    BY <2>2, Zenon
  <2>3. CASE reward = RewardDelegation
    BY <2>1, <2>3, Zenon
  <2> QED
    BY <2>2, <2>3, Zenon
<1>3. UNCHANGED stakerList => ListKept
  BY Zenon DEF ListKept
<1>4. ASSUME \A p \in Operators : /\ operatorAsset'[p].TotalAmount = operatorAsset[p].TotalAmount
                                  /\ operatorAsset'[p].TotalShare = operatorAsset[p].TotalShare
      PROVE  BackingKept
  BY <1>4, Zenon DEF BackingKept, PoolsBacked
<1>5. ASSUME NEW s \in Stakers, NEW x \in Amounts, Deposit(s, x) \/ Withdraw(s, x) PROVE LedgerStep
  <2>1. Deposits(s)
    BY <1>1, <1>5, DepositEffect, Zenon
  <2>2. UNCHANGED <<operatorAsset, stakerList>>
    BY <2>1, Zenon DEF Deposits
  <2> QED
    BY <1>3, <1>4, <2>1, <2>2, Zenon DEF LedgerStep
<1>6. ASSUME NEW s \in Stakers, NEW x \in Amounts, DecreaseNSTBalance(s, x) PROVE LedgerStep
  BY <1>1, <1>6, DecreaseEffect, Zenon DEF LedgerStep
<1>7. ASSUME NEW s \in Stakers, NEW o \in Operators, NEW x \in Amounts,
             NEW reward \in {FALSE, RewardDelegation}, DelegateTo(s, o, x, reward)
      PROVE  LedgerStep
  <2>1. PICK share : share = CalculateShare(o, x)
    OBVIOUS
  <2>2. x \in Nat /\ reward \in BOOLEAN /\ (reward => RewardDelegation)
    BY <1>1, <1>2, Zenon
  <2>3. share \in Nat /\ Delegates(s, o, x, reward, share) /\ ListKept /\ BackingKept
    BY <1>7, <2>1, <2>2, DelegateEffect, Zenon
  <2> QED
    BY <2>2, <2>3, Zenon DEF LedgerStep
<1>8. ASSUME NEW s \in Stakers, NEW o \in Operators, NEW x \in Amounts,
             NEW reward \in {FALSE, RewardDelegation}, NEW instant \in BOOLEAN,
             UndelegateFrom(s, o, x, reward, instant)
      PROVE  LedgerStep
  <2>1. PICK share : share = ValidateUndelegationAmount(s, o, x, reward)
    OBVIOUS
  <2>2. PICK removed : removed = Removed(o, share)
    OBVIOUS
  <2>3. x \in Nat /\ reward \in BOOLEAN /\ (reward => RewardDelegation)
    BY <1>1, <1>2, Zenon
  <2>4. /\ share \in Nat /\ removed \in Nat /\ Undelegates(s, o, reward, share, removed)
        /\ ListKept /\ BackingKept
    BY <1>8, <2>1, <2>2, <2>3, UndelegateEffect, Zenon
  <2> QED
    BY <2>3, <2>4, Zenon DEF LedgerStep
<1>9. ASSUME NEW s \in Stakers,
             DissociateOperatorFromStaker(s) \/ \E o \in Operators : AssociateOperatorWithStaker(s, o)
      PROVE  LedgerStep
  <2>1. Associates(s)
    BY <1>9, AssociationEffect, Zenon
  <2>2. /\ UNCHANGED stakerList
        /\ \A p \in Operators : /\ operatorAsset'[p].TotalAmount = operatorAsset[p].TotalAmount
                                 /\ operatorAsset'[p].TotalShare = operatorAsset[p].TotalShare
    BY <2>1, Zenon DEF Associates
  <2> QED
    BY <1>3, <1>4, <2>1, <2>2, Zenon DEF LedgerStep
<1>10. ASSUME NEW o \in Operators, NEW proportion \in Proportions, NEW e, NEW h,
              SlashAssets(o, proportion, e, h)
       PROVE  LedgerStep
  BY <1>10, SlashEffect, Zenon DEF LedgerStep
<1>11. ASSUME Holds PROVE LedgerStep
  <2>1. UNCHANGED <<operatorAsset, stakerList>>
    BY <1>11, Zenon DEF Holds
  <2> QED
    BY <1>3, <1>4, <1>11, <2>1, Zenon DEF LedgerStep
<1>12. ASSUME NEW i \in Ids, IncrementUndelegationHoldCount(i) \/ DecrementUndelegationHoldCount(i)
       PROVE  LedgerStep
  <2>1. UNCHANGED <<stakerAsset, stakingTotalAmount, operatorAsset, delegation, stakerList, associated,
                    bank, delegatedPool, rewardIn>>
    BY <1>12, Zenon DEF IncrementUndelegationHoldCount, DecrementUndelegationHoldCount
  <2>2. SlashesRecords /\ \A j \in Ids : undelegation'[j].actual = undelegation[j].actual
    BY <1>12, HoldRecord, Zenon
  <2> QED
    BY <1>11, <2>1, <2>2, Zenon DEF Holds
<1>13. ASSUME UNCHANGED <<stakerAsset, stakingTotalAmount, operatorAsset, delegation, stakerList,
                          associated, undelegation, bank, delegatedPool, rewardIn>>
       PROVE  LedgerStep
  <2>1. undelegation \in [Ids -> UndelegationRecord \cup {NoRecord}]
    BY Zenon DEF RecordInv, TypeOK
  <2> QED
    BY <1>11, <1>13, <2>1, Zenon DEF Holds, SlashesRecords
<1>14. ASSUME NEW i \in Ids, CompleteUndelegation(i) PROVE LedgerStep
  <2>1. PICK r : r = undelegation[i]
    OBVIOUS
  <2>2. Completes(i, r)
    BY <1>14, <2>1, CompleteEffect, Zenon
  <2>3. /\ r \in UndelegationRecord
        /\ \A p \in Operators : /\ operatorAsset'[p].TotalAmount = operatorAsset[p].TotalAmount
                                 /\ operatorAsset'[p].TotalShare = operatorAsset[p].TotalShare
    BY <2>2, Zenon DEF Completes
  <2>4. UNCHANGED stakerList
    BY <1>14, Zenon DEF CompleteUndelegation, Handle
  <2> QED
    BY <1>3, <1>4, <2>2, <2>3, <2>4, Zenon DEF LedgerStep
<1>15. CASE EndBlock \/ UNCHANGED vars
  BY <1>13, <1>15, Zenon DEF EndBlock, vars
<1>16. CASE \E i \in Ids : SkipUndelegation(i)
  BY <1>13, <1>16, Zenon DEF SkipUndelegation, Handle
<1>17. CASE \E epochEnds \in BOOLEAN : BeginBlock(epochEnds)
  BY <1>13, <1>17, Zenon DEF BeginBlock
<1> QED
  BY <1>5, <1>6, <1>7, <1>8, <1>9, <1>10, <1>12, <1>14, <1>15, <1>16, <1>17, Zenon
  DEF Next, Transaction, Release, Block, IncreaseNSTBalance

-----------------------------------------------------------------------------
(***************************************************************************)
(* Every step of the ledger.                                               *)
(***************************************************************************)
\* What the theorems below need of a step.
LEMMA EveryStep ==
  ASSUME RecordInv, [Next]_vars
  PROVE  RecordInv' /\ TypeOK /\ TypeOK' /\ LedgerStep
<1>1. RecordInv' /\ LedgerStep
  BY RecordNext, StepOfLedger
<1> QED
  BY <1>1, Zenon DEF RecordInv

\* Pools and stakers agree on the shares at all times: delegateTo, RemoveShare
\* and SlashAssets, which update them in different stores, never drift apart,
\* whatever is delegated, rounded, slashed, associated or redelegated.
THEOREM PoolSharesMatch == Spec => []SharesMatchPool
<1>1. Init => RecordInv /\ LedgerInv
  BY RecordInit, LedgerInit, Zenon
<1>2. RecordInv /\ LedgerInv /\ [Next]_vars => RecordInv' /\ LedgerInv'
  BY EveryStep, LedgerKept, Zenon
<1>3. LedgerInv => SharesMatchPool
  BY Zenon DEF LedgerInv
<1> QED
  BY <1>1, <1>2, <1>3, PTL DEF Spec

\* A staker with a share is on the operator's list at all times, so that a
\* slash to zero reaches every share (SlashAssets, RemoveShare).
THEOREM ShareholdersListed == Spec => []ShareholdersAreListed
<1>1. Init => RecordInv /\ LedgerInv
  BY RecordInit, LedgerInit, Zenon
<1>2. RecordInv /\ LedgerInv /\ [Next]_vars => RecordInv' /\ LedgerInv'
  BY EveryStep, LedgerKept, Zenon
<1>3. LedgerInv => ShareholdersAreListed
  BY Zenon DEF LedgerInv
<1> QED
  BY <1>1, <1>2, <1>3, PTL DEF Spec

\* Where no rewards are delegated, an operator's own share is at all times what
\* its associated stakers delegated to it (AssociateOperatorWithStaker,
\* DelegateTo, RemoveShareFromOperator, SlashAssets).
THEOREM OwnShareExact ==
  ASSUME RewardDelegation = FALSE
  PROVE  Spec => []OperatorShareIsSelfDelegation
<1> DEFINE I == RecordInv /\ LedgerInv /\ SelfInv
<1>1. Init => I
  BY RecordInit, LedgerInit, SelfInit, Zenon
<1>2. I /\ [Next]_vars => I'
  BY EveryStep, LedgerKept, SelfKept, Zenon
<1>3. I => OperatorShareIsSelfDelegation
  BY Zenon DEF SelfInv
<1> QED
  BY <1>1, <1>2, <1>3, PTL DEF Spec

\* What ValidateUndelegationAmount accepts, the invariants let through.
LEMMA LeavingPossible ==
  ASSUME TypeOK, LedgerInv, SelfInv PROVE LeavingSucceeds
<1> SUFFICES ASSUME NEW s \in Stakers, NEW o \in Operators, NEW x \in Amounts,
                    NEW reward \in BOOLEAN, reward = FALSE,
                    ~ValidateUndelegationAmountFails(s, o, x, reward)
             PROVE  /\ ~PreDelegatedAmountFails(s, o)
                    /\ ~RemoveShareFails(s, o, ValidateUndelegationAmount(s, o, x, reward), reward)
  BY Zenon DEF LeavingSucceeds
<1>1. x \in Nat
  BY DelegationAssumption, Zenon
<1> DEFINE ds == DelegatableShare(s, o)
           u  == delegation[s][o].UndelegatableShare
           n  == operatorAsset[o].TotalShare
           m  == operatorAsset[o].TotalAmount
           q  == RequestedShare(o, x)
<1>2. PICK share : share = ValidateUndelegationAmount(s, o, x, reward)
  OBVIOUS
<1>3. FieldsTyped
  BY FieldTypes, Zenon
<1>4. ds \in Nat /\ u \in Nat /\ n \in Nat /\ m \in Nat /\ operatorAsset[o].OperatorShare \in Nat
  BY <1>3, Zenon DEF FieldsTyped
<1>5. q \in Nat /\ share \in Nat
  BY <1>1, <1>2, ShareTypes, Zenon
<1>6. u <= ds /\ ds <= n /\ (associated[s] = o => ds <= operatorAsset[o].OperatorShare)
  BY SharesWithin, Zenon
<1>7. UndelegatableShareOf(s, o, reward) = u
  BY Zenon DEF UndelegatableShareOf
<1>8. q # 0 /\ ~(q > u) /\ ~SharesFromTokensFails(n, m)
  BY <1>7, Zenon DEF ValidateUndelegationAmountFails
<1>9. share = u \/ share = q
  BY <1>2, <1>7, Zenon DEF ValidateUndelegationAmount
<1> HIDE DEF ds, u, n, m, q
<1>10. 0 < share /\ share <= u /\ n # 0
  BY <1>4, <1>5, <1>6, <1>8, <1>9
<1>11. ~(ds > n) /\ share <= n /\ ds > 0
  BY <1>4, <1>5, <1>6, <1>10
<1> USE DEF ds, u, n, m
<1>12. ~PreDelegatedAmountFails(s, o)
  BY <1>10, <1>11, Zenon DEF PreDelegatedAmountFails, TokensFromSharesFails
<1>13. Removed(o, share) <= m /\ Removed(o, share) \in Nat
  <2>1. RemovedToken(share, n, m) <= m
    BY <1>4, <1>5, <1>11, RemovedWithinPool, Zenon
  <2> QED
    BY <1>5, <2>1, RemovedType, Zenon DEF Removed
<1>14. ShareIsZero(s, o, share) => <<s, o>> \in stakerList
  <2>1. ds > 0 => <<s, o>> \in stakerList
    BY Zenon DEF LedgerInv, ShareholdersAreListed
  <2> QED
    BY <1>11, <2>1, Zenon
<1>15. /\ ~(share <= 0) /\ ~(share > n) /\ ~(Removed(o, share) > m) /\ ~(share > u)
       /\ ~(associated[s] = o /\ share > operatorAsset[o].OperatorShare)
  <2> DEFINE t == Removed(o, share)
  <2>1. t <= m /\ t \in Nat
    BY <1>13, Zenon
  <2> HIDE DEF t, n, m, ds, u
  <2>2. /\ ~(share <= 0) /\ ~(share > n) /\ ~(t > m) /\ ~(share > u)
        /\ ~(associated[s] = o /\ share > operatorAsset[o].OperatorShare)
    BY <1>4, <1>5, <1>6, <1>10, <1>11, <2>1
  <2> QED
    BY <2>2, Zenon DEF t, n, m, u
<1>16. ~RemoveShareFails(s, o, share, reward)
  BY <1>7, <1>14, <1>15, Zenon DEF RemoveShareFails
<1> QED
  BY <1>2, <1>12, <1>16, Zenon

\* Where no rewards are delegated, an undelegation that ValidateUndelegationAmount
\* accepts is refused by no later check of UndelegateFrom, whatever was
\* delegated, slashed and associated before.
THEOREM LeavingAlwaysSucceeds ==
  ASSUME RewardDelegation = FALSE
  PROVE  Spec => []LeavingSucceeds
<1> DEFINE I == RecordInv /\ LedgerInv /\ SelfInv
<1>1. Init => I
  BY RecordInit, LedgerInit, SelfInit, Zenon
<1>2. I /\ [Next]_vars => I'
  BY EveryStep, LedgerKept, SelfKept, Zenon
<1>3. I => LeavingSucceeds
  BY LeavingPossible, Zenon DEF RecordInv
<1> QED
  BY <1>1, <1>2, <1>3, PTL DEF Spec

\* The pending amounts of an operator, a staker and a delegation, kept in three
\* stores, are at all times the sums of the records they stand for, so that a
\* completion never lacks a pending amount to take its own from
\* (UndelegateFrom, SlashAssets, UpdateNSTBalance, EndBlock).
THEOREM PendingExact == Spec => []PendingMatchesRecords
<1>1. Init => RecordInv /\ PendingMatchesRecords
  BY RecordInit, PendingInit, Zenon
<1>2. RecordInv /\ PendingMatchesRecords /\ [Next]_vars => RecordInv' /\ PendingMatchesRecords'
  BY EveryStep, PendingKept, Zenon
<1> QED
  BY <1>1, <1>2, PTL DEF Spec

\* A record pays between nothing and its amount at all times, if the penalty of
\* an instant undelegation is below 100 per cent, which Params.Validate does not
\* require: the penalty is taken of the amount requested, and rounding may leave
\* one token less than that to take it from (UndelegateFrom, SlashAssets,
\* UpdateNSTBalance).
THEOREM ActualBounded ==
  ASSUME InstantUndelegationPenalty < 100
  PROVE  Spec => []ActualWithinAmount
<1>1. Init => RecordInv /\ PaidInv
  BY RecordInit, PaidInit, Zenon
<1>2. RecordInv /\ PaidInv /\ [Next]_vars => RecordInv' /\ PaidInv'
  BY EveryStep, PaidKept, Zenon
<1>3. PaidInv => ActualWithinAmount
  BY Zenon DEF PaidInv
<1> QED
  BY <1>1, <1>2, <1>3, PTL DEF Spec

\* A pool never has more tokens than shares, counted in units of 1/Precision,
\* whatever the parameters: each of its tokens is worth a share, so that the
\* share ValidateUndelegationAmount asks for an amount never rounds to zero
\* (CalculateShare, RemoveShareFromOperator, SlashAssets).
THEOREM BackedPools == Spec => []PoolsBacked
<1>1. Init => RecordInv /\ PoolsBacked
  BY RecordInit, PaidInit, Zenon DEF PaidInv
<1>2. RecordInv /\ PoolsBacked /\ [Next]_vars => RecordInv' /\ PoolsBacked'
  BY EveryStep, Zenon DEF LedgerStep, BackingKept
<1> QED
  BY <1>1, <1>2, PTL DEF Spec
-----------------------------------------------------------------------------
(***************************************************************************)
(* Completion.                                                             *)
(***************************************************************************)

\* Transactions and releases happen between blocks.
LEMMA DeliverySteps ==
  ASSUME Transaction \/ Release PROVE phase' = "deliver"
<1>1. ASSUME NEW s \in Stakers, NEW x \in Amounts, Deposit(s, x) \/ Withdraw(s, x)
      PROVE  phase' = "deliver"
  BY <1>1, Zenon DEF Deposit, Withdraw, Deliver
<1>2. ASSUME NEW s \in Stakers, NEW x \in Amounts, DecreaseNSTBalance(s, x) PROVE phase' = "deliver"
  BY <1>2, ZenonT(30) DEF DecreaseNSTBalance, Deliver
<1>3. ASSUME NEW s \in Stakers, NEW o \in Operators, NEW x \in Amounts,
             NEW reward \in {FALSE, RewardDelegation}, DelegateTo(s, o, x, reward)
      PROVE  phase' = "deliver"
  BY <1>3, ZenonT(30) DEF DelegateTo, Deliver
<1>4. ASSUME NEW s \in Stakers, NEW o \in Operators, NEW x \in Amounts,
             NEW reward \in {FALSE, RewardDelegation}, NEW instant \in BOOLEAN,
             UndelegateFrom(s, o, x, reward, instant)
      PROVE  phase' = "deliver"
  BY <1>4, ZenonT(30) DEF UndelegateFrom, Deliver
<1>5. ASSUME NEW s \in Stakers, NEW o \in Operators, AssociateOperatorWithStaker(s, o)
      PROVE  phase' = "deliver"
  BY <1>5, Zenon DEF AssociateOperatorWithStaker, Deliver
<1>6. ASSUME NEW s \in Stakers, DissociateOperatorFromStaker(s) PROVE phase' = "deliver"
  BY <1>6, Zenon DEF DissociateOperatorFromStaker, Deliver
<1>7. ASSUME NEW o \in Operators, NEW proportion \in Proportions, NEW v \in 1 .. height, NEW h \in 1 .. height,
             SlashAssets(o, proportion, v, h)
      PROVE  phase' = "deliver"
  BY <1>7, ZenonT(30) DEF SlashAssets, Deliver
<1>8. ASSUME NEW i \in Ids, IncrementUndelegationHoldCount(i) \/ DecrementUndelegationHoldCount(i)
      PROVE  phase' = "deliver"
  BY <1>8, Zenon DEF IncrementUndelegationHoldCount, DecrementUndelegationHoldCount, Deliver
<1> QED
  BY <1>1, <1>2, <1>3, <1>4, <1>5, <1>6, <1>7, <1>8, Zenon DEF Transaction, Release, IncreaseNSTBalance

\* The work list of EndBlock stays due while it is worked off.
LEMMA DueNext ==
  ASSUME RecordInv, DueTodo, [Next]_vars PROVE DueTodo'
<1>1. ASSUME phase' = "deliver" PROVE DueTodo'
  BY <1>1 DEF DueTodo
<1>2. CASE EndBlock
  BY <1>2, Zenon DEF EndBlock, GetCompletableUndelegations, Completable, DueTodo
<1>3. ASSUME NEW i \in Ids, CompleteUndelegation(i) \/ SkipUndelegation(i) PROVE DueTodo'
  <2>1. todo' = todo \ {i} /\ phase = "complete" /\ epoch' = epoch
    BY <1>3, Zenon DEF CompleteUndelegation, SkipUndelegation, Handle
  <2>2. todo \subseteq Ids
    BY Zenon DEF RecordInv, TypeOK
  <2>3. \A j \in Ids : j # i => undelegation'[j] = undelegation[j]
    <3>1. CASE CompleteUndelegation(i)
      BY <3>1, CompleteEffect, Zenon DEF Completes
    <3>2. CASE SkipUndelegation(i)
      BY <3>2, Zenon DEF SkipUndelegation
    <3> QED
      BY <1>3, <3>1, <3>2, Zenon
  <2> QED
    BY <2>1, <2>2, <2>3, Zenon DEF DueTodo
<1>4. ASSUME NEW epochEnds \in BOOLEAN, BeginBlock(epochEnds) PROVE phase' = "deliver"
  BY <1>4, Zenon DEF BeginBlock
<1>5. CASE UNCHANGED vars
  BY <1>5, Zenon DEF vars, DueTodo
<1> QED
  BY <1>1, <1>2, <1>3, <1>4, <1>5, DeliverySteps, Zenon DEF Next, Block

\* A record leaves the store only when it is due, and its staker alone gets
\* what the slashes left of it (EndBlock of x/delegation).
THEOREM CompletionExact == Spec => CompletionIsDueAndExact
<1>1. Init => RecordInv /\ DueTodo
  <2>1. Init => DueTodo
    BY Zenon DEF Init, DueTodo
  <2> QED
    BY <2>1, RecordInit, Zenon
<1>2. RecordInv /\ DueTodo /\ [Next]_vars => RecordInv' /\ DueTodo'
  BY EveryStep, DueNext, Zenon
<1> DEFINE Due == \A i \in Ids : undelegation[i].live /\ ~undelegation'[i].live =>
                    LET r == undelegation[i] IN
                    /\ phase = "complete" /\ r.epoch < epoch /\ r.hold = 0
                    /\ \A s \in Stakers :
                         Paid(s)' = IF s = r.staker /\ ~r.reward THEN Paid(s) + r.actual ELSE Paid(s)
<1>3. RecordInv /\ DueTodo /\ [Next]_vars => [Due]_vars
  <2> SUFFICES ASSUME RecordInv, DueTodo, [Next]_vars, NEW i \in Ids,
                      undelegation[i].live, ~undelegation'[i].live
               PROVE  LET r == undelegation[i] IN
                      /\ phase = "complete" /\ r.epoch < epoch /\ r.hold = 0
                      /\ \A s \in Stakers :
                           Paid(s)' = IF s = r.staker /\ ~r.reward THEN Paid(s) + r.actual ELSE Paid(s)
    BY Zenon
  <2>1. TypeOK /\ LedgerStep
    BY EveryStep, Zenon
  <2>2. PICK r : r = undelegation[i]
    OBVIOUS
  <2>3. /\ phase = "complete" /\ r.epoch < epoch /\ r.hold = 0
        /\ \A s \in Stakers :
             Paid(s)' = IF s = r.staker /\ ~r.reward THEN Paid(s) + r.actual ELSE Paid(s)
    BY <2>1, <2>2, RecordLeaves, Zenon
  <2> QED
    BY <2>2, <2>3, Zenon
<1> QED
  BY <1>1, <1>2, <1>3, PTL DEF Spec, CompletionIsDueAndExact

\* The ledger implements AssetCustody: tokens reach a staker only by its own
\* deposit or by one of its own undelegations, paid once, entirely, and worth no
\* more than left the pool for it (x/assets, x/delegation, SlashAssets).  As for
\* ActualBounded, the penalty has to be below 100 per cent: at 100 a record may
\* be worth one token less than nothing.
THEOREM CustodyRefined ==
  ASSUME InstantUndelegationPenalty < 100
  PROVE  Spec => CustodyImplemented
<1>1. Init => RecordInv /\ PaidInv /\ Custody!Init
  BY RecordInit, PaidInit, CustodyInit, Zenon DEF RecordInv
<1>2. RecordInv /\ PaidInv /\ [Next]_vars => RecordInv' /\ PaidInv'
  BY EveryStep, PaidKept, Zenon
<1>3. RecordInv /\ PaidInv /\ PaidInv' /\ [Next]_vars => [Custody!Next]_(Custody!vars)
  <2> SUFFICES ASSUME RecordInv, PaidInv, PaidInv', [Next]_vars PROVE [Custody!Next]_(Custody!vars)
    OBVIOUS
  <2>1. ActualWithinAmount /\ ActualWithinAmount'
    BY Zenon DEF PaidInv
  <2> QED
    BY <2>1, EveryStep, CustodyKept
<1> QED
  BY <1>1, <1>2, <1>3, PTL DEF Spec, CustodyImplemented, Custody!Spec
=============================================================================
