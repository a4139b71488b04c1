---------------------------- MODULE LedgerProofs ----------------------------
(***************************************************************************)
(* Each kind of step of the ledger preserves each of its invariants, and   *)
(* is a step of AssetCustody: for every set of stakers and operators and   *)
(* every amount.                                                           *)
(***************************************************************************)
EXTENDS LedgerSteps, ArithmeticProofs

\* There are finitely many record ids.
LEMMA IdsFinite == IsFiniteSet(Ids)
BY DelegationAssumption, IntervalFinite DEF Ids

\* A live undelegation record has all the fields of UndelegationRecord.
LEMMA RecordFields ==
  ASSUME TypeOK, NEW i \in Ids, undelegation[i].live
  PROVE  undelegation[i] \in UndelegationRecord
BY DEF TypeOK, NoRecord

\* The fields that TypeOK types, one by one.
LEMMA FieldTypes ==
  ASSUME TypeOK
  PROVE  FieldsTyped
<1>1. /\ \A o \in Operators : operatorAsset[o] \in OperatorAssetInfo
      /\ \A s \in Stakers : stakerAsset[s] \in StakerAssetInfo /\ bank[s] \in Nat
      /\ \A s \in Stakers, o \in Operators : delegation[s][o] \in DelegationAmounts
  BY DEF TypeOK
<1>2. \A p \in OperatorAssetInfo : /\ p.TotalAmount \in Nat /\ p.TotalShare \in Nat
                                   /\ p.OperatorShare \in Nat /\ p.PendingUndelegationAmount \in Nat
  BY DEF OperatorAssetInfo
<1>3. \A a \in StakerAssetInfo : /\ a.TotalDepositAmount \in Nat /\ a.WithdrawableAmount \in Nat
                                 /\ a.PendingUndelegationAmount \in Nat
  BY DEF StakerAssetInfo
<1>4. \A d \in DelegationAmounts :
        /\ d.UndelegatableShare \in Nat /\ d.RewardUndelegatableShare \in Nat
        /\ d.PendingUndelegationAmount \in Nat /\ d.RewardPendingUndelegationAmount \in Nat
  BY DEF DelegationAmounts
<1>5. /\ \A o \in Operators :
           /\ operatorAsset[o].TotalAmount \in Nat /\ operatorAsset[o].TotalShare \in Nat
           /\ operatorAsset[o].OperatorShare \in Nat
           /\ operatorAsset[o].PendingUndelegationAmount \in Nat
      /\ \A s \in Stakers :
           /\ stakerAsset[s].TotalDepositAmount \in Nat /\ stakerAsset[s].WithdrawableAmount \in Nat
           /\ stakerAsset[s].PendingUndelegationAmount \in Nat
  BY <1>1, <1>2, <1>3, Zenon
<1>6. \A s \in Stakers, o \in Operators :
        /\ delegation[s][o].UndelegatableShare \in Nat
        /\ delegation[s][o].RewardUndelegatableShare \in Nat
        /\ delegation[s][o].PendingUndelegationAmount \in Nat
        /\ delegation[s][o].RewardPendingUndelegationAmount \in Nat
  BY <1>1, <1>4, Zenon
<1>7. \A s \in Stakers, o \in Operators :
        DelegatableShare(s, o) \in Nat /\ \A reward : PendingOf(s, o, reward) \in Nat
  BY <1>6, SMTT(30) DEF DelegatableShare, PendingOf
<1> QED
  BY <1>1, <1>5, <1>6, <1>7 DEF FieldsTyped

\* The same after a step.
LEMMA FieldTypesNext == TypeOK' => FieldsTyped'
BY FieldTypes, PTL

-----------------------------------------------------------------------------
(***************************************************************************)
(* The shares of pools and stakers.                                        *)
(***************************************************************************)
\* Genesis: no pool and no staker has a share.
LEMMA LedgerInit == Init => LedgerInv
<1> SUFFICES ASSUME Init PROVE LedgerInv
  OBVIOUS
<1>2. \A s \in Stakers, o \in Operators : DelegatableShare(s, o) = 0
  BY DEF Init, DelegatableShare
<1>3. ShareholdersAreListed
  BY <1>2 DEF ShareholdersAreListed
<1>4. ASSUME NEW o \in Operators
      PROVE  operatorAsset[o].TotalShare = Sum([s \in Stakers |-> DelegatableShare(s, o)])
  <2> DEFINE f == [s \in Stakers |-> DelegatableShare(s, o)]
  <2>1. f \in [Stakers -> Int] /\ \A x \in Stakers : f[x] = 0
    BY <1>2
  <2>2. IsFiniteSet(Stakers)
    BY DelegationAssumption
  <2> HIDE DEF f
  <2>3. Sum(f) = 0
    BY <2>1, <2>2, SumZero
  <2>4. operatorAsset[o].TotalShare = 0
    BY DEF Init
  <2> QED BY <2>3, <2>4 DEF f
<1> QED BY <1>3, <1>4 DEF LedgerInv, SharesMatchPool

\* Every step keeps pools and stakers equal, and shareholders listed.
LEMMA LedgerKept ==
  ASSUME TypeOK, TypeOK', LedgerInv, LedgerStep
  PROVE  LedgerInv'
<1>1. FieldsTyped /\ FieldsTyped'
  BY FieldTypes, FieldTypesNext
<1>2. ASSUME \A o \in Operators : SharesMove(o)
      PROVE  SharesMatchPool'
  <2> SUFFICES ASSUME NEW o \in Operators
               PROVE  operatorAsset'[o].TotalShare = Sum([s \in Stakers |-> DelegatableShare(s, o)'])
    BY DEF SharesMatchPool
  <2> DEFINE f == [s \in Stakers |-> DelegatableShare(s, o)]
             h == [s \in Stakers |-> DelegatableShare(s, o)']
             n == operatorAsset[o].TotalShare
             m == operatorAsset'[o].TotalShare
  <2>1. IsFiniteSet(Stakers)
    BY DelegationAssumption
  <2>2. f \in [Stakers -> Int] /\ h \in [Stakers -> Int]
    BY <1>1 DEF FieldsTyped
  <2>3. n = Sum(f)
    BY DEF LedgerInv, SharesMatchPool
  <2>4. n \in Int /\ m \in Int
    BY <1>1 DEF FieldsTyped
  <2>5. CASE m = n /\ \A t \in Stakers : DelegatableShare(t, o)' = DelegatableShare(t, o)
    <3>1. h = f
      BY <2>5
    <3> QED BY <3>1, <2>3, <2>5
  <2>6. CASE \E s \in Stakers :
               /\ m - n = DelegatableShare(s, o)' - DelegatableShare(s, o)
               /\ \A t \in Stakers : t # s => DelegatableShare(t, o)' = DelegatableShare(t, o)
    <3>1. PICK s \in Stakers :
               /\ m - n = DelegatableShare(s, o)' - DelegatableShare(s, o)
               /\ \A t \in Stakers : t # s => DelegatableShare(t, o)' = DelegatableShare(t, o)
      BY <2>6
    <3>2. m - n = h[s] - f[s] /\ \A y \in Stakers : y # s => h[y] = f[y]
      BY <3>1
    <3>3. h[s] \in Int /\ f[s] \in Int /\ Sum(f) \in Int
      BY <2>1, <2>2, SumType
    <3> HIDE DEF f, h, m, n
    <3>4. Sum(h) = Sum(f) + h[s] - f[s]
      BY <2>1, <2>2, <3>2, SumChange
    <3>5. m = Sum(h)
      BY <2>3, <2>4, <3>2, <3>3, <3>4
    <3> QED BY <3>5 DEF h, m
  <2>7. CASE m = 0 /\ \A t \in Stakers : DelegatableShare(t, o)' = 0
    <3>1. \A x \in Stakers : h[x] = 0
      BY <2>7
    <3> HIDE DEF h
    <3>2. Sum(h) = 0
      BY <2>1, <2>2, <3>1, SumZero
    <3> QED BY <2>7, <3>2 DEF h
  <2> QED
    BY <1>2, <2>5, <2>6, <2>7 DEF SharesMove
<1>3. ASSUME \A s \in Stakers, o \in Operators :
               DelegatableShare(s, o)' <= DelegatableShare(s, o) \/ <<s, o>> \in stakerList'
      PROVE  ShareholdersAreListed'
  <2> SUFFICES ASSUME NEW s \in Stakers, NEW o \in Operators, DelegatableShare(s, o)' > 0,
                      <<s, o>> \notin stakerList'
               PROVE  FALSE
    BY DEF ShareholdersAreListed
  <2>1. DelegatableShare(s, o) > 0
    BY <1>1, <1>3 DEF FieldsTyped
  <2> QED BY <2>1 DEF LedgerInv, ShareholdersAreListed, LedgerStep, ListKept
<1>4. ASSUME \A o \in Operators : operatorAsset'[o].TotalShare = operatorAsset[o].TotalShare,
             \A s \in Stakers, o \in Operators : DelegatableShare(s, o)' = DelegatableShare(s, o)
      PROVE  LedgerInv'
  <2>1. SharesMatchPool'
    BY <1>2, <1>4 DEF SharesMove
  <2>2. ShareholdersAreListed'
    BY <1>1, <1>3, <1>4 DEF FieldsTyped
  <2> QED BY <2>1, <2>2 DEF LedgerInv
<1>5. CASE Holds
  BY <1>4, <1>5 DEF Holds, DelegatableShare
<1>6. ASSUME NEW s \in Stakers, Deposits(s) \/ Associates(s)
      PROVE  LedgerInv'
  BY <1>4, <1>6 DEF Deposits, Associates, DelegatableShare
<1>7. ASSUME NEW s \in Stakers, NEW o \in Operators, NEW x \in Nat, NEW reward \in BOOLEAN,
             NEW share \in Nat, Delegates(s, o, x, reward, share)
      PROVE  LedgerInv'
  <2>1. /\ \A p \in Operators :
             operatorAsset'[p].TotalShare = operatorAsset[p].TotalShare + (IF p = o THEN share ELSE 0)
        /\ \A t \in Stakers, p \in Operators : DelegatableShare(t, p)' =
             DelegatableShare(t, p) + (IF t = s /\ p = o THEN share ELSE 0)
        /\ <<s, o>> \in stakerList'
    BY <1>7 DEF Delegates
  <2>2. \A p \in Operators : SharesMove(p)
    BY <1>1, <2>1 DEF SharesMove, FieldsTyped
  <2>3. \A t \in Stakers, p \in Operators :
          DelegatableShare(t, p)' <= DelegatableShare(t, p) \/ <<t, p>> \in stakerList'
    BY <1>1, <2>1 DEF FieldsTyped
  <2> QED BY <1>2, <1>3, <2>2, <2>3 DEF LedgerInv
<1>8. ASSUME NEW s \in Stakers, NEW o \in Operators, NEW reward \in BOOLEAN, NEW share \in Nat,
             NEW removed \in Nat, Undelegates(s, o, reward, share, removed)
      PROVE  LedgerInv'
  <2>1. /\ \A p \in Operators :
             operatorAsset'[p].TotalShare = operatorAsset[p].TotalShare - (IF p = o THEN share ELSE 0)
        /\ \A t \in Stakers, p \in Operators : DelegatableShare(t, p)' =
             DelegatableShare(t, p) - (IF t = s /\ p = o THEN share ELSE 0)
    BY <1>8, Zenon DEF Undelegates
  <2>2. \A p \in Operators : SharesMove(p)
    BY <1>1, <2>1 DEF SharesMove, FieldsTyped
  <2>3. \A t \in Stakers, p \in Operators : DelegatableShare(t, p)' <= DelegatableShare(t, p)
    BY <1>1, <2>1 DEF FieldsTyped
  <2> QED BY <1>2, <1>3, <2>2, <2>3 DEF LedgerInv
<1>9. ASSUME NEW s \in Stakers, NEW d \in [Operators -> Nat], NEW w \in Nat, Decreases(s, d, w)
      PROVE  LedgerInv'
  <2>1. \A p \in Operators :
          /\ d[p] \in Nat /\ operatorAsset'[p].TotalShare = operatorAsset[p].TotalShare - d[p]
          /\ \A t \in Stakers : DelegatableShare(t, p)' =
               DelegatableShare(t, p) - (IF t = s THEN d[p] ELSE 0)
    BY <1>9 DEF Decreases
  <2>2. \A p \in Operators : SharesMove(p)
    BY <1>1, <2>1 DEF SharesMove, FieldsTyped
  <2>3. \A t \in Stakers, p \in Operators : DelegatableShare(t, p)' <= DelegatableShare(t, p)
    BY <1>1, <2>1 DEF FieldsTyped
  <2> QED BY <1>2, <1>3, <2>2, <2>3 DEF LedgerInv
<1>10. ASSUME NEW o \in Operators, Slashes(o)
       PROVE  LedgerInv'
  <2>1. PICK wipe \in BOOLEAN :
          /\ \A p \in Operators : operatorAsset'[p].TotalShare =
               IF wipe /\ p = o THEN 0 ELSE operatorAsset[p].TotalShare
          /\ \A t \in Stakers, p \in Operators : DelegatableShare(t, p)' =
               IF wipe /\ p = o /\ <<t, p>> \in stakerList THEN 0 ELSE DelegatableShare(t, p)
    BY <1>10, SMT DEF Slashes
  <2>2. \A t \in Stakers, p \in Operators :
          DelegatableShare(t, p)' = IF wipe /\ p = o THEN 0 ELSE DelegatableShare(t, p)
    <3>1. \A n \in Nat : n > 0 \/ n = 0
      OBVIOUS
    <3>2. \A t \in Stakers, p \in Operators : <<t, p>> \in stakerList \/ DelegatableShare(t, p) = 0
      BY <1>1, <3>1, Zenon DEF FieldsTyped, LedgerInv, ShareholdersAreListed
    <3> QED BY <2>1, <3>2, Zenon
  <2>3. \A p \in Operators : SharesMove(p)
    BY <2>1, <2>2, Zenon DEF SharesMove
  <2>4. \A t \in Stakers, p \in Operators : DelegatableShare(t, p)' <= DelegatableShare(t, p)
    BY <1>1, <2>2 DEF FieldsTyped
  <2> QED BY <1>2, <1>3, <2>3, <2>4 DEF LedgerInv
<1>11. ASSUME NEW i \in Ids, NEW r \in UndelegationRecord, Completes(i, r)
       PROVE  LedgerInv'
  BY <1>4, <1>11 DEF Completes
<1> QED
  BY <1>5, <1>6, <1>7, <1>8, <1>9, <1>10, <1>11, Zenon DEF LedgerStep
-----------------------------------------------------------------------------
(***************************************************************************)
(* The operator's own share, where no rewards are delegated: associating a *)
(* staker counts its staked share only, delegating and undelegating        *)
(* rewards moves the own share too.                                        *)
(***************************************************************************)
\* Genesis: nobody is associated and nobody has a share.
LEMMA SelfInit == Init => SelfInv
<1> SUFFICES ASSUME Init PROVE SelfInv
  OBVIOUS
<1>1. \A s \in Stakers, o \in Operators :
        delegation[s][o].RewardUndelegatableShare = 0 /\ delegation[s][o].UndelegatableShare = 0
  BY DEF Init
<1>2. \A s \in Stakers, o \in Operators : DelegatableShare(s, o) = 0
  BY <1>1 DEF DelegatableShare
<1>3. NoRewardShares /\ NativeAssociation
  BY <1>1, <1>2 DEF Init, NoRewardShares, NativeAssociation
<1>4. ASSUME NEW p \in Operators
      PROVE  operatorAsset[p].OperatorShare = Sum([t \in Stakers |-> SelfShare(t, p)])
  <2> DEFINE f == [t \in Stakers |-> SelfShare(t, p)]
  <2>1. f \in [Stakers -> Int] /\ \A t \in Stakers : f[t] = 0
    BY <1>2 DEF SelfShare
  <2> HIDE DEF f
  <2>2. Sum(f) = 0
    BY <2>1, SumZero, DelegationAssumption
  <2>3. operatorAsset[p].OperatorShare = Sum(f)
    BY <2>2 DEF Init
  <2> QED
    BY <2>3 DEF f
<1> QED
  BY <1>3, <1>4 DEF SelfInv, OperatorShareIsSelfDelegation

\* Every step moves an operator's own share by as much as the shares of its
\* associated stakers.
LEMMA SelfKept ==
  ASSUME RewardDelegation = FALSE, TypeOK, TypeOK', LedgerInv, SelfInv, LedgerStep
  PROVE  SelfInv'
<1>1. FieldsTyped /\ FieldsTyped'
  BY FieldTypes, FieldTypesNext
<1>2. associated \in [Stakers -> Operators \cup {None}] /\ None \notin Operators
  BY DelegationAssumption DEF TypeOK, None
<1>3. /\ \A s \in Stakers, o \in Operators :
           /\ DelegatableShare(s, o) \in Nat /\ DelegatableShare(s, o)' \in Nat
           /\ SelfShare(s, o) \in Nat /\ SelfShare(s, o)' \in Nat
      /\ \A o \in Operators : operatorAsset[o].OperatorShare \in Nat
  BY <1>1, Zenon DEF FieldsTyped, SelfShare
<1>4. ASSUME NEW s \in Stakers,
             \A t \in Stakers, p \in Operators : t # s => SelfShare(t, p)' = SelfShare(t, p),
             \A p \in Operators :
               operatorAsset'[p].OperatorShare = operatorAsset[p].OperatorShare
                                                 + SelfShare(s, p)' - SelfShare(s, p)
      PROVE  OperatorShareIsSelfDelegation'
  <2> SUFFICES ASSUME NEW p \in Operators
               PROVE  operatorAsset'[p].OperatorShare = Sum([t \in Stakers |-> SelfShare(t, p)'])
    BY DEF OperatorShareIsSelfDelegation
  <2> DEFINE f == [t \in Stakers |-> SelfShare(t, p)]
             h == [t \in Stakers |-> SelfShare(t, p)']
  <2>1. f \in [Stakers -> Int] /\ h \in [Stakers -> Int]
    BY <1>3
  <2>2. \A t \in Stakers : t # s => h[t] = f[t]
    BY <1>4
  <2>3. h[s] = SelfShare(s, p)' /\ f[s] = SelfShare(s, p)
    OBVIOUS
  <2>4. operatorAsset[p].OperatorShare = Sum(f)
    BY DEF SelfInv, OperatorShareIsSelfDelegation
  <2> HIDE DEF f, h
  <2>5. IsFiniteSet(Stakers)
    BY DelegationAssumption
  <2>6. Sum(h) = Sum(f) + h[s] - f[s]
    BY <2>1, <2>2, <2>5, SumChange
  <2>7. operatorAsset'[p].OperatorShare = Sum(h)
    BY <1>4, <2>3, <2>4, <2>6
  <2> QED
    BY <2>7 DEF h
<1>5. ASSUME UNCHANGED associated,
             \A p \in Operators : operatorAsset'[p].OperatorShare = operatorAsset[p].OperatorShare,
             \A t \in Stakers, p \in Operators :
               /\ delegation'[t][p].RewardUndelegatableShare = delegation[t][p].RewardUndelegatableShare
               /\ DelegatableShare(t, p)' = DelegatableShare(t, p)
      PROVE  SelfInv'
  <2>1. NoRewardShares' /\ NativeAssociation'
    BY <1>5 DEF SelfInv, NoRewardShares, NativeAssociation
  <2>2. \A t \in Stakers, p \in Operators : SelfShare(t, p)' = SelfShare(t, p)
    BY <1>5 DEF SelfShare
  <2>3. ASSUME NEW p \in Operators
        PROVE  operatorAsset'[p].OperatorShare = Sum([t \in Stakers |-> SelfShare(t, p)'])
    <3>1. [t \in Stakers |-> SelfShare(t, p)'] = [t \in Stakers |-> SelfShare(t, p)]
      BY <2>2
    <3>2. operatorAsset[p].OperatorShare = Sum([t \in Stakers |-> SelfShare(t, p)])
      BY Zenon DEF SelfInv, OperatorShareIsSelfDelegation
    <3>3. operatorAsset'[p].OperatorShare = operatorAsset[p].OperatorShare
      BY <1>5
    <3> QED
      BY <3>1, <3>2, <3>3, Zenon
  <2>4. OperatorShareIsSelfDelegation'
    BY <2>3, Zenon DEF OperatorShareIsSelfDelegation
  <2> QED
    BY <2>1, <2>4 DEF SelfInv
<1>6. CASE Holds
  BY <1>5, <1>6 DEF Holds, DelegatableShare
<1>7. ASSUME NEW s \in Stakers, Deposits(s)
      PROVE  SelfInv'
  BY <1>5, <1>7 DEF Deposits, DelegatableShare
<1>8. ASSUME NEW s \in Stakers, Associates(s)
      PROVE  SelfInv'
  <2>1. /\ ~Native /\ UNCHANGED delegation
        /\ \A t \in Stakers : t # s => associated'[t] = associated[t]
        /\ \A p \in Operators : operatorAsset'[p].OperatorShare = operatorAsset[p].OperatorShare
             + (IF associated'[s] = p THEN delegation[s][p].UndelegatableShare ELSE 0)
             - (IF associated[s] = p THEN delegation[s][p].UndelegatableShare ELSE 0)
    BY <1>8 DEF Associates
  <2>2. NoRewardShares' /\ NativeAssociation'
    BY <2>1, Zenon DEF SelfInv, NoRewardShares, NativeAssociation
  <2>3. \A t \in Stakers, p \in Operators :
          /\ DelegatableShare(t, p)' = DelegatableShare(t, p)
          /\ DelegatableShare(t, p) = delegation[t][p].UndelegatableShare
    BY <1>1, <2>1 DEF DelegatableShare, SelfInv, NoRewardShares, FieldsTyped
  <2>4. \A p \in Operators : operatorAsset'[p].OperatorShare = operatorAsset[p].OperatorShare
                                                               + SelfShare(s, p)' - SelfShare(s, p)
    BY <1>3, <2>1, <2>3 DEF SelfShare
  <2>5. \A t \in Stakers, p \in Operators : t # s => SelfShare(t, p)' = SelfShare(t, p)
    BY <2>1, <2>3 DEF SelfShare
  <2> QED
    BY <1>4, <2>2, <2>4, <2>5 DEF SelfInv
<1>9. ASSUME NEW s \in Stakers, NEW o \in Operators, NEW x \in Nat, NEW reward \in BOOLEAN,
             NEW share \in Nat, Delegates(s, o, x, reward, share)
      PROVE  SelfInv'
  <2>1. /\ \A p \in Operators : operatorAsset'[p].OperatorShare = operatorAsset[p].OperatorShare
             + (IF p = o /\ associated'[s] = o THEN share ELSE 0)
        /\ \A t \in Stakers, p \in Operators :
             /\ delegation'[t][p].RewardUndelegatableShare = delegation[t][p].RewardUndelegatableShare
                  + (IF t = s /\ p = o /\ reward THEN share ELSE 0)
             /\ DelegatableShare(t, p)' = DelegatableShare(t, p) + (IF t = s /\ p = o THEN share ELSE 0)
        /\ \A t \in Stakers :
             associated'[t] = IF t = s /\ Native /\ ~reward /\ s = o THEN o ELSE associated[t]
        /\ ~reward
    BY <1>9, Zenon DEF Delegates
  <2>2. NoRewardShares'
    BY <2>1 DEF SelfInv, NoRewardShares
  <2>3. ASSUME Native, NEW t \in Stakers
        PROVE  /\ associated[t] \in {None, t}
               /\ t \in Operators /\ associated[t] = None => DelegatableShare(t, t) = 0
    BY <2>3 DEF SelfInv, NativeAssociation
  <2>4. NativeAssociation'
    <3> SUFFICES ASSUME Native, NEW t \in Stakers
                 PROVE  /\ associated'[t] \in {None, t}
                        /\ t \in Operators /\ associated'[t] = None => DelegatableShare(t, t)' = 0
      BY DEF NativeAssociation
    <3>1. CASE t = s
      BY <1>2, <1>3, <2>1, <2>3, <3>1
    <3>2. CASE t # s
      BY <1>3, <2>1, <2>3, <3>2
    <3> QED
      BY <3>1, <3>2
  <2>5. \A t \in Stakers, p \in Operators : t # s => SelfShare(t, p)' = SelfShare(t, p)
    BY <1>3, <2>1 DEF SelfShare
  <2>6. \A p \in Operators : operatorAsset'[p].OperatorShare = operatorAsset[p].OperatorShare
                                                               + SelfShare(s, p)' - SelfShare(s, p)
    <3>1. CASE associated'[s] = associated[s]
      BY <1>3, <2>1, <3>1 DEF SelfShare
    <3>2. CASE associated'[s] # associated[s]
      <4>1. s = o /\ associated'[s] = o /\ associated[s] = None /\ DelegatableShare(s, o) = 0
        BY <2>1, <2>3, <3>2
      <4> QED
        BY <1>2, <1>3, <2>1, <4>1 DEF SelfShare
    <3> QED
      BY <3>1, <3>2
  <2> QED
    BY <1>4, <2>2, <2>4, <2>5, <2>6, Zenon DEF SelfInv
<1>10. ASSUME NEW s \in Stakers, NEW o \in Operators, NEW reward \in BOOLEAN, NEW share \in Nat,
              NEW removed \in Nat, Undelegates(s, o, reward, share, removed)
       PROVE  SelfInv'
  <2>1. /\ \A p \in Operators : operatorAsset'[p].OperatorShare = operatorAsset[p].OperatorShare
             - (IF p = o /\ associated[s] = o THEN share ELSE 0)
        /\ \A t \in Stakers, p \in Operators :
             /\ delegation'[t][p].RewardUndelegatableShare = delegation[t][p].RewardUndelegatableShare
                  - (IF t = s /\ p = o /\ reward THEN share ELSE 0)
             /\ DelegatableShare(t, p)' = DelegatableShare(t, p) - (IF t = s /\ p = o THEN share ELSE 0)
        /\ UNCHANGED associated /\ ~reward
    BY <1>10, Zenon DEF Undelegates
  <2>2. NoRewardShares'
    BY <2>1 DEF SelfInv, NoRewardShares
  <2>3. NativeAssociation'
    BY <1>3, <2>1 DEF SelfInv, NativeAssociation
  <2>4. \A t \in Stakers, p \in Operators : t # s => SelfShare(t, p)' = SelfShare(t, p)
    BY <1>3, <2>1 DEF SelfShare
  <2>5. \A p \in Operators : operatorAsset'[p].OperatorShare = operatorAsset[p].OperatorShare
                                                               + SelfShare(s, p)' - SelfShare(s, p)
    BY <1>3, <2>1 DEF SelfShare
  <2> QED
    BY <1>4, <2>2, <2>3, <2>4, <2>5, Zenon DEF SelfInv
<1>11. ASSUME NEW s \in Stakers, NEW d \in [Operators -> Nat], NEW w \in Nat, Decreases(s, d, w)
       PROVE  SelfInv'
  <2>1. /\ ~Native /\ UNCHANGED associated
        /\ \A p \in Operators :
             /\ d[p] \in Nat
             /\ operatorAsset'[p].OperatorShare = operatorAsset[p].OperatorShare
                  - (IF associated[s] = p THEN d[p] ELSE 0)
        /\ \A t \in Stakers, p \in Operators :
             /\ delegation'[t][p].RewardUndelegatableShare = delegation[t][p].RewardUndelegatableShare
             /\ DelegatableShare(t, p)' = DelegatableShare(t, p) - (IF t = s THEN d[p] ELSE 0)
    BY <1>11, Zenon DEF Decreases
  <2>2. NoRewardShares' /\ NativeAssociation'
    BY <2>1 DEF SelfInv, NoRewardShares, NativeAssociation
  <2>3. \A t \in Stakers, p \in Operators : t # s => SelfShare(t, p)' = SelfShare(t, p)
    BY <1>3, <2>1 DEF SelfShare
  <2>4. \A p \in Operators : operatorAsset'[p].OperatorShare = operatorAsset[p].OperatorShare
                                                               + SelfShare(s, p)' - SelfShare(s, p)
    BY <1>3, <2>1 DEF SelfShare
  <2> QED
    BY <1>4, <2>2, <2>3, <2>4, Zenon DEF SelfInv
<1>12. ASSUME NEW o \in Operators, Slashes(o)
       PROVE  SelfInv'
  <2>1. UNCHANGED associated
    BY <1>12, Zenon DEF Slashes
  <2>2. PICK wipe \in BOOLEAN :
          /\ \A p \in Operators : operatorAsset'[p].OperatorShare =
               IF wipe /\ p = o THEN 0 ELSE operatorAsset[p].OperatorShare
          /\ \A t \in Stakers, p \in Operators :
               /\ delegation'[t][p].RewardUndelegatableShare =
                    IF wipe /\ p = o /\ <<t, p>> \in stakerList THEN 0
                    ELSE delegation[t][p].RewardUndelegatableShare
               /\ DelegatableShare(t, p)' =
                    IF wipe /\ p = o /\ <<t, p>> \in stakerList THEN 0 ELSE DelegatableShare(t, p)
    BY <1>12, Zenon DEF Slashes
  <2>3. \A t \in Stakers, p \in Operators :
          DelegatableShare(t, p)' = IF wipe /\ p = o THEN 0 ELSE DelegatableShare(t, p)
    <3>1. \A n \in Nat : n > 0 \/ n = 0
      OBVIOUS
    <3>2. \A t \in Stakers, p \in Operators : <<t, p>> \in stakerList \/ DelegatableShare(t, p) = 0
      BY <1>3, <3>1, Zenon DEF LedgerInv, ShareholdersAreListed
    <3> QED BY <2>2, <3>2, Zenon
  <2>4. NoRewardShares'
    BY <2>2, ZenonT(60) DEF SelfInv, NoRewardShares
  <2>5. NativeAssociation'
    BY <2>1, <2>3, ZenonT(60) DEF SelfInv, NativeAssociation
  <2>6. \A t \in Stakers, p \in Operators :
          SelfShare(t, p)' = IF wipe /\ p = o THEN 0 ELSE SelfShare(t, p)
    BY <2>1, <2>3 DEF SelfShare
  <2>7. ASSUME NEW p \in Operators
        PROVE  operatorAsset'[p].OperatorShare = Sum([t \in Stakers |-> SelfShare(t, p)'])
    <3>1. CASE wipe /\ p = o
      <4> DEFINE h == [t \in Stakers |-> SelfShare(t, p)']
      <4>1. h \in [Stakers -> Int] /\ \A t \in Stakers : h[t] = 0
        BY <2>6, <3>1
      <4> HIDE DEF h
      <4>2. Sum(h) = 0
        BY <4>1, SumZero, DelegationAssumption
      <4>3. operatorAsset'[p].OperatorShare = Sum(h)
        BY <2>2, <3>1, <4>2
      <4> QED
        BY <4>3 DEF h
    <3>2. CASE ~(wipe /\ p = o)
      <4>1. [t \in Stakers |-> SelfShare(t, p)'] = [t \in Stakers |-> SelfShare(t, p)]
        BY <2>6, <3>2
      <4>2. operatorAsset[p].OperatorShare = Sum([t \in Stakers |-> SelfShare(t, p)])
        BY DEF SelfInv, OperatorShareIsSelfDelegation
      <4>3. operatorAsset'[p].OperatorShare = operatorAsset[p].OperatorShare
        BY <2>2, <3>2, Zenon
      <4> QED
        BY <4>1, <4>2, <4>3, Zenon
    <3> QED
      BY <3>1, <3>2
  <2> QED
    BY <2>4, <2>5, <2>7, Zenon DEF SelfInv, OperatorShareIsSelfDelegation
<1>13. ASSUME NEW i \in Ids, NEW r \in UndelegationRecord, Completes(i, r)
       PROVE  SelfInv'
  BY <1>5, <1>13, ZenonT(60) DEF Completes
<1> QED
  BY <1>6, <1>7, <1>8, <1>9, <1>10, <1>11, <1>12, <1>13, Zenon DEF LedgerStep

\* What the invariants say of the shares of one delegation.
LEMMA SharesWithin ==
  ASSUME TypeOK, LedgerInv, SelfInv, NEW s \in Stakers, NEW o \in Operators
  PROVE  /\ delegation[s][o].UndelegatableShare <= DelegatableShare(s, o)
         /\ DelegatableShare(s, o) <= operatorAsset[o].TotalShare
         /\ associated[s] = o => DelegatableShare(s, o) <= operatorAsset[o].OperatorShare
<1>1. FieldsTyped
  BY FieldTypes
<1>2. IsFiniteSet(Stakers)
  BY DelegationAssumption
<1>3. delegation[s][o].UndelegatableShare <= DelegatableShare(s, o)
  <2>1. delegation[s][o].UndelegatableShare \in Nat /\ delegation[s][o].RewardUndelegatableShare \in Nat
    BY <1>1, Zenon DEF FieldsTyped
  <2> QED
    BY <2>1 DEF DelegatableShare
<1>4. DelegatableShare(s, o) <= operatorAsset[o].TotalShare
  <2> DEFINE f == [t \in Stakers |-> DelegatableShare(t, o)]
  <2>1. f \in [Stakers -> Nat] /\ f[s] = DelegatableShare(s, o)
    BY <1>1, Zenon DEF FieldsTyped
  <2>2. operatorAsset[o].TotalShare = Sum(f)
    BY DEF LedgerInv, SharesMatchPool
  <2> HIDE DEF f
  <2> QED
    BY <1>2, <2>1, <2>2, SumTerm
<1>5. ASSUME associated[s] = o PROVE DelegatableShare(s, o) <= operatorAsset[o].OperatorShare
  <2> DEFINE f == [t \in Stakers |-> SelfShare(t, o)]
  <2>1. f \in [Stakers -> Nat] /\ f[s] = SelfShare(s, o)
    BY <1>1, Zenon DEF FieldsTyped, SelfShare
  <2>2. operatorAsset[o].OperatorShare = Sum(f)
    BY DEF SelfInv, OperatorShareIsSelfDelegation
  <2>3. SelfShare(s, o) = DelegatableShare(s, o)
    BY <1>5 DEF SelfShare
  <2> HIDE DEF f
  <2> QED
    BY <1>2, <2>1, <2>2, <2>3, SumTerm, Zenon
<1> QED
  BY <1>3, <1>4, <1>5
-----------------------------------------------------------------------------
(***************************************************************************)
(* Pending amounts.                                                        *)
(***************************************************************************)
\* Genesis: there are no records.
LEMMA PendingInit == Init => PendingMatchesRecords
<1> SUFFICES ASSUME Init PROVE PendingMatchesRecords
  OBVIOUS
<1>1. \A i \in Ids : ~undelegation[i].live
  BY DEF Init, NoRecord
<1>2. \A f : f = [i \in Ids |-> 0] => Sum(f) = 0
  BY IdsFinite, SumZero
<1>3. ASSUME NEW s \in Stakers, NEW o \in Operators
      PROVE  \A b \in BOOLEAN : Sum([i \in Ids |-> AmountOf(i, s, o, b)]) = 0
  <2>1. \A b \in BOOLEAN : [i \in Ids |-> AmountOf(i, s, o, b)] = [i \in Ids |-> 0]
    BY <1>1 DEF AmountOf
  <2> QED
    BY <1>2, <2>1, Zenon
<1>4. \A o \in Operators : Sum([i \in Ids |-> OperatorAmountOf(i, o)]) = 0
  <2>1. ASSUME NEW o \in Operators PROVE [i \in Ids |-> OperatorAmountOf(i, o)] = [i \in Ids |-> 0]
    BY <1>1 DEF OperatorAmountOf
  <2> QED
    BY <1>2, <2>1, Zenon
<1>5. \A s \in Stakers : Sum([i \in Ids |-> StakerAmountOf(i, s)]) = 0
  <2>1. ASSUME NEW s \in Stakers PROVE [i \in Ids |-> StakerAmountOf(i, s)] = [i \in Ids |-> 0]
    BY <1>1 DEF StakerAmountOf
  <2> QED
    BY <1>2, <2>1, Zenon
<1>6. \A s \in Stakers, o \in Operators :
        /\ Sum([i \in Ids |-> AmountOf(i, s, o, FALSE)]) = 0
        /\ Sum([i \in Ids |-> AmountOf(i, s, o, TRUE)]) = 0
  BY <1>3, Zenon
<1>7. /\ \A o \in Operators : operatorAsset[o].PendingUndelegationAmount = 0
      /\ \A s \in Stakers : stakerAsset[s].PendingUndelegationAmount = 0
      /\ \A s \in Stakers, o \in Operators :
           /\ delegation[s][o].PendingUndelegationAmount = 0
           /\ delegation[s][o].RewardPendingUndelegationAmount = 0
  BY Zenon DEF Init
<1> QED
  BY <1>4, <1>5, <1>6, <1>7, Zenon DEF PendingMatchesRecords

\* Every step changes the pending amounts by as much as the records.
LEMMA PendingKept ==
  ASSUME TypeOK, TypeOK', PendingMatchesRecords, LedgerStep
  PROVE  PendingMatchesRecords'
<1>1. FieldsTyped
  BY FieldTypes
<1>2. \A i \in Ids : /\ undelegation[i].live => undelegation[i].amount \in Nat
                     /\ undelegation'[i].live => undelegation'[i].amount \in Nat
  <2>1. \A r \in UndelegationRecord : r.amount \in Nat
    BY DEF UndelegationRecord
  <2>2. NoRecord.live = FALSE
    BY DEF NoRecord
  <2> QED
    BY <2>1, <2>2, Zenon DEF TypeOK
<1>3. \A i \in Ids : /\ \A o : OperatorAmountOf(i, o) \in Nat /\ OperatorAmountOf(i, o)' \in Nat
                     /\ \A s : StakerAmountOf(i, s) \in Nat /\ StakerAmountOf(i, s)' \in Nat
                     /\ \A s, o, reward : /\ AmountOf(i, s, o, reward) \in Nat
                                          /\ AmountOf(i, s, o, reward)' \in Nat
  BY <1>2, Zenon DEF OperatorAmountOf, StakerAmountOf, AmountOf
<1>4. ASSUME NEW i \in Ids,
             \A j \in Ids : j # i => undelegation'[j] = undelegation[j],
             \A o \in Operators : operatorAsset'[o].PendingUndelegationAmount =
               operatorAsset[o].PendingUndelegationAmount + OperatorAmountOf(i, o)' - OperatorAmountOf(i, o),
             \A s \in Stakers : ~Native => stakerAsset'[s].PendingUndelegationAmount =
               stakerAsset[s].PendingUndelegationAmount + StakerAmountOf(i, s)' - StakerAmountOf(i, s),
             \A s \in Stakers, o \in Operators, reward \in BOOLEAN :
               PendingOf(s, o, reward)' = PendingOf(s, o, reward)
                                          + AmountOf(i, s, o, reward)' - AmountOf(i, s, o, reward)
      PROVE  PendingMatchesRecords'
  <2>2. ASSUME NEW o \in Operators
        PROVE  operatorAsset'[o].PendingUndelegationAmount = Sum([j \in Ids |-> OperatorAmountOf(j, o)'])
    <3> DEFINE f == [j \in Ids |-> OperatorAmountOf(j, o)]
               h == [j \in Ids |-> OperatorAmountOf(j, o)']
    <3>1. f \in [Ids -> Int] /\ h \in [Ids -> Int]
      BY <1>3
    <3>2. \A j \in Ids : j # i => h[j] = f[j]
      BY <1>4, Zenon DEF OperatorAmountOf
    <3>3. h[i] = OperatorAmountOf(i, o)' /\ f[i] = OperatorAmountOf(i, o)
      OBVIOUS
    <3>4. operatorAsset[o].PendingUndelegationAmount = Sum(f)
      BY Zenon DEF PendingMatchesRecords
    <3> HIDE DEF f, h
    <3>5. Sum(h) = Sum(f) + h[i] - f[i]
      BY <3>1, <3>2, IdsFinite, SumChange
    <3>6. operatorAsset'[o].PendingUndelegationAmount = Sum(h)
      BY <1>4, <3>3, <3>4, <3>5, Zenon
    <3> QED
      BY <3>6 DEF h
  <2>3. ASSUME NEW s \in Stakers, ~Native
        PROVE  stakerAsset'[s].PendingUndelegationAmount = Sum([j \in Ids |-> StakerAmountOf(j, s)'])
    <3> DEFINE f == [j \in Ids |-> StakerAmountOf(j, s)]
               h == [j \in Ids |-> StakerAmountOf(j, s)']
    <3>1. f \in [Ids -> Int] /\ h \in [Ids -> Int]
      BY <1>3
    <3>2. \A j \in Ids : j # i => h[j] = f[j]
      BY <1>4, Zenon DEF StakerAmountOf
    <3>3. h[i] = StakerAmountOf(i, s)' /\ f[i] = StakerAmountOf(i, s)
      OBVIOUS
    <3>4. stakerAsset[s].PendingUndelegationAmount = Sum(f)
      BY <2>3, Zenon DEF PendingMatchesRecords
    <3> HIDE DEF f, h
    <3>5. Sum(h) = Sum(f) + h[i] - f[i]
      BY <3>1, <3>2, IdsFinite, SumChange
    <3>6. stakerAsset'[s].PendingUndelegationAmount = Sum(h)
      BY <1>4, <2>3, <3>3, <3>4, <3>5
    <3> QED
      BY <3>6 DEF h
  <2>4. ASSUME NEW s \in Stakers, NEW o \in Operators, NEW reward \in BOOLEAN
        PROVE  PendingOf(s, o, reward)' = Sum([j \in Ids |-> AmountOf(j, s, o, reward)'])
    <3> DEFINE f == [j \in Ids |-> AmountOf(j, s, o, reward)]
               h == [j \in Ids |-> AmountOf(j, s, o, reward)']
               before == PendingOf(s, o, reward)
               after == PendingOf(s, o, reward)'
    <3>1. f \in [Ids -> Int] /\ h \in [Ids -> Int]
      BY <1>3
    <3>2. \A j \in Ids : j # i => h[j] = f[j]
      BY <1>4, Zenon DEF AmountOf
    <3>3. h[i] = AmountOf(i, s, o, reward)' /\ f[i] = AmountOf(i, s, o, reward)
      OBVIOUS
    <3>4. before = Sum(f)
      BY Zenon DEF PendingMatchesRecords, PendingOf
    <3>5. after = before + AmountOf(i, s, o, reward)' - AmountOf(i, s, o, reward)
      BY <1>4, Zenon
    <3> HIDE DEF f, h, before, after
    <3>6. Sum(h) = Sum(f) + h[i] - f[i]
      BY <3>1, <3>2, IdsFinite, SumChange
    <3>7. after = Sum(h)
      BY <3>3, <3>4, <3>5, <3>6
    <3> QED
      BY <3>7 DEF h, after
  <2>5. \A s \in Stakers, o \in Operators :
          /\ delegation'[s][o].PendingUndelegationAmount = Sum([j \in Ids |-> AmountOf(j, s, o, FALSE)'])
          /\ delegation'[s][o].RewardPendingUndelegationAmount = Sum([j \in Ids |-> AmountOf(j, s, o, TRUE)'])
    BY <2>4, Zenon DEF PendingOf
  <2> QED
    BY <2>2, <2>3, <2>5, Zenon DEF PendingMatchesRecords
<1>5. ASSUME SlashesRecords, PendingsKept PROVE PendingMatchesRecords'
  <2>2. ASSUME NEW i \in Ids
        PROVE  /\ undelegation'[i].live = undelegation[i].live
               /\ undelegation[i].live =>
                    /\ undelegation'[i].staker = undelegation[i].staker
                    /\ undelegation'[i].operator = undelegation[i].operator
                    /\ undelegation'[i].reward = undelegation[i].reward
                    /\ undelegation'[i].amount = undelegation[i].amount
    BY <1>5, Zenon DEF SlashesRecords
  <2>3. \A i \in Ids : /\ \A o : OperatorAmountOf(i, o)' = OperatorAmountOf(i, o)
                       /\ \A s : StakerAmountOf(i, s)' = StakerAmountOf(i, s)
                       /\ \A s, o, reward : AmountOf(i, s, o, reward)' = AmountOf(i, s, o, reward)
    BY <2>2, ZenonT(60) DEF OperatorAmountOf, StakerAmountOf, AmountOf
  <2>4. /\ \A o : [i \in Ids |-> OperatorAmountOf(i, o)'] = [i \in Ids |-> OperatorAmountOf(i, o)]
        /\ \A s : [i \in Ids |-> StakerAmountOf(i, s)'] = [i \in Ids |-> StakerAmountOf(i, s)]
        /\ \A s, o, reward :
             [i \in Ids |-> AmountOf(i, s, o, reward)'] = [i \in Ids |-> AmountOf(i, s, o, reward)]
    BY <2>3, Zenon
  <2>5. \A o \in Operators :
          operatorAsset'[o].PendingUndelegationAmount = Sum([i \in Ids |-> OperatorAmountOf(i, o)'])
    BY <1>5, <2>4, ZenonT(60) DEF PendingMatchesRecords, PendingsKept
  <2>6. \A s \in Stakers : ~Native =>
          stakerAsset'[s].PendingUndelegationAmount = Sum([i \in Ids |-> StakerAmountOf(i, s)'])
    BY <1>5, <2>4, ZenonT(60) DEF PendingMatchesRecords, PendingsKept
  <2>7. \A s \in Stakers, o \in Operators :
          /\ delegation'[s][o].PendingUndelegationAmount = Sum([i \in Ids |-> AmountOf(i, s, o, FALSE)'])
          /\ delegation'[s][o].RewardPendingUndelegationAmount = Sum([i \in Ids |-> AmountOf(i, s, o, TRUE)'])
    <3>1. ASSUME NEW s \in Stakers, NEW o \in Operators, NEW reward \in BOOLEAN
          PROVE  (IF reward THEN delegation'[s][o].RewardPendingUndelegationAmount
                            ELSE delegation'[s][o].PendingUndelegationAmount)
                   = Sum([i \in Ids |-> AmountOf(i, s, o, reward)'])
      <4>1. (IF reward THEN delegation[s][o].RewardPendingUndelegationAmount
                       ELSE delegation[s][o].PendingUndelegationAmount)
              = Sum([i \in Ids |-> AmountOf(i, s, o, reward)])
        <5>1. CASE reward = TRUE
          BY <5>1, Zenon DEF PendingMatchesRecords
        <5>2. CASE reward = FALSE
          BY <5>2, Zenon DEF PendingMatchesRecords
        <5> QED
          BY <5>1, <5>2, Zenon
      <4>2. [i \in Ids |-> AmountOf(i, s, o, reward)'] = [i \in Ids |-> AmountOf(i, s, o, reward)]
        BY <2>4
      <4> QED
        BY <1>5, <4>1, <4>2, Zenon DEF PendingsKept
    <3> QED
      BY <3>1, Zenon
  <2> QED
    BY <2>5, <2>6, <2>7, Zenon DEF PendingMatchesRecords
<1>6. ASSUME UNCHANGED undelegation, PendingsKept PROVE PendingMatchesRecords'
  <2>1. SlashesRecords
    BY <1>6, Zenon DEF SlashesRecords, TypeOK
  <2> QED
    BY <1>5, <1>6, <2>1
<1>7. CASE Holds
  BY <1>5, <1>7, Zenon DEF Holds, PendingsKept
<1>8. ASSUME NEW s \in Stakers, Deposits(s) \/ Associates(s)
      PROVE  PendingMatchesRecords'
  BY <1>6, <1>8, Zenon DEF Deposits, Associates
<1>9. ASSUME NEW s \in Stakers, NEW o \in Operators, NEW x \in Nat, NEW reward \in BOOLEAN,
             NEW share \in Nat, Delegates(s, o, x, reward, share)
      PROVE  PendingMatchesRecords'
  BY <1>6, <1>9, Zenon DEF Delegates
<1>10. ASSUME NEW s \in Stakers, NEW o \in Operators, NEW reward \in BOOLEAN, NEW share \in Nat,
              NEW removed \in Nat, Undelegates(s, o, reward, share, removed)
       PROVE  PendingMatchesRecords'
  <2>1. PICK i \in Ids, r \in UndelegationRecord :
          /\ r.live /\ r.staker = s /\ r.operator = o /\ r.reward = reward /\ r.amount = removed
          /\ undelegation[i] = NoRecord /\ undelegation'[i] = r
          /\ \A j \in Ids : j # i => undelegation'[j] = undelegation[j]
    BY <1>10, Zenon DEF Undelegates, Opens
  <2>2. /\ \A p \in Operators : operatorAsset'[p].PendingUndelegationAmount =
             operatorAsset[p].PendingUndelegationAmount + (IF p = o THEN removed ELSE 0)
        /\ \A t \in Stakers : ~Native => stakerAsset'[t].PendingUndelegationAmount =
             stakerAsset[t].PendingUndelegationAmount + (IF t = s /\ ~reward THEN removed ELSE 0)
        /\ \A t \in Stakers, p \in Operators, b \in BOOLEAN : PendingOf(t, p, b)' = PendingOf(t, p, b)
             + (IF t = s /\ p = o /\ b = reward THEN removed ELSE 0)
    BY <1>10, Zenon DEF Undelegates
  <2>3. ~undelegation[i].live
    BY <2>1 DEF NoRecord
  <2>4. \A p : OperatorAmountOf(i, p) = 0 /\ OperatorAmountOf(i, p)' = IF p = o THEN removed ELSE 0
    BY <2>1, <2>3, Zenon DEF OperatorAmountOf
  <2>5. \A t : /\ StakerAmountOf(i, t) = 0
               /\ StakerAmountOf(i, t)' = IF t = s /\ ~reward THEN removed ELSE 0
    BY <2>1, <2>3, Zenon DEF StakerAmountOf
  <2>6. \A t, p, b : /\ AmountOf(i, t, p, b) = 0
                     /\ AmountOf(i, t, p, b)' = IF t = s /\ p = o /\ b = reward THEN removed ELSE 0
    BY <2>1, <2>3, Zenon DEF AmountOf
  <2>10. removed \in Int /\ 0 \in Int
    OBVIOUS
  <2>11. \A n \in Nat : n \in Int
    OBVIOUS
  <2>7. \A p \in Operators : operatorAsset'[p].PendingUndelegationAmount =
          operatorAsset[p].PendingUndelegationAmount + OperatorAmountOf(i, p)' - OperatorAmountOf(i, p)
    <3> SUFFICES ASSUME NEW p \in Operators
                 PROVE  operatorAsset'[p].PendingUndelegationAmount = operatorAsset[p].PendingUndelegationAmount + OperatorAmountOf(i, p)' - OperatorAmountOf(i, p)
      BY Zenon
    <3> DEFINE x == IF p = o THEN removed ELSE 0
    <3>1. x \in Int
      BY <2>10
    <3>2. operatorAsset[p].PendingUndelegationAmount \in Int
      BY <1>1, <2>11, Zenon DEF FieldsTyped
    <3>3. operatorAsset'[p].PendingUndelegationAmount = operatorAsset[p].PendingUndelegationAmount + x
      BY <2>2, Zenon
    <3>4. OperatorAmountOf(i, p)' = x /\ OperatorAmountOf(i, p) = 0
      BY <2>4, Zenon
    <3> HIDE DEF x
    <3> QED
      BY <3>1, <3>2, <3>3, <3>4
  <2>8. \A t \in Stakers : ~Native => stakerAsset'[t].PendingUndelegationAmount =
          stakerAsset[t].PendingUndelegationAmount + StakerAmountOf(i, t)' - StakerAmountOf(i, t)
    <3> SUFFICES ASSUME NEW t \in Stakers, ~Native
                 PROVE  stakerAsset'[t].PendingUndelegationAmount = stakerAsset[t].PendingUndelegationAmount + StakerAmountOf(i, t)' - StakerAmountOf(i, t)
      BY Zenon
    <3> DEFINE x == IF t = s /\ ~reward THEN removed ELSE 0
    <3>1. x \in Int
      BY <2>10
    <3>2. stakerAsset[t].PendingUndelegationAmount \in Int
      BY <1>1, <2>11, Zenon DEF FieldsTyped
    <3>3. stakerAsset'[t].PendingUndelegationAmount = stakerAsset[t].PendingUndelegationAmount + x
      BY <2>2, Zenon
    <3>4. StakerAmountOf(i, t)' = x /\ StakerAmountOf(i, t) = 0
      BY <2>5, Zenon
    <3> HIDE DEF x
    <3> QED
      BY <3>1, <3>2, <3>3, <3>4
  <2>9. \A t \in Stakers, p \in Operators, b \in BOOLEAN : PendingOf(t, p, b)' =
          PendingOf(t, p, b) + AmountOf(i, t, p, b)' - AmountOf(i, t, p, b)
    <3> SUFFICES ASSUME NEW t \in Stakers, NEW p \in Operators, NEW b \in BOOLEAN
                 PROVE  PendingOf(t, p, b)' = PendingOf(t, p, b) + AmountOf(i, t, p, b)' - AmountOf(i, t, p, b)
      BY Zenon
    <3> DEFINE x == IF t = s /\ p = o /\ b = reward THEN removed ELSE 0
    <3>1. x \in Int
      BY <2>10
    <3>2. PendingOf(t, p, b) \in Int
      BY <1>1, <2>11, Zenon DEF FieldsTyped
    <3>3. PendingOf(t, p, b)' = PendingOf(t, p, b) + x
      BY <2>2, Zenon
    <3>4. AmountOf(i, t, p, b)' = x /\ AmountOf(i, t, p, b) = 0
      BY <2>6, Zenon
    <3> HIDE DEF x
    <3> QED
      BY <3>1, <3>2, <3>3, <3>4
  <2> QED
    BY <1>4, <2>1, <2>7, <2>8, <2>9, Zenon
<1>11. ASSUME NEW s \in Stakers, NEW d \in [Operators -> Nat], NEW w \in Nat, Decreases(s, d, w)
       PROVE  PendingMatchesRecords'
  BY <1>5, <1>11, Zenon DEF Decreases, PaysLess
<1>12. ASSUME NEW o \in Operators, Slashes(o)
       PROVE  PendingMatchesRecords'
  BY <1>5, <1>12, Zenon DEF Slashes, PaysLess
<1>13. ASSUME NEW i \in Ids, NEW r \in UndelegationRecord, Completes(i, r)
       PROVE  PendingMatchesRecords'
  <2>1. /\ undelegation[i] = r
        /\ undelegation'[i] = NoRecord /\ \A j \in Ids : j # i => undelegation'[j] = undelegation[j]
        /\ \A p \in Operators : operatorAsset'[p].PendingUndelegationAmount =
             operatorAsset[p].PendingUndelegationAmount - (IF p = r.operator THEN r.amount ELSE 0)
        /\ \A t \in Stakers : ~Native => stakerAsset'[t].PendingUndelegationAmount =
             stakerAsset[t].PendingUndelegationAmount
             - (IF t = r.staker /\ ~r.reward THEN r.amount ELSE 0)
        /\ \A t \in Stakers, p \in Operators, b \in BOOLEAN : PendingOf(t, p, b)' = PendingOf(t, p, b)
             - (IF t = r.staker /\ p = r.operator /\ b = r.reward THEN r.amount ELSE 0)
    BY <1>13, Zenon DEF Completes
  <2>2. r.live /\ r.amount \in Nat /\ ~undelegation'[i].live
    <3>1. r.live /\ r.amount \in Nat
      BY Zenon DEF UndelegationRecord
    <3>2. NoRecord.live = FALSE
      BY Zenon DEF NoRecord
    <3> QED
      BY <2>1, <3>1, <3>2, Zenon
  <2>3. \A p : /\ OperatorAmountOf(i, p)' = 0
               /\ OperatorAmountOf(i, p) = IF p = r.operator THEN r.amount ELSE 0
    BY <2>1, <2>2, Zenon DEF OperatorAmountOf
  <2>4. \A t : /\ StakerAmountOf(i, t)' = 0
               /\ StakerAmountOf(i, t) = IF t = r.staker /\ ~r.reward THEN r.amount ELSE 0
    BY <2>1, <2>2, Zenon DEF StakerAmountOf
  <2>5. \A t, p, b :
          /\ AmountOf(i, t, p, b)' = 0
          /\ AmountOf(i, t, p, b) = IF t = r.staker /\ p = r.operator /\ b = r.reward THEN r.amount ELSE 0
    BY <2>1, <2>2, Zenon DEF AmountOf
  <2>10. r.amount \in Int /\ 0 \in Int
    BY <2>2
  <2>11. \A n \in Nat : n \in Int
    OBVIOUS
  <2>6. \A p \in Operators : operatorAsset'[p].PendingUndelegationAmount =
          operatorAsset[p].PendingUndelegationAmount + OperatorAmountOf(i, p)' - OperatorAmountOf(i, p)
    <3> SUFFICES ASSUME NEW p \in Operators
                 PROVE  operatorAsset'[p].PendingUndelegationAmount = operatorAsset[p].PendingUndelegationAmount + OperatorAmountOf(i, p)' - OperatorAmountOf(i, p)
      BY Zenon
    <3> DEFINE x == IF p = r.operator THEN r.amount ELSE 0
    <3>1. x \in Int
      BY <2>10
    <3>2. operatorAsset[p].PendingUndelegationAmount \in Int
      BY <1>1, <2>11, Zenon DEF FieldsTyped
    <3>3. operatorAsset'[p].PendingUndelegationAmount = operatorAsset[p].PendingUndelegationAmount - x
      BY <2>1, Zenon
    <3>4. OperatorAmountOf(i, p)' = 0 /\ OperatorAmountOf(i, p) = x
      BY <2>3, Zenon
    <3> HIDE DEF x
    <3> QED
      BY <3>1, <3>2, <3>3, <3>4
  <2>7. \A t \in Stakers : ~Native => stakerAsset'[t].PendingUndelegationAmount =
          stakerAsset[t].PendingUndelegationAmount + StakerAmountOf(i, t)' - StakerAmountOf(i, t)
    <3> SUFFICES ASSUME NEW t \in Stakers, ~Native
                 PROVE  stakerAsset'[t].PendingUndelegationAmount = stakerAsset[t].PendingUndelegationAmount + StakerAmountOf(i, t)' - StakerAmountOf(i, t)
      BY Zenon
    <3> DEFINE x == IF t = r.staker /\ ~r.reward THEN r.amount ELSE 0
    <3>1. x \in Int
      BY <2>10
    <3>2. stakerAsset[t].PendingUndelegationAmount \in Int
      BY <1>1, <2>11, Zenon DEF FieldsTyped
    <3>3. stakerAsset'[t].PendingUndelegationAmount = stakerAsset[t].PendingUndelegationAmount - x
      BY <2>1, Zenon
    <3>4. StakerAmountOf(i, t)' = 0 /\ StakerAmountOf(i, t) = x
      BY <2>4, Zenon
    <3> HIDE DEF x
    <3> QED
      BY <3>1, <3>2, <3>3, <3>4
  <2>8. \A t \in Stakers, p \in Operators, b \in BOOLEAN : PendingOf(t, p, b)' =
          PendingOf(t, p, b) + AmountOf(i, t, p, b)' - AmountOf(i, t, p, b)
    <3> SUFFICES ASSUME NEW t \in Stakers, NEW p \in Operators, NEW b \in BOOLEAN
                 PROVE  PendingOf(t, p, b)' = PendingOf(t, p, b) + AmountOf(i, t, p, b)' - AmountOf(i, t, p, b)
      BY Zenon
    <3> DEFINE x == IF t = r.staker /\ p = r.operator /\ b = r.reward THEN r.amount ELSE 0
    <3>1. x \in Int
      BY <2>10
    <3>2. PendingOf(t, p, b) \in Int
      BY <1>1, <2>11, Zenon DEF FieldsTyped
    <3>3. PendingOf(t, p, b)' = PendingOf(t, p, b) - x
      BY <2>1, Zenon
    <3>4. AmountOf(i, t, p, b)' = 0 /\ AmountOf(i, t, p, b) = x
      BY <2>5, Zenon
    <3> HIDE DEF x
    <3> QED
      BY <3>1, <3>2, <3>3, <3>4
  <2> QED
    BY <1>4, <2>1, <2>6, <2>7, <2>8, Zenon
<1> QED
  BY <1>7, <1>8, <1>9, <1>10, <1>11, <1>12, <1>13, Zenon DEF LedgerStep
-----------------------------------------------------------------------------
(***************************************************************************)
(* What a record pays, and when.                                           *)
(***************************************************************************)
\* Genesis: the pools are empty and there are no records.
LEMMA PaidInit == Init => PaidInv
<1> SUFFICES ASSUME Init PROVE PaidInv
  OBVIOUS
<1>1. PoolsBacked
  <2>1. 0 <= 0
    OBVIOUS
  <2> QED
    BY <2>1, Zenon DEF Init, PoolsBacked
<1>2. NoRecord.live = FALSE
  BY Zenon DEF NoRecord
<1>3. ActualWithinAmount
  BY <1>2, Zenon DEF Init, ActualWithinAmount
<1> QED
  BY <1>1, <1>3, Zenon DEF PaidInv

\* Every step keeps what the records pay between nothing and their amounts.
LEMMA PaidKept ==
  ASSUME InstantUndelegationPenalty < 100, TypeOK, PaidInv, LedgerStep
  PROVE  PaidInv'
<1> SUFFICES ActualWithinAmount'
  BY Zenon DEF PaidInv, LedgerStep, BackingKept
<1>2. \A i \in Ids : undelegation[i].live =>
        /\ 0 <= undelegation[i].actual /\ undelegation[i].actual <= undelegation[i].amount
        /\ undelegation[i].actual \in Int /\ undelegation[i].amount \in Nat
  <2>1. \A r \in UndelegationRecord : r.actual \in Int /\ r.amount \in Nat
    BY DEF UndelegationRecord
  <2> QED
    BY <2>1, RecordFields, Zenon DEF PaidInv, ActualWithinAmount
<1>3. ASSUME PaysLess PROVE ActualWithinAmount'
  <2> SUFFICES ASSUME NEW i \in Ids, undelegation'[i].live
               PROVE  0 <= undelegation'[i].actual /\ undelegation'[i].actual <= undelegation'[i].amount
    BY DEF ActualWithinAmount
  <2>1. undelegation[i].live /\ undelegation'[i].amount = undelegation[i].amount
    BY <1>3, Zenon DEF PaysLess, SlashesRecords
  <2>2. undelegation'[i].actual \in 0 .. undelegation[i].actual
    BY <1>2, <1>3, <2>1, Zenon DEF PaysLess
  <2>3. \A a, m \in Int : \A n \in 0 .. a : a <= m => 0 <= n /\ n <= m
    OBVIOUS
  <2>4. \A n \in Nat : n \in Int
    OBVIOUS
  <2> QED
    BY <1>2, <2>1, <2>2, <2>3, <2>4, Zenon
<1>4. ASSUME UNCHANGED undelegation PROVE ActualWithinAmount'
  BY <1>4 DEF PaidInv, ActualWithinAmount
<1>5. CASE Holds
  <2>1. SlashesRecords /\ \A i \in Ids : undelegation'[i].actual = undelegation[i].actual
    BY <1>5 DEF Holds
  <2>2. \A n \in Int : n >= 0 => n \in 0 .. n
    OBVIOUS
  <2>3. PaysLess
    BY <1>2, <2>1, <2>2, Zenon DEF PaysLess
  <2> QED
    BY <1>3, <2>3
<1>6. ASSUME NEW s \in Stakers, Deposits(s) \/ Associates(s)
      PROVE  ActualWithinAmount'
  BY <1>4, <1>6, Zenon DEF Deposits, Associates
<1>7. ASSUME NEW s \in Stakers, NEW o \in Operators, NEW x \in Nat, NEW reward \in BOOLEAN,
             NEW share \in Nat, Delegates(s, o, x, reward, share)
      PROVE  ActualWithinAmount'
  BY <1>4, <1>7, Zenon DEF Delegates
<1>8. ASSUME NEW s \in Stakers, NEW o \in Operators, NEW reward \in BOOLEAN, NEW share \in Nat,
             NEW removed \in Nat, Undelegates(s, o, reward, share, removed)
      PROVE  ActualWithinAmount'
  <2>1. PICK i \in Ids, r \in UndelegationRecord :
          /\ InstantUndelegationPenalty < 100 /\ PoolsBacked => 0 <= r.actual /\ r.actual <= r.amount
          /\ undelegation'[i] = r /\ \A j \in Ids : j # i => undelegation'[j] = undelegation[j]
    BY <1>8, Zenon DEF Undelegates, Opens
  <2>2. 0 <= r.actual /\ r.actual <= r.amount
    BY <2>1, Zenon DEF PaidInv
  <2> QED
    BY <2>1, <2>2, Zenon DEF PaidInv, ActualWithinAmount
<1>9. ASSUME NEW s \in Stakers, NEW d \in [Operators -> Nat], NEW w \in Nat, Decreases(s, d, w)
      PROVE  ActualWithinAmount'
  BY <1>3, <1>9, Zenon DEF Decreases
<1>10. ASSUME NEW o \in Operators, Slashes(o)
       PROVE  ActualWithinAmount'
  BY <1>3, <1>10, Zenon DEF Slashes
<1>11. ASSUME NEW i \in Ids, NEW r \in UndelegationRecord, Completes(i, r)
       PROVE  ActualWithinAmount'
  <2>1. undelegation'[i] = NoRecord /\ \A j \in Ids : j # i => undelegation'[j] = undelegation[j]
    BY <1>11, Zenon DEF Completes
  <2>2. NoRecord.live = FALSE
    BY Zenon DEF NoRecord
  <2> QED
    BY <2>1, <2>2, Zenon DEF PaidInv, ActualWithinAmount
<1> QED
  BY <1>5, <1>6, <1>7, <1>8, <1>9, <1>10, <1>11, Zenon DEF LedgerStep

\* Only completion takes a record out of the store: it is due then, and pays
\* its staker, and no other, what the slashes left of it.
LEMMA RecordLeaves ==
  ASSUME TypeOK, DueTodo, LedgerStep, NEW i \in Ids, undelegation[i].live, ~undelegation'[i].live,
         NEW r, r = undelegation[i]
  PROVE  /\ phase = "complete" /\ r.epoch < epoch /\ r.hold = 0
         /\ \A s \in Stakers :
              Paid(s)' = IF s = r.staker /\ ~r.reward THEN Paid(s) + r.actual ELSE Paid(s)
<1>1. ~SlashesRecords /\ undelegation' # undelegation
  BY Zenon DEF SlashesRecords
<1>2. ~Holds /\ ~\E o \in Operators : Slashes(o)
  BY <1>1, Zenon DEF Holds, Slashes, PaysLess
<1>3. /\ ~\E s \in Stakers : Deposits(s) \/ Associates(s)
      /\ ~\E s \in Stakers, d \in [Operators -> Nat], w \in Nat : Decreases(s, d, w)
  BY <1>1, Zenon DEF Deposits, Associates, Decreases, PaysLess
<1>4. ASSUME NEW s \in Stakers, NEW o \in Operators, NEW x \in Nat, NEW reward \in BOOLEAN,
             NEW share \in Nat, Delegates(s, o, x, reward, share)
      PROVE  FALSE
  BY <1>1, <1>4, Zenon DEF Delegates
<1>5. ASSUME NEW s \in Stakers, NEW o \in Operators, NEW reward \in BOOLEAN, NEW share \in Nat,
             NEW removed \in Nat, Undelegates(s, o, reward, share, removed)
      PROVE  FALSE
  <2>1. Opens(s, o, reward, removed)
    BY <1>5, Zenon DEF Undelegates
  <2> QED
    BY <2>1, Zenon DEF Opens
<1>6. PICK j \in Ids, q \in UndelegationRecord : Completes(j, q)
  BY <1>2, <1>3, <1>4, <1>5, Zenon DEF LedgerStep
<1>7. i = j /\ undelegation[j] = q
  BY <1>6, Zenon DEF Completes
<1>8. Completes(i, r)
  BY <1>6, <1>7, Zenon
<1>9. phase = "complete" /\ i \in todo
  BY <1>8, Zenon DEF Completes
<1>10. r.epoch < epoch /\ r.hold = 0
  BY <1>9, Zenon DEF DueTodo
<1>11. ASSUME NEW s \in Stakers
       PROVE  Paid(s)' = IF s = r.staker /\ ~r.reward THEN Paid(s) + r.actual ELSE Paid(s)
  <2>1. /\ stakerAsset'[s].WithdrawableAmount = stakerAsset[s].WithdrawableAmount
             + (IF s = r.staker /\ ~r.reward /\ ~Native THEN r.actual ELSE 0)
        /\ bank'[s] = bank[s] + (IF s = r.staker /\ ~r.reward /\ Native THEN r.actual ELSE 0)
    BY <1>8, Zenon DEF Completes
  <2>2. bank[s] \in Nat /\ stakerAsset[s].WithdrawableAmount \in Nat
    BY FieldTypes, Zenon DEF FieldsTyped
  <2>3. r \in UndelegationRecord
    BY <1>8, Zenon DEF Completes
  <2>4. r.actual \in Int
    BY <2>3, Zenon DEF UndelegationRecord
  <2> DEFINE w == IF s = r.staker /\ ~r.reward /\ ~Native THEN r.actual ELSE 0
             b == IF s = r.staker /\ ~r.reward /\ Native THEN r.actual ELSE 0
             paid == IF s = r.staker /\ ~r.reward THEN r.actual ELSE 0
  <2>5. w \in Int /\ b \in Int /\ paid = b + w
    BY <2>4
  <2>6. /\ Paid(s) = bank[s] + stakerAsset[s].WithdrawableAmount
        /\ Paid(s)' = (bank[s] + b) + (stakerAsset[s].WithdrawableAmount + w)
    BY <2>1, Zenon DEF Paid
  <2> HIDE DEF w, b
  <2>7. Paid(s)' = Paid(s) + paid /\ Paid(s) \in Int
    <3> HIDE DEF paid
    <3> QED
      BY <2>2, <2>5, <2>6
  <2>8. \A n \in Int : n + 0 = n
    OBVIOUS
  <2> QED
    BY <2>7, <2>8, Zenon
<1> QED
  BY <1>9, <1>10, <1>11, Zenon
-----------------------------------------------------------------------------
(***************************************************************************)
(* The ledger implements AssetCustody.                                     *)
(***************************************************************************)
\* The mapped values: whole numbers, one for each staker, operator and record.
LEMMA MappedTypes == TypeOK => Mapped
<1> SUFFICES ASSUME TypeOK PROVE Mapped
  OBVIOUS
<1>1. Sum(bank) \in Nat
  BY SumNat, DelegationAssumption, Zenon DEF TypeOK
<1>2. stakingTotalAmount \in Nat /\ delegatedPool \in Nat /\ rewardIn \in Int /\ bank \in [Stakers -> Nat]
  BY DEF TypeOK
<1>3. Vault \in Int
  BY <1>1, <1>2 DEF Vault
<1>4. /\ DOMAIN Free = Stakers
      /\ \A s \in Stakers :
           Free[s] \in Nat /\ Free[s] = IF Native THEN bank[s] ELSE stakerAsset[s].WithdrawableAmount
  BY <1>2, FieldTypes, Zenon DEF Free, FieldsTyped
<1>5. /\ DOMAIN Pooled = Operators
      /\ \A o \in Operators : Pooled[o] \in Nat /\ Pooled[o] = operatorAsset[o].TotalAmount
  BY FieldTypes, Zenon DEF Pooled, FieldsTyped
<1>6. DOMAIN Ticket = Ids
  BY DEF Ticket
<1> QED
  BY <1>3, <1>4, <1>5, <1>6 DEF Mapped

\* The same for the next state.
LEMMA MappedTypesNext == TypeOK' => Mapped'
BY MappedTypes, PTL

\* The tickets before and after a step, whatever the records are.
LEMMA TicketValues ==
  ASSUME NEW i \in Ids
  PROVE  /\ Ticket[i].live = undelegation[i].live /\ Ticket[i].owner = undelegation[i].staker
         /\ Ticket[i].payable = undelegation[i].actual /\ Ticket[i].internal = undelegation[i].reward
         /\ Ticket'[i].live = undelegation'[i].live /\ Ticket'[i].owner = undelegation'[i].staker
         /\ Ticket'[i].payable = undelegation'[i].actual /\ Ticket'[i].internal = undelegation'[i].reward
         /\ undelegation'[i] = undelegation[i] => Ticket'[i] = Ticket[i]
         /\ undelegation'[i] = NoRecord => Ticket'[i] = Custody!Void
         /\ /\ undelegation'[i].live = undelegation[i].live
            /\ undelegation'[i].staker = undelegation[i].staker
            /\ undelegation'[i].reward = undelegation[i].reward
            => Ticket'[i] = [Ticket[i] EXCEPT !.payable = Ticket'[i].payable]
<1>1. Ticket[i] = [live |-> undelegation[i].live, owner |-> undelegation[i].staker,
                   payable |-> undelegation[i].actual, internal |-> undelegation[i].reward]
  BY Zenon DEF Ticket
<1>2. Ticket'[i] = [live |-> undelegation'[i].live, owner |-> undelegation'[i].staker,
                    payable |-> undelegation'[i].actual, internal |-> undelegation'[i].reward]
  BY Zenon DEF Ticket
<1>3. /\ Ticket[i].live = undelegation[i].live /\ Ticket[i].owner = undelegation[i].staker
      /\ Ticket[i].payable = undelegation[i].actual /\ Ticket[i].internal = undelegation[i].reward
      /\ Ticket'[i].live = undelegation'[i].live /\ Ticket'[i].owner = undelegation'[i].staker
      /\ Ticket'[i].payable = undelegation'[i].actual /\ Ticket'[i].internal = undelegation'[i].reward
  <2>1. \A q, l, o, a, t : q = [live |-> l, owner |-> o, payable |-> a, internal |-> t] =>
          q.live = l /\ q.owner = o /\ q.payable = a /\ q.internal = t
    OBVIOUS
  <2> QED
    BY <1>1, <1>2, <2>1
<1>4. undelegation'[i] = undelegation[i] => Ticket'[i] = Ticket[i]
  BY <1>1, <1>2, Zenon
<1>5. ASSUME undelegation'[i] = NoRecord PROVE Ticket'[i] = Custody!Void
  <2>1. NoRecord.live = FALSE /\ NoRecord.staker = "none" /\ NoRecord.actual = 0 /\ NoRecord.reward = FALSE
    BY Zenon DEF NoRecord, None
  <2> QED
    BY <1>2, <1>5, <2>1, Zenon DEF Custody!Void
<1>6. ASSUME undelegation'[i].live = undelegation[i].live,
             undelegation'[i].staker = undelegation[i].staker,
             undelegation'[i].reward = undelegation[i].reward
      PROVE  Ticket'[i] = [Ticket[i] EXCEPT !.payable = Ticket'[i].payable]
  <2>1. \A q, l, o, a, t, b : q = [live |-> l, owner |-> o, payable |-> a, internal |-> t] =>
          [q EXCEPT !.payable = b] = [live |-> l, owner |-> o, payable |-> b, internal |-> t]
    OBVIOUS
  <2>2. [Ticket[i] EXCEPT !.payable = Ticket'[i].payable] =
          [live |-> undelegation[i].live, owner |-> undelegation[i].staker,
           payable |-> Ticket'[i].payable, internal |-> undelegation[i].reward]
    BY <1>1, <2>1
  <2> QED
    BY <1>2, <1>3, <1>6, <2>2
<1> QED
  BY <1>3, <1>4, <1>5, <1>6, Zenon

\* Native tokens that leave account s, or reach it.
LEMMA BankChange ==
  ASSUME TypeOK, TypeOK', NEW s \in Stakers, NEW d \in Int,
         \A t \in Stakers : bank'[t] = bank[t] + (IF t = s THEN d ELSE 0)
  PROVE  Sum(bank') = Sum(bank) + d
<1>1. bank \in [Stakers -> Nat] /\ bank' \in [Stakers -> Nat]
  BY Zenon DEF TypeOK
<1>2. bank \in [Stakers -> Int] /\ bank' \in [Stakers -> Int]
  BY <1>1
<1>3. bank'[s] = bank[s] + d /\ \A t \in Stakers : t # s => bank'[t] = bank[t]
  BY <1>1
<1>4. IsFiniteSet(Stakers)
  BY DelegationAssumption, Zenon
<1>5. \A f, h \in [Stakers -> Int] :
        (\A t \in Stakers : t # s => h[t] = f[t]) => Sum(h) = Sum(f) + h[s] - f[s]
  <2> SUFFICES ASSUME NEW f \in [Stakers -> Int], NEW h \in [Stakers -> Int],
                      \A t \in Stakers : t # s => h[t] = f[t]
               PROVE  Sum(h) = Sum(f) + h[s] - f[s]
    OBVIOUS
  <2> QED
    BY <1>4, SumChange
<1>6. Sum(bank) \in Nat /\ bank[s] \in Nat
  BY <1>1, <1>4, SumNat
<1>7. Sum(bank') = Sum(bank) + bank'[s] - bank[s]
  BY <1>2, <1>3, <1>5, Zenon
<1> QED
  BY <1>3, <1>6, <1>7

\* Slashed records are tickets of less.
LEMMA TicketsReduced ==
  ASSUME TypeOK, ActualWithinAmount, PaysLess, NEW i \in Ids
  PROVE  /\ Ticket'[i].payable \in 0 .. Ticket[i].payable
         /\ Ticket'[i] = [Ticket[i] EXCEPT !.payable = Ticket'[i].payable]
<1>1. CASE undelegation[i].live
  <2>1. /\ undelegation'[i].live = undelegation[i].live
        /\ undelegation'[i].staker = undelegation[i].staker
        /\ undelegation'[i].reward = undelegation[i].reward
    BY <1>1, Zenon DEF PaysLess, SlashesRecords
  <2>2. undelegation[i].actual \in Int /\ 0 <= undelegation[i].actual
    <3>1. \A r \in UndelegationRecord : r.actual \in Int
      BY DEF UndelegationRecord
    <3> QED
      BY <1>1, <3>1, RecordFields DEF ActualWithinAmount
  <2>3. undelegation'[i].actual \in 0 .. undelegation[i].actual
    BY <1>1, <2>2 DEF PaysLess
  <2> QED
    BY <2>1, <2>3, TicketValues, Zenon
<1>2. CASE ~undelegation[i].live
  <2>1. undelegation'[i] = undelegation[i]
    BY <1>2, Zenon DEF PaysLess, SlashesRecords
  <2>2. undelegation[i] = NoRecord
    BY <1>2, Zenon DEF TypeOK, UndelegationRecord
  <2>3. undelegation[i].actual = 0
    BY <2>2 DEF NoRecord
  <2> QED
    BY <2>1, <2>3, TicketValues
<1> QED
  BY <1>1, <1>2

\* Genesis: whatever is in the bank is free, and nothing is pooled.
LEMMA CustodyInit == Init /\ TypeOK => Custody!Init
<1> SUFFICES ASSUME Init, TypeOK PROVE Custody!Init
  OBVIOUS
<1>1. Mapped
  BY MappedTypes
<1>2. bank \in [Stakers -> Nat]
  BY Zenon DEF TypeOK
<1>3. Vault \in Nat
  <2>1. Sum(bank) \in Nat
    BY <1>2, SumNat, DelegationAssumption, Zenon
  <2> QED
    BY <2>1 DEF Vault, Init
<1>4. Free \in [Stakers -> Nat]
  BY <1>1, <1>2, Zenon DEF Mapped, Free
<1>5. Pooled = [p \in Operators |-> 0]
  BY Zenon DEF Pooled, Init
<1>6. Ticket = [i \in Ids |-> Custody!Void]
  BY Zenon DEF Ticket, Init, NoRecord, None, Custody!Void
<1> QED
  BY <1>3, <1>4, <1>5, <1>6 DEF Custody!Init

\* Every step of the ledger is a step of AssetCustody or leaves its variables.
LEMMA CustodyKept ==
  ASSUME TypeOK, TypeOK', ActualWithinAmount, ActualWithinAmount', LedgerStep
  PROVE  [Custody!Next]_(Custody!vars)
<1>1. /\ \A t \in Stakers : Free[t] \in Nat /\ Free'[t] \in Nat
      /\ \A p \in Operators : Pooled[p] \in Nat /\ Pooled'[p] \in Nat
      /\ DOMAIN Free = Stakers /\ DOMAIN Pooled = Operators /\ DOMAIN Ticket = Ids
      /\ DOMAIN Free' = Stakers /\ DOMAIN Pooled' = Operators /\ DOMAIN Ticket' = Ids
  BY MappedTypes, MappedTypesNext, Zenon DEF Mapped
<1>2. /\ \A t \in Stakers :
           /\ Free[t] = IF Native THEN bank[t] ELSE stakerAsset[t].WithdrawableAmount
           /\ Free'[t] = IF Native THEN bank'[t] ELSE stakerAsset'[t].WithdrawableAmount
      /\ \A p \in Operators : Pooled[p] = operatorAsset[p].TotalAmount
                              /\ Pooled'[p] = operatorAsset'[p].TotalAmount
  BY MappedTypes, MappedTypesNext, Zenon DEF Mapped
<1>3. /\ stakingTotalAmount \in Nat /\ delegatedPool \in Nat /\ rewardIn \in Int
      /\ bank \in [Stakers -> Nat] /\ bank' \in [Stakers -> Nat]
  BY DEF TypeOK
<1>4. Sum(bank) \in Nat /\ Vault \in Int
  <2>1. Sum(bank) \in Nat
    BY <1>3, SumNat, DelegationAssumption, Zenon
  <2> QED
    BY <1>3, <2>1 DEF Vault
<1>5. ASSUME \A p \in Operators : operatorAsset'[p].TotalAmount = operatorAsset[p].TotalAmount
      PROVE  Pooled' = Pooled
  BY <1>5, Zenon DEF Pooled
<1>6. CASE Holds
  <2>1. UNCHANGED <<stakerAsset, stakingTotalAmount, operatorAsset, bank, delegatedPool, rewardIn>>
    BY <1>6 DEF Holds
  <2>2. SlashesRecords /\ \A j \in Ids : undelegation'[j].actual = undelegation[j].actual
    BY <1>6 DEF Holds
  <2>3. \A j \in Ids : /\ undelegation'[j].live = undelegation[j].live
                       /\ undelegation'[j].staker = undelegation[j].staker
                       /\ undelegation'[j].reward = undelegation[j].reward
    BY <2>2, Zenon DEF SlashesRecords
  <2>4. Ticket' = Ticket
    BY <2>2, <2>3, Zenon DEF Ticket
  <2>5. Vault' = Vault /\ Free' = Free /\ Pooled' = Pooled
    BY <2>1 DEF Vault, Free, Pooled
  <2> QED
    BY <2>4, <2>5 DEF Custody!vars
<1>7. ASSUME NEW s \in Stakers, Associates(s) PROVE UNCHANGED Custody!vars
  <2>1. /\ UNCHANGED <<undelegation, stakerAsset, stakingTotalAmount, bank, delegatedPool, rewardIn>>
        /\ \A p \in Operators : operatorAsset'[p].TotalAmount = operatorAsset[p].TotalAmount
    BY <1>7, Zenon DEF Associates
  <2>2. Vault' = Vault /\ Free' = Free /\ Ticket' = Ticket
    BY <2>1, Zenon DEF Vault, Free, Ticket
  <2>3. Pooled' = Pooled
    BY <1>5, <2>1, Zenon
  <2> QED
    BY <2>2, <2>3, Zenon DEF Custody!vars
<1>8. ASSUME NEW s \in Stakers, Deposits(s) PROVE Custody!Next
  <2>1. PICK d \in Int :
          /\ \A t \in Stakers : stakerAsset'[t].WithdrawableAmount =
               stakerAsset[t].WithdrawableAmount + (IF t = s THEN d ELSE 0)
          /\ stakingTotalAmount' = stakingTotalAmount + d
    BY <1>8, Zenon DEF Deposits
  <2>2. ~Native /\ UNCHANGED <<operatorAsset, undelegation, delegatedPool, rewardIn>>
    BY <1>8, Zenon DEF Deposits
  <2>3. \A t \in Stakers : Free'[t] = Free[t] + (IF t = s THEN d ELSE 0)
    BY <1>2, <2>1, <2>2, Zenon
  <2>4. Vault' = Vault + Free'[s] - Free[s]
    <3>1. Vault' = Vault + d
      BY <1>3, <2>1, <2>2 DEF Vault
    <3> QED
      BY <1>1, <1>4, <2>3, <3>1
  <2>5. Pooled' = Pooled /\ Ticket' = Ticket
    BY <2>2, Zenon DEF Pooled, Ticket
  <2>6. Custody!DepositOrWithdraw(s)
    BY <1>1, <2>3, <2>4, <2>5 DEF Custody!DepositOrWithdraw, Custody!OnlyAt
  <2> QED
    BY <2>6 DEF Custody!Next
<1>9. ASSUME NEW s \in Stakers, NEW o \in Operators, NEW x \in Nat, NEW reward \in BOOLEAN,
             NEW share \in Nat, Delegates(s, o, x, reward, share)
      PROVE  Custody!Next
  <2>1. /\ x > 0
        /\ \A p \in Operators :
             operatorAsset'[p].TotalAmount = operatorAsset[p].TotalAmount + (IF p = o THEN x ELSE 0)
        /\ UNCHANGED <<undelegation, stakingTotalAmount>>
    BY <1>9, Zenon DEF Delegates
  <2>2. /\ \A t \in Stakers :
             /\ stakerAsset'[t].WithdrawableAmount = stakerAsset[t].WithdrawableAmount
                  - (IF t = s /\ ~reward /\ ~Native THEN x ELSE 0)
             /\ bank'[t] = bank[t] - (IF t = s /\ ~reward /\ Native THEN x ELSE 0)
        /\ delegatedPool' = delegatedPool + (IF ~reward /\ Native THEN x ELSE 0)
        /\ rewardIn' = rewardIn + (IF reward THEN x ELSE 0)
    BY <1>9, Zenon DEF Delegates
  <2>3. \A p \in Operators : Pooled'[p] = Pooled[p] + (IF p = o THEN x ELSE 0)
    BY <1>2, <2>1, Zenon
  <2>4. Ticket' = Ticket
    BY <2>1, Zenon DEF Ticket
  <2>5. Pooled'[o] > Pooled[o] /\ Pooled'[o] - Pooled[o] = x
        /\ \A p \in Operators \ {o} : Pooled'[p] = Pooled[p]
    BY <1>1, <2>1, <2>3
  <2>6. \A t \in Stakers : Free'[t] = Free[t] - (IF t = s /\ ~reward THEN x ELSE 0)
    <3>1. CASE Native
      BY <1>2, <2>2, <3>1, Zenon
    <3>2. CASE ~Native
      BY <1>2, <2>2, <3>2, Zenon
    <3> QED
      BY <3>1, <3>2, Zenon
  <2>7. Sum(bank') = Sum(bank) - (IF ~reward /\ Native THEN x ELSE 0)
    <3>1. PICK d \in Int : d = - (IF ~reward /\ Native THEN x ELSE 0)
      OBVIOUS
    <3>2. \A t \in Stakers : bank[t] \in Nat
      BY <1>3
    <3>3. \A t \in Stakers : bank'[t] = bank[t] + (IF t = s THEN d ELSE 0)
      BY <2>2, <3>1, <3>2
    <3>4. Sum(bank') = Sum(bank) + d
      BY <3>3, BankChange, Zenon
    <3> QED
      BY <1>4, <3>1, <3>4
  <2>8. Vault' = Vault + (IF reward THEN x ELSE 0)
    <3>1. CASE reward
      BY <1>3, <1>4, <2>1, <2>2, <2>7, <3>1 DEF Vault
    <3>2. CASE ~reward
      BY <1>3, <1>4, <2>1, <2>2, <2>7, <3>2 DEF Vault
    <3> QED
      BY <3>1, <3>2, Zenon
  <2>9. CASE reward
    <3>1. Free' = Free
      <4>1. Free = [t \in Stakers |-> Free[t]] /\ Free' = [t \in Stakers |-> Free'[t]]
        BY <1>3, Zenon DEF Free
      <4>2. \A t \in Stakers : Free'[t] = Free[t]
        BY <1>1, <2>6, <2>9
      <4> QED
        BY <4>1, <4>2, Zenon
    <3>2. Vault' = Vault + Pooled'[o] - Pooled[o]
      BY <1>1, <1>4, <2>3, <2>8, <2>9
    <3>3. Custody!StakeReward(o)
      BY <1>1, <2>4, <2>5, <3>1, <3>2, Zenon DEF Custody!StakeReward, Custody!OnlyAt
    <3> QED
      BY <3>3 DEF Custody!Next
  <2>10. CASE ~reward
    <3>1. Free'[s] \in 0 .. Free[s] /\ Free[s] - Free'[s] = x /\ Vault' = Vault
      BY <1>1, <1>4, <2>6, <2>8, <2>10
    <3>2. Pooled' = [Pooled EXCEPT ![o] = Pooled[o] + x]
      <4>1. Pooled \in [Operators -> Nat] /\ Pooled' \in [Operators -> Nat]
        BY <1>1, Zenon DEF Pooled
      <4> QED
        BY <1>1, <2>3, <4>1
    <3>3. Pooled[o] + Free[s] - Free'[s] = Pooled[o] + x
      BY <1>1, <2>6, <2>10
    <3>4. \A t \in Stakers \ {s} : Free'[t] = Free[t]
      BY <1>1, <2>6
    <3>5. Custody!Stake(s, o)
      BY <1>1, <2>4, <3>1, <3>2, <3>3, <3>4, Zenon DEF Custody!Stake, Custody!OnlyAt
    <3> QED
      BY <3>5, Zenon DEF Custody!Next
  <2> QED
    BY <2>9, <2>10, Zenon
<1>10. ASSUME NEW s \in Stakers, NEW o \in Operators, NEW reward \in BOOLEAN, NEW share \in Nat,
              NEW removed \in Nat, Undelegates(s, o, reward, share, removed)
       PROVE  Custody!Next
  <2>1. /\ \A p \in Operators : operatorAsset'[p].TotalAmount = operatorAsset[p].TotalAmount
                                  - (IF p = o THEN removed ELSE 0)
        /\ \A t \in Stakers : stakerAsset'[t].WithdrawableAmount = stakerAsset[t].WithdrawableAmount
        /\ UNCHANGED <<stakingTotalAmount, bank, delegatedPool, rewardIn>>
    BY <1>10, Zenon DEF Undelegates
  <2>2. PICK id \in Ids, r \in UndelegationRecord :
          /\ r.live /\ r.staker = s /\ r.amount = removed
          /\ undelegation[id] = NoRecord /\ undelegation'[id] = r
          /\ \A j \in Ids : j # id => undelegation'[j] = undelegation[j]
    BY <1>10, Zenon DEF Undelegates, Opens
  <2>3. r.actual \in 0 .. removed
    <3>1. r.actual \in Int
      BY DEF UndelegationRecord
    <3>2. 0 <= r.actual /\ r.actual <= r.amount
      BY <2>2, Zenon DEF ActualWithinAmount
    <3> QED
      BY <2>2, <3>1, <3>2
  <2>4. \A p \in Operators : Pooled'[p] = Pooled[p] - (IF p = o THEN removed ELSE 0)
    BY <1>2, <2>1, Zenon
  <2>5. /\ Pooled'[o] \in 0 .. Pooled[o] /\ Pooled[o] - Pooled'[o] = removed
        /\ \A p \in Operators \ {o} : Pooled'[p] = Pooled[p]
    BY <1>1, <2>4
  <2>6. Vault' = Vault /\ Free' = Free
    BY <2>1 DEF Vault, Free
  <2>7. ~Ticket[id].live
    <3>1. NoRecord.live = FALSE
      BY Zenon DEF NoRecord
    <3>2. ~undelegation[id].live
      BY <2>2, <3>1, Zenon
    <3> QED
      BY <3>2, TicketValues, Zenon
  <2>8. /\ Ticket'[id].live /\ Ticket'[id].owner = s /\ Ticket'[id].payable = r.actual
        /\ \A j \in Ids \ {id} : Ticket'[j] = Ticket[j]
    BY <2>2, TicketValues, Zenon
  <2>9. Custody!Unstake(s, o, id)
    BY <1>1, <2>3, <2>5, <2>6, <2>7, <2>8, Zenon DEF Custody!Unstake, Custody!OnlyAt
  <2> QED
    BY <2>9, Zenon DEF Custody!Next
<1>11. ASSUME NEW o \in Operators, Slashes(o) PROVE Custody!Next
  <2>1. /\ \A p \in Operators : operatorAsset'[p].TotalAmount \in 0 .. operatorAsset[p].TotalAmount
        /\ UNCHANGED <<stakerAsset, stakingTotalAmount, bank, delegatedPool, rewardIn>>
        /\ PaysLess
    BY <1>11, Zenon DEF Slashes
  <2>2. \A p \in Operators : Pooled'[p] >= 0 /\ Pooled'[p] <= Pooled[p]
    <3>1. \A a, n : n \in 0 .. a => n >= 0 /\ n <= a
      OBVIOUS
    <3> QED
      BY <1>2, <2>1, <3>1, Zenon
  <2>3. \A i \in Ids : /\ Ticket'[i].payable \in 0 .. Ticket[i].payable
                       /\ Ticket'[i] = [Ticket[i] EXCEPT !.payable = Ticket'[i].payable]
    BY <2>1, TicketsReduced, Zenon
  <2>4. Vault' = Vault /\ Free' = Free
    BY <2>1, Zenon DEF Vault, Free
  <2>5. Custody!Slash
    BY <1>1, <2>2, <2>3, <2>4, Zenon DEF Custody!Slash, Custody!Reduced, Custody!NoMore
  <2> QED
    BY <2>5, Zenon DEF Custody!Next
<1>12. ASSUME NEW s \in Stakers, NEW d \in [Operators -> Nat], NEW w \in Nat, Decreases(s, d, w)
       PROVE  Custody!Next
  <2>1. /\ PaysLess /\ ~Native
        /\ \A i \in Ids : undelegation[i].staker # s => undelegation'[i] = undelegation[i]
        /\ \A p \in Operators : operatorAsset'[p].TotalAmount \in 0 .. operatorAsset[p].TotalAmount
        /\ \A t \in Stakers : stakerAsset'[t].WithdrawableAmount = stakerAsset[t].WithdrawableAmount
                                - (IF t = s THEN w ELSE 0)
        /\ UNCHANGED <<stakingTotalAmount, bank, delegatedPool, rewardIn>>
    BY <1>12, Zenon DEF Decreases
  <2>2. \A p \in Operators : Pooled'[p] >= 0 /\ Pooled'[p] <= Pooled[p]
    BY <1>1, <1>2, <2>1
  <2>3. Free'[s] \in 0 .. Free[s] /\ \A t \in Stakers \ {s} : Free'[t] = Free[t]
    <3>1. \A t \in Stakers : Free'[t] = Free[t] - (IF t = s THEN w ELSE 0)
      BY <1>2, <2>1, Zenon
    <3> QED
      BY <1>1, <3>1
  <2>4. \A i \in Ids : /\ Ticket'[i].payable \in 0 .. Ticket[i].payable
                       /\ Ticket'[i] = [Ticket[i] EXCEPT !.payable = Ticket'[i].payable]
    BY <2>1, TicketsReduced
  <2>5. \A i \in Ids : Ticket[i].owner # s => Ticket'[i] = Ticket[i]
    BY <2>1, TicketValues, Zenon
  <2>6. Vault' = Vault
    BY <2>1, Zenon DEF Vault
  <2>7. Custody!ReportLoss(s)
    BY <1>1, <2>2, <2>3, <2>4, <2>5, <2>6, Zenon
    DEF Custody!ReportLoss, Custody!Reduced, Custody!NoMore, Custody!OnlyAt
  <2> QED
    BY <2>7, Zenon DEF Custody!Next
<1>13. ASSUME NEW i \in Ids, NEW r \in UndelegationRecord, Completes(i, r) PROVE Custody!Next
  <2>1. r.live /\ r.staker \in Stakers /\ r.actual \in Int /\ r.reward \in BOOLEAN
    BY Zenon DEF UndelegationRecord
  <2>2. /\ undelegation[i] = r /\ undelegation'[i] = NoRecord
        /\ \A j \in Ids : j # i => undelegation'[j] = undelegation[j]
        /\ \A p \in Operators : operatorAsset'[p].TotalAmount = operatorAsset[p].TotalAmount
    BY <1>13, Zenon DEF Completes
  <2>3. /\ \A t \in Stakers :
             /\ stakerAsset'[t].WithdrawableAmount = stakerAsset[t].WithdrawableAmount
                  + (IF t = r.staker /\ ~r.reward /\ ~Native THEN r.actual ELSE 0)
             /\ bank'[t] = bank[t] + (IF t = r.staker /\ ~r.reward /\ Native THEN r.actual ELSE 0)
        /\ delegatedPool' = delegatedPool - (IF ~r.reward /\ Native THEN r.actual ELSE 0)
        /\ rewardIn' = rewardIn - (IF r.reward THEN r.actual ELSE 0)
        /\ stakingTotalAmount' = stakingTotalAmount
    BY <1>13, Zenon DEF Completes
  <2>4. Pooled' = Pooled
    BY <1>5, <2>2, Zenon
  <2>5. /\ Ticket[i].live /\ Ticket[i].internal = r.reward /\ Ticket[i].payable = r.actual
        /\ Ticket[i].owner = r.staker
    BY <2>1, <2>2, TicketValues, Zenon
  <2>6. Ticket' = [Ticket EXCEPT ![i] = Custody!Void]
    <3>1. Ticket'[i] = Custody!Void /\ \A j \in Ids : j # i => Ticket'[j] = Ticket[j]
      BY <2>2, TicketValues, Zenon
    <3>2. /\ Ticket = [j \in Ids |-> Ticket[j]] /\ Ticket' = [j \in Ids |-> Ticket'[j]]
      BY Zenon DEF Ticket
    <3> QED
      BY <3>1, <3>2
  <2>7. \A t \in Stakers : Free'[t] = Free[t] + (IF t = r.staker /\ ~r.reward THEN r.actual ELSE 0)
    <3>1. CASE Native
      BY <1>2, <2>3, <3>1, Zenon
    <3>2. CASE ~Native
      BY <1>2, <2>3, <3>2, Zenon
    <3> QED
      BY <3>1, <3>2, Zenon
  <2>8. Sum(bank') = Sum(bank) + (IF ~r.reward /\ Native THEN r.actual ELSE 0)
    <3>1. PICK d \in Int : d = IF ~r.reward /\ Native THEN r.actual ELSE 0
      BY <2>1
    <3>2. \A t \in Stakers : bank'[t] = bank[t] + (IF t = r.staker THEN d ELSE 0)
      BY <2>3, <3>1, Zenon
    <3> QED
      BY <2>1, <3>1, <3>2, BankChange, Zenon
  <2>9. Vault' = Vault - (IF r.reward THEN r.actual ELSE 0)
    <3>1. CASE r.reward
      BY <1>3, <1>4, <2>1, <2>3, <2>8, <3>1 DEF Vault
    <3>2. CASE ~r.reward
      BY <1>3, <1>4, <2>1, <2>3, <2>8, <3>2 DEF Vault
    <3> QED
      BY <3>1, <3>2, Zenon
  <2>10. Free = [t \in Stakers |-> Free[t]] /\ Free' = [t \in Stakers |-> Free'[t]]
    BY <1>3, Zenon DEF Free
  <2>11. CASE r.reward
    <3>1. Free' = Free
      <4>1. \A t \in Stakers : Free'[t] = Free[t]
        BY <1>1, <2>7, <2>11
      <4> QED
        BY <2>10, <4>1, Zenon
    <3>2. Vault' = Vault - r.actual
      BY <2>9, <2>11, Zenon
    <3>3. Custody!Pay(i)
      BY <2>4, <2>5, <2>6, <2>11, <3>1, <3>2, Zenon DEF Custody!Pay
    <3> QED
      BY <3>3 DEF Custody!Next
  <2>12. CASE ~r.reward
    <3>1. Free' = [Free EXCEPT ![r.staker] = Free[r.staker] + r.actual]
      <4>1. /\ Free'[r.staker] = Free[r.staker] + r.actual
            /\ \A t \in Stakers : t # r.staker => Free'[t] = Free[t]
        BY <1>1, <2>1, <2>7, <2>12
      <4> QED
        BY <2>10, <4>1, Zenon
    <3>2. Vault' = Vault
      BY <1>4, <2>9, <2>12
    <3>3. Custody!Pay(i)
      BY <2>4, <2>5, <2>6, <2>12, <3>1, <3>2, Zenon DEF Custody!Pay
    <3> QED
      BY <3>3 DEF Custody!Next
  <2> QED
    BY <2>1, <2>11, <2>12
<1> QED
  BY <1>6, <1>7, <1>8, <1>9, <1>10, <1>11, <1>12, <1>13, Zenon DEF LedgerStep
=============================================================================
