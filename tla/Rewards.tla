------------------------------- MODULE Rewards -------------------------------
(***************************************************************************)
(* Distribution of the rewards of the dogfood AVS to one operator and to   *)
(* the stakers of its asset pool, by periods (x/feedistribution/keeper).   *)
(*                                                                         *)
(* The rewards of an epoch enter the operator's current period.  A period  *)
(* is closed when a stake has changed: the rewards per staked token are    *)
(* added to a cumulative ratio, and what a delegation earns between two    *)
(* periods is its stake times the difference of their ratios.  Ratios are  *)
(* counted by reference and dropped when nothing refers to them.  A slash  *)
(* closes a period too, and leaves an event from which the stakes of the   *)
(* delegations are reduced when their rewards are computed.                *)
(*                                                                         *)
(* Rewards and stakes are decimals in units of 1/Precision.  The operator  *)
(* has disabled the compounding of its rewards, all AVSs use one epoch     *)
(* identifier, and an asset has no decimals of its own.                    *)
(***************************************************************************)
EXTENDS ShareMath, Sums, SequencesExt, TLC

CONSTANTS
  Stakers,           \* the stakers of the pool
  Redelegators,      \* the stakers whose reward parameters ask to redelegate
  Amounts,           \* tokens of one delegation or undelegation
  Deposits,          \* the amount every staker has delegated at first
  Fees,              \* fees collected in an epoch, in tokens
  Proportions,       \* the operator's share of the voting power; 0: not a validator
  CommunityTax,      \* a decimal, like the four below
  CommissionRate,
  Splits,            \* share of the pool in the operator's active USD value
  Fractions,         \* the proportions of a slash
  RewardsPriced,     \* whether the reward asset has a price when the operator is
                     \* slashed, so that the slash takes rewards: a set of Booleans
  OncePerBlock,      \* whether a block slashes the operator at most once
  InstantPenalties,  \* what an undelegation of rewards may be charged, decimals: 0 and
                     \* the penalty of an instant one
  MaxEpoch,          \* bound on the epochs
  MaxChanges,        \* bound on the stake changes of the behaviour
  MaxUndelegations,  \* bound on the undelegations of rewards that are pending
  MaxSlashes,        \* bound on the slashes
  MaxWithdrawals     \* bound on the withdrawals

ASSUME RewardsAssumption ==
  /\ Redelegators \subseteq Stakers
  /\ Amounts \subseteq Nat \ {0} /\ Fees \subseteq Nat /\ Deposits \in [Stakers -> Nat]
  /\ Fractions \subseteq 1 .. One /\ Proportions \subseteq 0 .. One
  /\ CommunityTax \in 0 .. One /\ CommissionRate \in 0 .. One /\ Splits \subseteq 1 .. One
  /\ InstantPenalties \subseteq 0 .. One
  /\ RewardsPriced \subseteq BOOLEAN /\ OncePerBlock \in BOOLEAN

VARIABLES
  epoch,         \* CurrentEpoch; the hook of its end runs before it is incremented
  blockSlashed,  \* whether the operator was slashed in this block
  pool,          \* [amount, total, share, reward]: the operator's pool and every
                 \* staker's shares of it, for staked assets and for rewards
  valued,        \* whether the pool has a USD value, updated by slashes and epoch ends
  changes,       \* the delegation changes marked in this epoch: [marked, total, list]
  book,          \* the operator's and the stakers' rewards, see NoBook
  events,        \* the operator's slash events in the order of epoch and height
  undelegations, \* the pending undelegations of rewards, in the order of their blocks
  funds,         \* [commission, bank, balance, unallocated]: what backs the rewards
  changed, slashes, withdrawals  \* counters of the bounds

vars == <<epoch, blockSlashed, pool, valued, changes, book, events, undelegations,
          funds, changed, slashes, withdrawals>>

NoInfo == [epoch |-> 0, period |-> 0, stake |-> 0]    \* no DelegationStartingInfo
NoChanges == [marked |-> FALSE, total |-> 0, list |-> <<>>]

\* current: OperatorCurrentRewards; hist: OperatorHistoricalRewards by period;
\* starting: DelegationStartingInfo; outstanding and slashed: the operator's
\* unclaimed rewards; claimed: the outstanding rewards of a staker;
\* redelegated: claimed rewards that became delegations, with the fractions
\* of a token that did not, as far as they did not come back; shares: the
\* DelegationRewardsShares of a staker, this module's own record of its reward
\* shares; pending, pendingSlashed: PendingUndelegationRewards and
\* PendingSlashedRewards; withdrawable: rewards whose undelegation completed.
NoBook ==
  [initialized |-> FALSE, current |-> [rewards |-> 0, period |-> 0], hist |-> <<>>,
   starting |-> [s \in Stakers |-> NoInfo], outstanding |-> 0, slashed |-> 0,
   claimed |-> [s \in Stakers |-> 0], community |-> 0, redelegated |-> 0,
   shares |-> [s \in Stakers |-> 0], pending |-> [s \in Stakers |-> 0],
   pendingSlashed |-> [s \in Stakers |-> 0], withdrawable |-> [s \in Stakers |-> 0]]

Init ==
  /\ epoch = 2 /\ blockSlashed = FALSE
  /\ pool = [amount |-> Sum(Deposits), total |-> Dec(Sum(Deposits)),
             share |-> [s \in Stakers |-> Dec(Deposits[s])],
             reward |-> [s \in Stakers |-> 0]]
  /\ valued = (Sum(Deposits) > 0)
  /\ changes = NoChanges /\ book = NoBook /\ events = <<>> /\ undelegations = <<>>
  /\ funds = [commission |-> 0, bank |-> 0, balance |-> 0, unallocated |-> 0]
  /\ changed = 0 /\ slashes = 0 /\ withdrawals = 0

MulTruncate(a, b) == (a * b) \div Precision
QuoTruncate(a, b) == (a * Precision) \div b

\* GetDelegationInfoWithAmounts: the tokens of both kinds of shares, each truncated.
Stake(p, s) ==
  Dec(TokensFromShares(p.share[s], p.total, p.amount)
        + TokensFromShares(p.reward[s], p.total, p.amount))

\* The tokens of a delegation that the hooks are given.
PreDelegatedAmount(p, s) == Dec(TokensFromShares(p.share[s] + p.reward[s], p.total, p.amount))

Listed(p) == {s \in Stakers : p.share[s] + p.reward[s] > 0}    \* GetStakersByOperator
-----------------------------------------------------------------------------
(***************************************************************************)
(* Periods                                                                 *)
(***************************************************************************)
incrementReferenceCount(hist, p) == [hist EXCEPT ![p].refs = @ + 1]

decrementReferenceCount(hist, p) ==
  IF hist[p].refs = 1 THEN [q \in DOMAIN hist \ {p} |-> hist[q]]
                      ELSE [hist EXCEPT ![p].refs = @ - 1]

\* What a period ends with when nothing was staked goes to the community pool.
Redirected(b, pre) == IF pre = 0 THEN b.current.rewards ELSE 0

IncrementOperatorPeriodFails(b, pre) ==
  \/ ~b.initialized
  \/ b.current.period - 1 \notin DOMAIN b.hist
  \/ Redirected(b, pre) > b.outstanding

\* The period that ends is b.current.period.
IncrementOperatorPeriod(b, pre) ==
  LET p     == b.current.period
      ratio == IF pre = 0 THEN 0 ELSE QuoTruncate(b.current.rewards, pre)
  IN  [b EXCEPT
        !.hist = decrementReferenceCount(@, p - 1) @@
                   (p :> [ratio |-> b.hist[p - 1].ratio + ratio, refs |-> 1]),
        !.current = [rewards |-> 0, period |-> p + 1],
        !.community = @ + Redirected(b, pre),
        !.outstanding = @ - Redirected(b, pre)]

\* A delegation of no stake keeps no starting info.
initializeDelegationStartingInfo(b, s, stake, startingEpoch, period) ==
  IF stake = 0 THEN [b EXCEPT !.starting[s] = NoInfo]
  ELSE [b EXCEPT
         !.starting[s] = [epoch |-> startingEpoch, period |-> period, stake |-> stake],
         !.hist = incrementReferenceCount(@, period)]

\* The stake marked for a staker that changed it in this epoch, -1 otherwise.
PreStake(c, s) ==
  LET marks == {i \in DOMAIN c.list : c.list[i].staker = s}
  IN  IF marks = {} THEN -1 ELSE c.list[CHOOSE i \in marks : TRUE].stake

\* The delegations listed now start from the previous epoch: with the stake
\* before this epoch's change if they changed, with their stake otherwise.
initializeOperatorPeriod(b, c, p) ==
  LET start(s) == IF PreStake(c, s) >= 0 THEN PreStake(c, s) ELSE Stake(p, s)
      fresh    == [b EXCEPT !.initialized = TRUE,
                            !.current = [rewards |-> 0, period |-> 1],
                            !.hist = (0 :> [ratio |-> 0, refs |-> 1])]
      Add(s, acc) == IF start(s) = 0 THEN acc
                     ELSE initializeDelegationStartingInfo(acc, s, start(s), epoch - 1, 0)
  IN  FoldLeft(LAMBDA acc, s : Add(s, acc), fresh, SetToSeq(Listed(p)))
-----------------------------------------------------------------------------
(***************************************************************************)
(* What a delegation has earned when the period end is closed, and its     *)
(* stake after the slashes.                                                *)
(***************************************************************************)
calculateDelegationRewardsBetween(b, from, to, stake) ==
  MulTruncate(b.hist[to].ratio - b.hist[from].ratio, stake)

\* IterateOperatorSlashEventsBetween with the filter of its callback.
Slashing(evs, info) ==
  SelectSeq(evs, LAMBDA e : e.epoch >= info.epoch /\ e.epoch <= epoch /\ e.period > info.period)

calculateDelegationRewards(b, evs, end, info) ==
  LET Step(acc, e) ==
        LET earned == calculateDelegationRewardsBetween(b, acc.from, e.period, acc.stake)
        IN  [from |-> e.period,
             rewards |-> acc.rewards + earned
                           - (IF e.rewards THEN Mul(earned, e.fraction) ELSE 0),
             stake |-> MulTruncate(acc.stake, One - e.fraction)]
      last == FoldLeft(Step, [from |-> info.period, rewards |-> 0, stake |-> info.stake],
                       Slashing(evs, info))
  IN  [rewards |-> last.rewards
                     + calculateDelegationRewardsBetween(b, last.from, end, last.stake),
       stake |-> last.stake]

calculateDelegationRewardsFails(b, evs, end, info) ==
  \/ info.epoch >= epoch \/ info.period >= end
  \/ ~({info.period, end} \cup {e.period : e \in Range(Slashing(evs, info))} \subseteq DOMAIN b.hist)

\* Mutant: a claim during the epoch restarts from the current epoch.
RestartNow(b, s, stake, atEnd, end, p) ==
  initializeDelegationStartingInfo(b, s, IF atEnd THEN Stake(p, s) ELSE stake, epoch, end)

\* At the end of an epoch the delegation goes on with its stake of now, a
\* claim leaves the stake and the rewards of the current epoch for later.
reinitializeDelegationStartingInfo(b, s, stake, atEnd, end, p) ==
  IF atEnd THEN initializeDelegationStartingInfo(b, s, Stake(p, s), epoch, end)
           ELSE initializeDelegationStartingInfo(b, s, stake, epoch - 1, end)

distributeRewardsToDelegation(b, s, atEnd, end, p) ==
  LET info   == b.starting[s]
      earned == calculateDelegationRewards(b, events, end, info)
      paid   == MinOf(earned.rewards, b.outstanding)    \* Intersect
      moved  == [b EXCEPT !.claimed[s] = @ + paid, !.outstanding = @ - paid,
                          !.hist = decrementReferenceCount(@, info.period)]
  IN  reinitializeDelegationStartingInfo(moved, s, earned.stake, atEnd, end, p)

\* The stakers one after the other, each in its own cache context.
DistributeRewardsToDelegations(b, list, end, p) ==
  LET Distribute(acc, s) ==
        IF acc.book.starting[s] = NoInfo
        THEN [acc EXCEPT !.book = initializeDelegationStartingInfo(@, s, Stake(p, s), epoch, end)]
        ELSE IF calculateDelegationRewardsFails(acc.book, events, end, acc.book.starting[s])
        THEN acc
        ELSE [book |-> distributeRewardsToDelegation(acc.book, s, TRUE, end, p),
              paid |-> Append(acc.paid, s)]
  IN  FoldLeft(Distribute, [book |-> b, paid |-> <<>>], list)

\* An operator that never had rewards has no periods to close.
handleOperatorAssetDelegationChanges(b, total, list, p) ==
  IF ~b.initialized THEN [book |-> b, paid |-> <<>>]
  ELSE DistributeRewardsToDelegations(IncrementOperatorPeriod(b, total), list,
                                      b.current.period, p)

HandleChangedDelegations(b, c, p) ==
  IF ~c.marked \/ (b.initialized /\ IncrementOperatorPeriodFails(b, c.total))
  THEN [book |-> b, paid |-> <<>>]
  ELSE handleOperatorAssetDelegationChanges(b, c.total,
                                            [i \in DOMAIN c.list |-> c.list[i].staker], p)
-----------------------------------------------------------------------------
(***************************************************************************)
(* Delegation, from another module: shares of the operator's pool, and the *)
(* hook that marks the staker with what it had before.                     *)
(***************************************************************************)
CalculateShare(p, x) ==
  IF p.total = 0 THEN Dec(x) ELSE SharesFromTokens(p.total, x, p.amount)

DelegateTo(p, s, x, reward) ==
  [p EXCEPT !.amount = @ + x, !.total = @ + CalculateShare(p, x),
            !.share[s] = IF reward THEN @ ELSE @ + CalculateShare(p, x),
            !.reward[s] = IF reward THEN @ + CalculateShare(p, x) ELSE @]

\* Mutant: the total is not the one before the epoch's first change.
MarkLatestTotal(c, s, p) ==
  [marked |-> TRUE, total |-> Dec(p.amount),
   list |-> IF PreStake(c, s) >= 0 THEN c.list
            ELSE Append(c.list, [staker |-> s, stake |-> PreDelegatedAmount(p, s)])]

MarkChangedDelegations(c, s, p) ==
  [marked |-> TRUE, total |-> IF c.marked THEN c.total ELSE Dec(p.amount),
   list |-> IF PreStake(c, s) >= 0 THEN c.list
            ELSE Append(c.list, [staker |-> s, stake |-> PreDelegatedAmount(p, s)])]

Delegate(s, x) ==
  /\ changed < MaxChanges /\ epoch < MaxEpoch
  /\ ~SharesFromTokensFails(pool.total, pool.amount)
  /\ pool' = DelegateTo(pool, s, x, FALSE)
  /\ changes' = MarkChangedDelegations(changes, s, pool)
  /\ changed' = changed + 1
  /\ UNCHANGED <<epoch, blockSlashed, valued, book, events, undelegations, funds, slashes, withdrawals>>

\* The last crumbs leave with the rest (ValidateUndelegationAmount).
UndelegatedShare(had, x) ==
  LET share == SharesFromTokens(pool.total, x, pool.amount)
  IN  IF had - share < SharesFromTokens(pool.total, 1, pool.amount) THEN had ELSE share

ValidateUndelegationAmountFails(had, x) ==
  pool.amount = 0 \/ SharesFromTokens(pool.total, x, pool.amount) \notin 1 .. had

RemoveShare(s, share, reward) ==
  [pool EXCEPT !.amount = @ - RemovedToken(share, pool.total, pool.amount),
               !.total = @ - share,
               !.share[s] = IF reward THEN @ ELSE @ - share,
               !.reward[s] = IF reward THEN @ - share ELSE @]

UndelegateFrom(s, x) ==
  /\ changed < MaxChanges /\ epoch < MaxEpoch
  /\ ~ValidateUndelegationAmountFails(pool.share[s], x)
  /\ pool' = RemoveShare(s, UndelegatedShare(pool.share[s], x), FALSE)
  /\ changes' = MarkChangedDelegations(changes, s, pool)
  /\ changed' = changed + 1
  /\ UNCHANGED <<epoch, blockSlashed, valued, book, events, undelegations, funds, slashes, withdrawals>>
-----------------------------------------------------------------------------
(***************************************************************************)
(* Undelegation of claimed rewards.  The delegation module removes the     *)
(* shares and keeps the record (amount, actual); this module takes the     *)
(* shares of the requested amount from its own record of them, and keeps   *)
(* in the record what the AVS is to pay back (avsAmount, avsActual).       *)
(***************************************************************************)
reduceDelegationShareFails(s, x) ==
  \/ TokensFromSharesFails(book.shares[s], pool.total, pool.amount)
  \/ TokensFromShares(book.shares[s], pool.total, pool.amount) < x

reduceDelegationShare(b, s, x, penalty) ==
  [b EXCEPT !.shares[s] = @ - SharesFromTokens(pool.total, x, pool.amount),
            !.pending[s] = @ + Dec(x),
            !.pendingSlashed[s] = @ + Dec(TruncateInt(penalty * x))]

UndelegateClaimedRewards(s, x, penalty) ==
  LET share   == UndelegatedShare(pool.reward[s], x)
      removed == RemovedToken(share, pool.total, pool.amount)
      charged == TruncateInt(penalty * x)
  IN
  /\ changed < MaxChanges /\ epoch < MaxEpoch /\ Len(undelegations) < MaxUndelegations
  /\ ~ValidateUndelegationAmountFails(pool.reward[s], x)
  /\ ~reduceDelegationShareFails(s, x)
  /\ pool' = RemoveShare(s, share, TRUE)
  /\ book' = reduceDelegationShare(book, s, x, penalty)
  /\ undelegations' = Append(undelegations,
       [staker |-> s, amount |-> removed, actual |-> removed - charged,
        avsAmount |-> x, avsActual |-> x - charged])
  /\ changes' = MarkChangedDelegations(changes, s, pool)
  /\ changed' = changed + 1
  /\ UNCHANGED <<epoch, blockSlashed, valued, events, funds, slashes, withdrawals>>

CompleteRewardUndelegationFails(r) ==
  \/ Dec(r.avsAmount) > book.pending[r.staker]
  \/ Dec(r.avsAmount - r.avsActual) > book.pendingSlashed[r.staker]

\* When a record is due is the delegation module's; its EndBlock keeps one that fails.
CompleteRewardUndelegation(i) ==
  LET r == undelegations[i] IN
  /\ ~CompleteRewardUndelegationFails(r)
  /\ book' = [book EXCEPT !.pending[r.staker] = @ - Dec(r.avsAmount),
                          !.pendingSlashed[r.staker] = @ - Dec(r.avsAmount - r.avsActual),
                          !.withdrawable[r.staker] = @ + Dec(r.avsActual),
                          !.redelegated = @ - Dec(r.avsActual)]
  /\ undelegations' = RemoveAt(undelegations, i)
  /\ UNCHANGED <<epoch, blockSlashed, pool, valued, changes, events, funds, changed, slashes,
                 withdrawals>>

\* A record that has nothing left is not slashed any more.
SlashFromUndelegation(r, fraction) ==
  LET slash    == TruncateInt(fraction * r.amount)
      avsSlash == MinOf(TruncateInt(fraction * r.avsAmount), r.avsActual)
  IN  IF r.actual = 0 THEN r
      ELSE [r EXCEPT !.actual = IF slash >= @ THEN 0 ELSE @ - slash, !.avsActual = @ - avsSlash]

\* What a slash takes from the records of s.
SlashedFrom(before, after, s) ==
  Sum([i \in DOMAIN before |->
         IF before[i].staker = s THEN before[i].avsActual - after[i].avsActual ELSE 0])

SlashRewardUndelegations(b, after) ==
  [b EXCEPT !.pendingSlashed =
     [s \in Stakers |-> @[s] + Dec(SlashedFrom(undelegations, after, s))]]
-----------------------------------------------------------------------------
(***************************************************************************)
(* Slash: the pool, the operator's unclaimed rewards, then the hook.       *)
(***************************************************************************)
SlashPool(amount) ==
  IF amount = pool.amount
  THEN [amount |-> 0, total |-> 0, share |-> [s \in Stakers |-> 0],
        reward |-> [s \in Stakers |-> 0]]
  ELSE [pool EXCEPT !.amount = @ - amount]

SlashOperatorUnclaimedRewards(b, fraction, priced) ==
  LET slashed == IF priced THEN Mul(b.outstanding, fraction) ELSE 0
  IN  [b EXCEPT !.outstanding = @ - slashed, !.slashed = @ + slashed]

\* The total the period that the slash closes was earned with: the one before
\* the epoch's first change, or the one before the slash.
PreDelegationAmount == IF changes.marked THEN changes.total ELSE Dec(pool.amount)

\* Mutant: the period of the slash is not referenced by its event.
EventWithoutReference(b, amount) ==
  LET begun == IF b.initialized THEN b
               ELSE initializeOperatorPeriod(b, changes, SlashPool(amount))
  IN  IncrementOperatorPeriod(begun, PreDelegationAmount)

\* The period is closed, and referenced by the event that SetOperatorSlashEvent stores.
HandleOperatorSlashEvent(b, amount) ==
  LET begun == IF b.initialized THEN b
               ELSE initializeOperatorPeriod(b, changes, SlashPool(amount))
      ended == IncrementOperatorPeriod(begun, PreDelegationAmount)
  IN  [ended EXCEPT !.hist = incrementReferenceCount(@, begun.current.period)]

HandleOperatorSlashEventFails(b) ==
  b.initialized /\ IncrementOperatorPeriodFails(b, PreDelegationAmount)

\* An event is keyed by its epoch and height: the second slash of a block
\* replaces the event of the first.
SetOperatorSlashEvent(evs, e) ==
  IF blockSlashed THEN Append(Front(evs), e) ELSE Append(evs, e)

\* A slash of the pool that truncates to nothing reaches no asset of the
\* hook, which then closes no period.  The undelegations submitted after the
\* infraction, those from the one numbered since, are slashed too.
Slash(fraction, priced, since) ==
  LET amount == TruncateInt(fraction * pool.amount)
      left   == [i \in DOMAIN undelegations |->
                   IF i >= since THEN SlashFromUndelegation(undelegations[i], fraction)
                   ELSE undelegations[i]]
      taken  == SlashOperatorUnclaimedRewards(SlashRewardUndelegations(book, left), fraction, priced)
      failed == HandleOperatorSlashEventFails(taken)
      ended  == IF book.initialized THEN book.current.period ELSE 1
  IN
  /\ slashes < MaxSlashes /\ epoch < MaxEpoch
  /\ OncePerBlock => ~blockSlashed
  /\ slashes' = slashes + 1
  /\ pool' = IF amount > 0 THEN SlashPool(amount) ELSE pool
  /\ valued' = (pool.amount > amount)
  /\ undelegations' = left
  /\ IF amount = 0 \/ failed
     THEN book' = taken /\ UNCHANGED <<events, blockSlashed>>
     ELSE /\ book' = HandleOperatorSlashEvent(taken, amount)
          /\ events' = SetOperatorSlashEvent(events,
               [epoch |-> epoch, period |-> ended, fraction |-> fraction,
                rewards |-> priced /\ book.outstanding > 0])
          /\ blockSlashed' = TRUE
  /\ UNCHANGED <<epoch, changes, funds, changed, withdrawals>>

NewBlock ==
  /\ blockSlashed
  /\ blockSlashed' = FALSE
  /\ UNCHANGED <<epoch, pool, valued, changes, book, events, undelegations, funds, changed, slashes,
                 withdrawals>>
-----------------------------------------------------------------------------
(***************************************************************************)
(* The end of an epoch                                                     *)
(***************************************************************************)
\* How an epoch's rewards divide: the operator's reward, its commission, and
\* the part of the pool.  The rest is for the community.
Shared(fee, proportion, split) ==
  LET reward     == MulTruncate(MulTruncate(Dec(fee), One - CommunityTax), proportion)
      commission == MulTruncate(reward, CommissionRate)
  IN  [commission |-> commission, stakers |-> MulTruncate(reward - commission, split)]

\* Mutant: the part of the reward that no pool takes is kept by nobody.
ForgetLeftover(b, fee, proportion, split) ==
  LET part  == Shared(fee, proportion, split)
      begun == IF part.stakers = 0 \/ b.initialized THEN b
               ELSE initializeOperatorPeriod(b, changes, pool)
  IN  [begun EXCEPT !.current.rewards = @ + part.stakers, !.outstanding = @ + part.stakers,
                    !.community = @ + Dec(fee) - MulTruncate(MulTruncate(Dec(fee), One - CommunityTax),
                                                             proportion)]

AllocateRewardsByAVS(b, fee, proportion, split) ==
  LET part  == Shared(fee, proportion, split)
      begun == IF part.stakers = 0 \/ b.initialized THEN b
               ELSE initializeOperatorPeriod(b, changes, pool)
  IN  [begun EXCEPT !.current.rewards = @ + part.stakers, !.outstanding = @ + part.stakers,
                    !.community = @ + Dec(fee) - part.commission - part.stakers]

\* The claimed rewards of the stakers that were paid are delegated, without
\* their fraction of a token, and their rewards are distributed once more.
BatchRedelegateClaimedRewards(b, p, paid) ==
  LET list == SelectSeq(paid, LAMBDA s : s \in Redelegators /\ TruncateInt(b.claimed[s]) > 0)
      Redelegate(acc, s) ==
        [book |-> [acc.book EXCEPT !.claimed[s] = 0, !.redelegated = @ + b.claimed[s],
                                !.shares[s] = @ + CalculateShare(acc.pool, TruncateInt(b.claimed[s]))],
         pool |-> DelegateTo(acc.pool, s, TruncateInt(b.claimed[s]), TRUE)]
      after == FoldLeft(Redelegate, [book |-> b, pool |-> p], list)
  IN  IF \/ list = <<>>
         \/ SharesFromTokensFails(p.total, p.amount)
         \/ IncrementOperatorPeriodFails(after.book, Dec(p.amount))
      THEN [book |-> b, pool |-> p]
      ELSE [book |-> handleOperatorAssetDelegationChanges(after.book, Dec(p.amount), list,
                                                          after.pool).book,
            pool |-> after.pool]

\* The fees are moved before they are allocated.  The allocation fails when the
\* pool is worth more than the operator's active value, which a slash may have
\* set to zero since the last epoch.
AfterEpochEnd(fee, proportion, split) ==
  LET allocated == IF split > One THEN book
                   ELSE IF fee = 0 THEN book
                   ELSE AllocateRewardsByAVS(book, fee, proportion, split)
      handled   == HandleChangedDelegations(allocated, changes, pool)
      batch     == BatchRedelegateClaimedRewards(handled.book, pool, handled.paid)
  IN
  /\ epoch < MaxEpoch
  /\ valued <=> split > 0
  /\ split > One => proportion > 0 /\ fee > 0 /\ \E i \in DOMAIN events : events[i].epoch = epoch
  /\ book' = batch.book
  /\ pool' = batch.pool /\ valued' = (batch.pool.amount > 0)
  /\ funds' = [funds EXCEPT
       !.bank = @ + fee, !.balance = @ + Dec(fee),
       !.unallocated = IF split > One THEN @ + Dec(fee) ELSE @,
       !.commission = IF split > One THEN @ ELSE @ + Shared(fee, proportion, split).commission]
  /\ changes' = NoChanges
  /\ epoch' = epoch + 1
  /\ blockSlashed' = FALSE
  /\ UNCHANGED <<events, undelegations, changed, slashes, withdrawals>>
-----------------------------------------------------------------------------
(***************************************************************************)
(* Transactions of the stakers and of the operator                         *)
(***************************************************************************)
getDelegatedAmountAtPreEpochEnd == IF changes.marked THEN changes.total ELSE Dec(pool.amount)

\* A delegation that started in the previous epoch has nothing to claim yet.
Claimable(s) == book.starting[s] # NoInfo /\ book.starting[s].epoch # epoch - 1

ClaimDelegationRewardsFails(s) ==
  \/ IncrementOperatorPeriodFails(book, getDelegatedAmountAtPreEpochEnd)
  \/ calculateDelegationRewardsFails(
       IncrementOperatorPeriod(book, getDelegatedAmountAtPreEpochEnd), events,
       book.current.period, book.starting[s])

ClaimDelegationRewards(s) ==
  /\ epoch < MaxEpoch /\ Claimable(s) /\ ~ClaimDelegationRewardsFails(s)
  /\ book' = distributeRewardsToDelegation(
               IncrementOperatorPeriod(book, getDelegatedAmountAtPreEpochEnd),
               s, FALSE, book.current.period, pool)
  /\ UNCHANGED <<epoch, blockSlashed, pool, valued, changes, events, undelegations, funds, changed,
                 slashes, withdrawals>>

\* A request x of a reward, 0 for all of it, as far as the AVS has funds.
\* Whole coins are sent, and the fraction goes to the community pool.
generalWithdrawFromAVS(reward, x, balance) ==
  MinOf(balance, IF x = 0 THEN reward ELSE MinOf(reward, Dec(x)))

\* First the outstanding rewards, then, for what is missing, the withdrawable ones.
WithdrawRewardFromDogfood(s, x) ==
  LET first  == generalWithdrawFromAVS(book.claimed[s], x, funds.balance)
      rest   == x - TruncateInt(first)
      second == IF x > 0 /\ rest <= 0 THEN 0
                ELSE generalWithdrawFromAVS(book.withdrawable[s], IF x = 0 THEN 0 ELSE rest,
                                            funds.balance - first)
      coins  == TruncateInt(first) + TruncateInt(second)
  IN
  /\ withdrawals < MaxWithdrawals /\ first + second > 0 /\ coins <= funds.bank
  /\ withdrawals' = withdrawals + 1
  /\ funds' = [funds EXCEPT !.bank = @ - coins, !.balance = @ - first - second]
  /\ book' = [book EXCEPT !.claimed[s] = @ - first, !.withdrawable[s] = @ - second,
                          !.community = @ + first + second - Dec(coins)]
  /\ UNCHANGED <<epoch, blockSlashed, pool, valued, changes, events, undelegations, changed, slashes>>

WithdrawCommissionFromDogfood ==
  LET actual == generalWithdrawFromAVS(funds.commission, 0, funds.balance)
  IN
  /\ withdrawals < MaxWithdrawals /\ actual > 0 /\ TruncateInt(actual) <= funds.bank
  /\ withdrawals' = withdrawals + 1
  /\ funds' = [funds EXCEPT !.bank = @ - TruncateInt(actual), !.balance = @ - actual,
                            !.commission = @ - actual]
  /\ book' = [book EXCEPT !.community = @ + actual - Dec(TruncateInt(actual))]
  /\ UNCHANGED <<epoch, blockSlashed, pool, valued, changes, events, undelegations, changed, slashes>>

Next ==
  \/ \E s \in Stakers, x \in Amounts : Delegate(s, x) \/ UndelegateFrom(s, x)
  \/ \E s \in Stakers, x \in Amounts, penalty \in InstantPenalties :
       UndelegateClaimedRewards(s, x, penalty)
  \/ \E i \in DOMAIN undelegations : CompleteRewardUndelegation(i)
  \/ \E f \in Fractions, priced \in RewardsPriced, since \in 1 .. Len(undelegations) + 1 :
       Slash(f, priced, since)
  \/ NewBlock
  \/ \E fee \in Fees, q \in Proportions, split \in Splits \cup {0, One + 1} :
       AfterEpochEnd(fee, q, split)
  \/ \E s \in Stakers : ClaimDelegationRewards(s)
  \/ \E s \in Stakers, x \in Amounts \cup {0} : WithdrawRewardFromDogfood(s, x)
  \/ WithdrawCommissionFromDogfood

Spec == Init /\ [][Next]_vars
-----------------------------------------------------------------------------
(***************************************************************************)
(* Properties                                                              *)
(***************************************************************************)
OfStaker(s, Of(_)) ==
  Sum([i \in DOMAIN undelegations |->
         IF undelegations[i].staker = s THEN Dec(Of(undelegations[i])) ELSE 0])

\* Every token of the module's account is owed exactly once: to stakers, to the
\* operator, to the community, to delegated rewards, or not allocated at all; and
\* what is pending, or slashed while pending, is what the records say.  No part
\* is negative, so that each can be paid, but for one token of the delegated
\* rewards for each change of a delegation so far: of those an undelegation of
\* rewards has the AVS pay back the amount asked for, while the pool gives up what
\* the truncated share of that amount is worth.
RewardsConserved ==
  /\ Dec(funds.bank) = book.outstanding + book.slashed + book.community + book.redelegated
                         + Sum(book.claimed) + Sum(book.withdrawable)
                         + funds.commission + funds.unallocated
  /\ \A x \in {book.outstanding, book.slashed, book.community, book.redelegated + Dec(changed),
               funds.commission, funds.unallocated} : x >= 0
  /\ \A s \in Stakers :
       /\ book.claimed[s] >= 0 /\ book.withdrawable[s] >= 0
       /\ book.pending[s] = OfStaker(s, LAMBDA r : r.avsAmount)
       /\ book.pendingSlashed[s] = OfStaker(s, LAMBDA r : r.avsAmount - r.avsActual)

\* How often a period is referred to: by the current rewards, by the starting
\* infos and by the slash events.
References(p) ==
  (IF p = book.current.period - 1 THEN 1 ELSE 0)
    + Cardinality({s \in Stakers : book.starting[s] # NoInfo /\ book.starting[s].period = p})
    + Cardinality({i \in DOMAIN events : events[i].period = p})

\* The reference counts are exact and every period referred to has its ratio:
\* a ratio is neither deleted while it is needed nor kept when it is not.
ReferencesExact ==
  book.initialized =>
    \A p \in 0 .. book.current.period :
      IF References(p) = 0 THEN p \notin DOMAIN book.hist
      ELSE p \in DOMAIN book.hist /\ book.hist[p].refs = References(p)

\* What the delegation module accepts of an undelegation of rewards, this
\* module's own record of the shares does not refuse, but for its last token.
RewardUndelegationsAccepted ==
  \A s \in Stakers, x \in 1 .. pool.amount :
    ~ValidateUndelegationAmountFails(pool.reward[s], x) =>
      /\ ~TokensFromSharesFails(book.shares[s], pool.total, pool.amount)
      /\ x <= TokensFromShares(book.shares[s], pool.total, pool.amount) + 1

\* No claim of a delegation with rewards to claim is refused, nor the completion
\* of an undelegation of rewards, nor such an undelegation; unless the pool was
\* slashed to zero, which clears the shares of the delegation module and not
\* this module's record of them.
RequestsSucceed ==
  /\ \A s \in Stakers : Claimable(s) => ~ClaimDelegationRewardsFails(s)
  /\ \A r \in Range(undelegations) : ~CompleteRewardUndelegationFails(r)
  /\ (\A e \in Range(events) : e.fraction < One) => RewardUndelegationsAccepted

\* What a delegation would be paid if the current period were closed now.
Earned(s) ==
  IF book.starting[s] = NoInfo THEN 0
  ELSE calculateDelegationRewards(
         IncrementOperatorPeriod(book, getDelegatedAmountAtPreEpochEnd), events,
         book.current.period, book.starting[s]).rewards

\* The operator's unclaimed rewards cover what its delegations have earned, so
\* that the intersection in distributeRewardsToDelegation only cuts the last
\* digits that the rounding of slashed rewards moves.  A slash that took rewards
\* and left no event, since it took nothing of the pool, is exempt.  It is a
\* statement about one slash: a second one takes its part of all the unclaimed
\* rewards, but calculateDelegationRewards only reduces those since the first.
PromisesCovered ==
  book.initialized /\ (book.slashed = 0 \/ slashes = Len(events)) =>
    Sum([s \in Stakers |-> Earned(s)])
      <= IncrementOperatorPeriod(book, getDelegatedAmountAtPreEpochEnd).outstanding
           + Cardinality(Stakers) * Len(SelectSeq(events, LAMBDA e : e.rewards))
=============================================================================
