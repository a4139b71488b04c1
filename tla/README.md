# Imuachain in TLA+

Imuachain is a restaking chain. Stakers of assets on other chains (liquid
staking tokens, "LST"; native restaking of validators on a client chain, "NST")
and of the chain's own token delegate them to operators. Operators opt in to
services (AVSs), of which the chain's own validator set (x/dogfood) is one.
Voting power follows the value of what is delegated, misbehaviour is slashed
from the delegated assets and from the undelegations that were still bound at
the time of the infraction.

This directory holds TLA+ models of that machinery, the configurations that
check them with TLC on small instances, and proofs checked by TLAPS.

- [The system](#the-system)
- [Modules](#modules)
- [Runs](#runs)
- [Bounds, fairness, deadlock](#bounds-fairness-deadlock)
- [What is proved](#what-is-proved)
- [Where comments and code disagree](#where-comments-and-code-disagree)
- [What is not modelled, and the plan](#what-is-not-modelled-and-the-plan)

## The system

| part | what it does | here |
|---|---|---|
| `x/assets` | balances of stakers and operators per asset, deposits and withdrawals reported by the client-chain gateways | `Delegation` |
| `x/delegation` | delegation, undelegation records and their completion, association of a staker with an operator, NST balance changes | `Delegation`, `ShareMath` |
| `x/operator` | opting in and out, USD values and voting power with snapshots, consensus keys, jail, freeze, slashing | `VotingPower`, `Dogfood`; `SlashAssets` in `Delegation` |
| `x/dogfood` | the validator set: opt-outs and key pruning by epoch, updates for CometBFT, the staking interface of x/slashing and x/evidence | `Dogfood` |
| `x/epochs` | epochs by identifier, hooks at their end | an action of each module |
| `x/avs`, `precompiles/avs` | registration of AVSs, BLS keys, two-phase tasks, statistics, challenges | `AvsTasks` |
| `x/feedistribution`, `precompiles/reward` | allocation and claims of rewards, delegation of rewards | `Rewards`; `Delegation` has the ledger's side of delegated rewards |
| `x/oracle` | prices by weighted votes of validators, averages, NST balance reports | `Oracle`, `PriceStore`, `NativeBalances` |
| `x/appchain` | coordinator and subscriber of chains that borrow the validator set | not modelled: `app/app.go` has neither module |
| `x/immint` | mints a reward at the end of an epoch | not modelled: its tokens are the fees of `Rewards` |
| `precompiles/assets`, `precompiles/delegation` | Solidity entry points of the ledger | their effect: the actions of `Delegation` and `NativeBalances` |
| `app/ante` | transaction checks | the nonces of price messages, in `Oracle` |
| `x/evm`, `app`, `cmd`, `client`, `utils` | EVM adapter, wiring, command line | not modelled |

How they interact. In BeginBlock x/epochs compares the block time with the end
of every epoch and calls the hooks of the others, in the order mint, oracle,
distribution, operator, dogfood, avs (`app/app.go`). x/operator recomputes the
voting powers, stores a snapshot of them and removes old ones, x/dogfood marks
what has matured and raises its update flag, x/avs closes the statistics of tasks. Transactions
follow: those of stakers and operators, and, with power over both, slashes that
x/slashing and x/evidence report in BeginBlock. In EndBlock x/dogfood applies
opt-outs and sends validator updates, x/delegation completes the undelegations
whose epoch is over, and, last, x/oracle commits the rounds whose prices
validators agreed on, and jails validators that missed rounds or quoted a false
price.

An undelegation is bound to all of this: it completes at the end of the longest
unbonding duration among the AVSs of its operator, until then it can be held
(hold count) and slashed for infractions before its submission, which are found
by the snapshot of the block of the infraction. Delegations, undelegations and
slashes also call x/feedistribution, which keeps what the stakes were before
the epoch's first change, because the rewards of an epoch are for those. The
oracle's second phase collects the balances of native restakers and changes the
ledger by the difference.

## Modules

An error return is a guard, because a failed transaction is rolled back; where
the code continues after an error (EndBlock of x/delegation) that is an action.
Decimals (`LegacyDec`) are integers in units of `1/Precision`, with the rounding
of the code.

| module | models |
|---|---|
| `Sums` | sums over finite sets |
| `ShareMath` | tokens and shares (`x/delegation/keeper/share.go`), the rounding of `LegacyDec` |
| `LedgerState` | the ledger of one asset: its state, and what must hold of it |
| `Delegation` | the operations of that ledger |
| `VotingPower` | opting in and out of one AVS, its powers and their snapshots |
| `Dogfood` | consensus keys, jail and the validator set |
| `AssetCustody` | what the ledger promises, abstractly; `Delegation` implements it |
| `AvsTasks` | AVSs and their tasks |
| `Oracle` | rounds, quotes, nonces, reviews, both phases and recovery of the price oracle |
| `PriceStore` | the stored prices of a token and their average (TWAP) |
| `NativeBalances` | the reports of native restaking balances and the versions they are for |
| `Rewards` | the rewards of one operator and the stakers of its pool |
| `MC...` | instances for TLC |
| `LedgerSteps` | the inductive invariants of the ledger and the kinds of steps it takes, for the proofs |
| `ArithmeticProofs` | theorems about `Sums` and `ShareMath` |
| `RecordProofs`, `LedgerProofs`, `DelegationProofs` | theorems about the ledger |
| `VotingPowerProofs`, `DogfoodProofs`, `AvsTasksProofs`, `NativeBalancesProofs` | theorems about these modules |

### Delegation

| variable | code |
|---|---|
| `stakerAsset` | `StakerAssetInfo` |
| `operatorAsset` | `OperatorAssetInfo` |
| `delegation`, `stakerList` | `DelegationAmounts`, `StakersByOperator` |
| `associated` | `AssociatedOperatorByStaker` |
| `undelegation`, `lastUndelegationID` | undelegation records by id |
| `stakingTotalAmount` | `StakingTotalAmount` of the asset |
| `bank`, `delegatedPool` | balances of accounts and of the module, for the native token |
| `phase`, `todo` | EndBlock under way: the records it picked |
| `rewardIn` | what was delegated from rewards (no code: for the properties) |

Actions are the transactions (deposit, withdrawal, delegation, undelegation,
with and without instant penalty, association, dissociation, an NST balance
change), the slash of x/operator, holding and releasing a record, and
BeginBlock and EndBlock. EndBlock picks records in the order of the store up to
`MaxUndelegationCompletions` and completes each in a cache context of its own,
so one record is one step.

`AssetCustody` knows only where tokens are: in the vault, free, in pools, or in
tickets on their way back. `Delegation` instantiates it as `Custody`: `free` is
the withdrawable amount (the account's balance for the native token), a ticket
is an undelegation record and pays `ActualCompletedAmount`. `CustodyImplemented`
says that every step of the ledger is one of its steps or none: tokens reach a
holder by its own deposit or by one of its own tickets, which is paid once and is
worth no more than its pool gave up; a slash only takes, and a reported loss
takes only from the staker's own tickets.

### VotingPower

One AVS with one epoch identifier; the height of blocks is explicit because
snapshots are keyed by it. `UpdateVotingPower` runs at the end of an epoch and
inside a slash, several times in a block. Snapshots without a change refer to
an older one by `LastChangedHeight`; `ClearVotingPowerSnapshot` removes those
older than the unbonding duration. At the end of an epoch an AVS whose update
fails keeps its powers and gets neither a snapshot nor the removal
(`x/operator/keeper/impl_epoch_hook.go:29` and `41`). The model leaves that out:
in it every update succeeds. Updates fail on errors of the valuation (prices,
decimals, the value of rewards) and of the store.

### Dogfood

The lookup from a consensus key to its operator outlives the key's use, as
evidence arrives late. Opt-outs and replaced keys are scheduled
`EpochsUntilUnbonded` epochs ahead. The parts of x/slashing and x/evidence that
the code calls are modelled from those calls. CometBFT applies the updates of a
block two blocks later; the model applies them at once. A block without the update flag
changes nothing, so the model steps from flag to flag. `OracleJail` is what
x/oracle does to a validator that missed too many rounds or quoted a false price
(`handleMissCount`, `handleMalicious`). It runs after x/dogfood's EndBlock, so
that a flag it raises waits for the next block: `late` says that the flag is of
that kind, and the epoch may end before it is handled. Which validators it is
about is left open: any key that was in the validator set up to an epoch ago.

`TombstonedKeyNotReused` and `JailTermServed` leave out the operators in
`unhooked`: those that replaced a key twice between two updates of the validator
set. `JailTermServed` also leaves out those in `misfiled`: x/oracle found their
fault under a key they had replaced and wrote the term under that key
(`sentence` remembers it for the property). `PunishedHoldNoPower` is about the
key an operator now uses, not about one it replaced. These are cases the code
does not handle, see [below](#where-comments-and-code-disagree).

### AvsTasks

A task belongs to the address of a task contract; which AVS that is, and which
epoch identifier its windows are measured in, is looked up anew at every step.
Signatures are pairs of a key and a response: an operator may hand in any of
them, its own or another's. `Spellings` are the ways to write an address:
results are stored under the lower-case one but remember how it was written.
`Difference` is the symmetric difference that the code calls by that name. The
periods of a task are natural numbers; the code converts them from `uint64` to
`int64` (`x/avs/keeper/keeper.go:605`, `635`, `642`), which changes periods of 2^63
and more.
Tasks whose AVS changed its identifier or task address, or left, are collected
in `disturbed`: the code has no rule for them and the properties about windows
leave them out.

### Oracle and PriceStore

The variables are in two groups: what is in the store (prices, nonces, recent
messages and parameters, reports about validators, trees of the second phase)
and what the feeder manager keeps in memory (rounds with their quotes and
tallies). `EndBlock` is one action, in the order of the code: rounds become
committable, are processed, quotes are reviewed, parameters are applied, expired
rounds removed, rounds prepared for the next block, nonces set up. It takes the
powers x/dogfood chose in the same block; when they changed, all rounds are
sealed. `Restart` replaces the memory by `Recovered`, the replay of recent
blocks from the store; it can happen at the beginning of any block.

There is one deterministic source: a quote is one of its detIDs and a price.
Honest validators quote what the source says, the others anything. A Merkle
tree is its number of leaves and the pieces that arrived; proofs are a piece's
being genuine. The copies of the manager for CheckTx, changes of the slashing
parameters and timestamps are left out. `PriceStore` is the arithmetic of
`prices.go`: rounds are appended or repeat the last price, only changes of the
price are accumulated, old rounds are pruned, and the epoch's end computes the
average and restarts the sum.

### NativeBalances

The oracle keeps, per client chain, versions that deposits and withdrawals
raise, a record per staker and, in memory, the list of stakers by index. The
feeders, outside the repository, report the balances of the stakers at the feed
versions, by index; the report arrives while deposits and withdrawals go on and
is applied with all its entries or not at all. A transaction may be reverted in
the EVM after the precompile's call: the store is rolled back, the list in memory is
not. A restart empties the list, and its next use reads it from the store.
Balances are integers modulo `Modulus` (2^64), because a balance at an older
version is a difference of unsigned numbers.

`ledger` is the staker's stake, as far as a report changes it: the total and the
withdrawable amount of x/assets, what its undelegation records are still worth,
what its share of each operator is worth, where it has a delegation entry, and
where a share in it. `UpdateNSTBalance` takes a loss from these in that order;
of the delegations it removes a proportion, capped and truncated, and what it
cannot take it only logs: `past.left` counts that. An entry of share zero, or a
proportion of a share that rounds to zero, makes it fail, and the whole report
with it (`Blocked`, `MayRefuse`). `DelegateTo`, `UndelegateFrom`, `Complete` and
`SlashAssets` move a stake between its parts and shrink it; `Delegation` has them
in full. Here a share is known by what it is worth, so that rounding is a choice:
`Reduced` allows every cut between the bounds of the code's two roundings, and a
share may become worth a token more when others round. That is more than the
code can do, which is safe for `BalancesExact`; `overdrawn` (a withdrawal of more
than the oracle knew of, which the oracle sets to zero) may be one of the
behaviours it adds.

The asset is taken to have the oracle's decimals: `convertDecimal` refuses an
amount that is not a whole number of the other's units. Errors of the hook
`AfterNSTDelegationSlashed`, the history of balances and the validators of a
staker are left out.

### Rewards

One operator with one pool, the dogfood AVS and one epoch identifier. `book`
is the state of the distribution module for them, `pool` the ledger's side,
`changes` what the hooks of x/delegation marked in this epoch, `events` the slash
events, `funds` the module's account, the operator's commission and the AVS's
balance. The epoch's end is one action: the fees are moved and allocated, changed
delegations are paid and restarted, and claimed rewards of the stakers that ask
for it are delegated again. The operator's share of the voting power and the
pool's share of the operator's value are inputs, as is whether a slash can value the rewards;
that the pool may be valued above the operator's active value after a slash in
the same epoch (the allocation then fails and the fees stay unallocated) is
one of the inputs' cases. Compounding of rewards is disabled for the operator,
and it is never frozen (`reward_delegation.go:41` refuses to redelegate to a
frozen one).

Delegated rewards can be undelegated. `undelegations` has the records that
x/delegation keeps of them: `amount` and `actual` are what left the pool and what
slashes left of it, `avsAmount` and `avsActual` the same for the amount the AVS
pays back (`RewardUndelegations` of the record, an entry since there is one AVS).
`pool.reward` are the reward shares as x/delegation counts them, `book.shares`
as x/feedistribution does. A slash takes from the records from some point on,
those submitted since the infraction; when a record is due is left open, since
`Delegation` models that.

## Runs

| run | checks |
|---|---|
| `ledger_lst` | two stakers and an operator, an LST, slashes by half and to nothing: shares match the pool, pending amounts match the records, self-delegation is counted, every amount can leave and an empty pool has no shares, completion is due and exact, `AssetCustody` is implemented |
| `ledger_native` | the native token with delegated rewards and the operator among the stakers: shareholders are listed, pending amounts match, `AssetCustody` is implemented. `OperatorShareIsSelfDelegation` and `CanAlwaysLeave` do NOT hold here, see [below](#where-comments-and-code-disagree) |
| `ledger_nst` | a staker with two operators whose NST balance changes: a record pays between nothing and what was undelegated, an applied decrease loses only rounding, `AssetCustody` is implemented |
| `ledger_liveness` | every undelegation completes, with a completion limit of 1 and holds |
| `snapshots` | the snapshots of slashable blocks give the powers of those blocks; a slash reaches the undelegations since the infraction; opted-out operators delay unbonding as long as they can be slashed |
| `validator_set` | an infraction leads to its operator for the whole unbonding period; keys are not shared and not reused after a tombstone; the punished have no power; jail is served, whether x/slashing, x/evidence or x/oracle imposed it, but for terms filed under a replaced key; opt-outs take effect |
| `avs_tasks` | with two ways to write an address: no copied signature is credited, every task is counted, the statistics are those of one group of results and final, a verdict is the last word |
| `oracle` | three validators, one of which may leave and come back, two prices of the source and a false one, a feeder with overlapping windows added or one ended, restarts: the memory that recovery rebuilds is the one of a node that never stopped; nonces match the open windows; round IDs have no gap; only prices of the source are committed and honest validators are not slashed |
| `oracle_prices` | one validator, a feeder of one phase and up to two of two phases, two epoch ends, restarts: the store follows the raw data that is collected; the TWAP is the average of the epoch's rounds |
| `native_balances` | two stakers and two operators, delegations, slashes, reports prepared for older versions, one revert, one restart: balances are deposits less withdrawals plus what was reported, and the ledger differs from them by what could not be taken; what happens on the client chain arrives, unless `UpdateNSTBalance` refuses it |
| `rewards` | two stakers, one slash, three epoch ends, rewards that are delegated, undelegated, slashed on the way and withdrawn: every token is owed exactly once, reference counts are exact, no claim and no completion is refused, what delegations have earned is covered |
| `oracle_restart` | refuted: that a node can start while raw data is being collected |

Every property of a passing run has a mutant in `PROJECT.json`: a plausible bug
in one definition (a dropped check, an off-by-one, a missing reset) that makes
TLC find the property violated. The mutated forms stand before the definitions
they replace and are used nowhere else.

Some passing properties hold because of an exception or a choice of constants,
and say no more than this:

- `SnapshotGivesPower` leaves out the blocks whose powers were overwritten;
  without the exception it is `FallbackFindsPower`, which fails.
- `StatisticsFinal`, `EveryTaskCounted` and `VerdictFinal` leave out the
  `disturbed` tasks, and `EveryTaskCounted` also those whose AVS had no power
  when they were due (`uncounted`).
- `StatisticsFinal` says what the code computes: the operators of one group of
  results, and the symmetric difference. That these are the operators that signed,
  and those that did not, are two of the disagreements below.
- `avs_tasks` has one epoch identifier: with two the state space is out of reach,
  so a change of identifier is not exercised.
- `JailTermServed` leaves out the operators in `unhooked` and `misfiled`; without
  the latter it is `OracleTermServed`, which fails.
- `ActualWithinAmount` and `CustodyImplemented` are checked with a penalty of 25
  or 50; with 100 the first fails, and a ticket may be worth less than nothing.
- `NSTDecreaseLosesCrumbs` is about decreases that do not fail.
- `OperatorShareIsSelfDelegation` and `CanAlwaysLeave` are checked without
  delegated rewards.
- `oracle` has one update of the token feeders, at a height from which the
  replay does not reach genesis, and the feeder that ends is the only one and
  does not end with its window. Each of these choices hides a disagreement
  listed below.
- `OnlyTruePrices` and `HonestNeverSlashed` assume, for every set of validators,
  that those that do not follow the source cannot exceed the threshold alone
  (`HonestEnough`, true in the run).
- `PhaseTwoStored` lets the store count fewer pieces than are in memory: one
  that arrives in the block that commits the next round is counted a block late.
  Its run has one validator, so no seal; a seal while collecting is not exercised.
- `TwapIsAverage` is about epochs all of whose rounds had a price.
- `NoncesMatchWindows` is about windows of one length, which therefore close in
  the order they opened in: the loop of `nonce.go:136`, which stops at the first
  entry it keeps, removes all it should only because of that.
- `BalancesExact` leaves out the stakers to which a report was applied that did
  not know a withdrawal of theirs (`misread`), and those that withdrew more than
  the oracle knew of (`overdrawn`), which it shows to have delegated. Between the
  ledger and the oracle it allows `past.left`, what `UpdateNSTBalance` did not
  take, and shows it to be nothing for who never delegated.
- `ChangesArrive` leaves out the stakers in `misread` and those one of whose
  transactions was reverted (the list in memory then holds a staker, or a
  withdraw version, that the store does not), and behaviours that end `Stuck`:
  where `UpdateNSTBalance` would refuse a report of the balances of the moment,
  and again the next one. In `native_balances` a change on the client chain never
  makes a reported balance negative.
- `PromisesCovered` is about one slash, allows a unit of the last digit per
  staker and slash that took rewards (slashed rewards are rounded, not
  truncated), and leaves out a slash that took rewards but nothing of the pool.
- `ReferencesExact` and `RequestsSucceed` are checked with at most one slash of
  the operator. `RequestsSucceed` says that rewards can be undelegated only while
  the pool was not slashed to zero, and leaves out the last token, whose share
  x/delegation truncates and x/feedistribution converts back.
- `RewardsConserved` lets the tokens behind delegated rewards miss one for each
  change of a delegation: an undelegation of rewards pays back the amount asked
  for, while the pool gives up what the truncated share of it is worth.

## Bounds, fairness, deadlock

`Precision` is 100 where the code has 10^18: two decimal digits make amounts of
1 to 3 divide unevenly, which is when rounding matters. `Max...` constants
bound the number of transactions, records, blocks and epochs, each in the guard
of the action it limits. Two stakers suffice for a pool with an uneven split
and a last one to leave; two operators for an NST decrease that is spread; two
operators and three keys for a replacement, a reuse and a conflict; two AVSs and
one task address for an address that changes hands. In `snapshots` six blocks
and five transactions hold two epochs with several updates in one block.
Epoch-like constants (unbonding durations, jail) are 0 to 2 because only their
order matters, and `MaxEpoch` reaches past them.

`oracle` has windows of two blocks and rounds of four, up to height 8: two
complete rounds, one validator update at any point of them, and one update of the
parameters, which ends the feeder or adds one whose windows overlap those of the
first; with three messages validator 1 and another can agree, on
either price, or disagree. Powers are 5, 1 and 2 with a threshold of two thirds, so that
validator 3, which is not honest, matters with validator 1 only.
`oracle_prices` keeps two rounds of prices, fewer than an epoch has, so that
pruning happens. In `rewards` a decimal has one digit, so that every division
rounds; epochs 2 to 4 end, which is enough for a stake that changes, is slashed
and is claimed in three different epochs, or for a reward that is delegated,
undelegated and withdrawn. `native_balances` has five deposits, withdrawals,
moves and faults together, at most three of them moves: enough for two stakers, a
deposit after a withdrawal, a restart or revert in between, and a loss of a staker
that left one operator and is with another; all of `left`, `misread` and `Stuck`
occur. `overdrawn` does not: it takes one staker with six such steps, four of
them moves, and two changes on the client chain, where `BalancesExact` also
holds. `avs_tasks` has five epochs and five transactions of AVSs and keys, enough
for an operator that joins after the task was created and answers it. In
`validator_set` the two terms of x/oracle are one and two epochs, one of them
longer than that of x/slashing.

Symmetry is used for stakers, operators, keys, AVSs and spellings where nothing
distinguishes them, and never in a run with a liveness property.

`ledger_liveness` assumes that blocks are produced (weak fairness of the block
steps: consensus is outside), that time passes, so that again and again a block
starts a new epoch (strong fairness: other blocks come between), and that a
hold is released in the end (strong fairness of the release). The last is an
assumption about whoever takes holds: x/delegation offers them to other modules,
and none takes one in this version. Nothing is assumed of users.

`native_balances` assumes that the feeders report again and again (weak fairness
of `Feed`: reporting is what validators are penalised for missing), that a report
comes to an end, applied, refused or lost (weak fairness: a round ends by its
height), and that if reports match the feed versions again and again, they also
reach `UpdateNSTBalanceChange` again and again (strong fairness, written out). The
last is an assumption about the network and the validators, not something the
code enforces. Nothing is assumed about whether a report is then refused: the
stakes decide that, and the same report is refused every time. Nothing is assumed
of stakers.

`CHECK_DEADLOCK FALSE` is set where the bounds on transactions and epochs end
the behaviours. The ledger's runs check for deadlock: at its bounds BeginBlock
still takes place, with the height and the epoch left at their largest values.

## What is proved

Every theorem is for all values of the constants that satisfy the assumptions of
the modules (`PrecisionAssumption`, `DelegationAssumption`,
`VotingPowerAssumption`, `DogfoodAssumption`, `AvsAssumption`,
`NativeBalancesAssumption`), which TLC evaluates in the runs: any sets of stakers, operators, keys and AVSs (finite
where sums are taken), any amounts, durations and bounds, every even precision.
Where a theorem needs more it says so. None of the invariants is inductive as it
stands; each paragraph names the strengthening.

**Shares** (`ArithmeticProofs`, which also has the lemmas on sums).
`RemovedWithinPool`: what is removed from a pool for a share is at most what the
pool has, however `Quo` rounds. `RoundTripNoGain`: tokens turned into shares and
back, in a pool of any price, never gain. `RequestedRemoved`: undelegating x
tokens takes at least x - 1 out of the pool, if the pool has no more tokens than
share units, which `BackedPools` shows of every reachable state.

**The ledger**, for all kinds of assets, in three layers. `LedgerSteps` names the
kinds of steps the ledger takes (`Deposits`, `Delegates`, `Undelegates`,
`Decreases`, `Slashes`, `Completes`, ...): each says by how much which totals and
which records change, and nothing of how the amounts are computed. `LedgerProofs`
shows that each kind preserves each invariant and is a step of `AssetCustody`.
`RecordProofs` and `DelegationProofs` show that every action of `Delegation` is of
one of these kinds (`EveryStep`), which is where divisions, rounding and checks
come in; the theorems are there.

- `TypeCorrect` (`RecordProofs`): no balance, pool or share is ever negative,
  although each is changed by deltas, some of them computed by division. It does
  not cover `ActualCompletedAmount` of a record, see `ActualBounded`. That
  completion subtracts from the right staker needs that EndBlock's records exist
  (`TodoIsLive`), that an undelegation overwrites none needs that ids are fresh
  (`FreshIds`); `RecordInv` is the conjunction with `TypeOK`.
- `PoolSharesMatch` and `ShareholdersListed` (`SharesMatchPool`,
  `ShareholdersAreListed`), together: a slash to zero clears the pool's shares at
  once and the stakers' by the operator's list. Every step moves the shares of a
  pool in one of three ways: not at all, with those of one staker, or all to
  nothing; a lemma on sums does the rest.
- `PendingExact` (`PendingMatchesRecords`), from `RecordInv`: the pending amounts
  kept in three stores are sums over the records. Each step changes one record and
  the three sums it is in by the same number.
- `BackedPools`: a pool never has more tokens than share units (`PoolsBacked`).
- `ActualBounded` (`ActualWithinAmount`), if the penalty of an instant
  undelegation is below 100 per cent. The invariant is `PaidInv`: `PoolsBacked`
  and the property, beside `RecordInv`. The penalty is taken of the amount
  requested and subtracted from the amount removed, which `RequestedRemoved`
  bounds; at 100 the statement is false
  ([below](#where-comments-and-code-disagree)).
- `CompletionExact` (`CompletionIsDueAndExact`, a property of steps), from
  `DueTodo`: what EndBlock has picked is due and not held until it is completed,
  since nothing else runs in between.
- `CustodyRefined` (`CustodyImplemented`), if the penalty is below 100 per cent:
  `Delegation` implements `AssetCustody`. Initial states map to initial states;
  each kind of step names the abstract step or shows that nothing moved. It needs
  `PaidInv`, as a ticket may not be worth more than the pool gave up.
- `OwnShareExact` (`OperatorShareIsSelfDelegation`), if no rewards are delegated
  (`RewardDelegation = FALSE`; with them it is false). `SelfInv` adds that there
  are then no reward shares and that a native account is associated with itself
  from its first delegation to itself on.
- `LeavingAlwaysSucceeds`, if no rewards are delegated: what
  `ValidateUndelegationAmount` accepts, `UndelegateFrom` does not refuse. This is
  `LeavingSucceeds`, the first half of `CanAlwaysLeave`.

**Voting power** (`VotingPowerProofs`): `PowersFound` (`SnapshotGivesPower`),
`FilterCovers` (`FilterHeightCoversInfraction`) and `OptOutsDelay`
(`OptOutDelaysUnbonding`), for every unbonding duration, from one invariant,
`VotingInv`. A snapshot refers to a stored snapshot that refers to itself, as all
in between do (`Chain`); the last changed height is stored and has the current
powers (`Last`); the snapshot found for a slashable block leads to its powers
(`Found`); a block with powers has a snapshot of its own epoch (`Covered`), two
blocks of different powers have one between them (`Steps`), and the epoch of an
opt-out is found while it matters (`OptOuts`). These are predicates over any set
of snapshots, as the end of an epoch stores one and removes others in the same
step: `UpdateChain`, `UpdateFound`, `UpdateSteps` and `UpdateOptOuts` are about
the first half, `RemoveEffect` and `RemoveKeeps` about the second.
`RemoveVotingPowerSnapshot` decides by the first remaining snapshot alone whether
to retain the last changed one of those it removes; `RemoveEffect` shows that
this is enough.

**Validator set** (`DogfoodProofs`): all six properties of `validator_set`.
`KeysOwned` (`KeysHaveOneOperator`) rests on the schedules (`KeyInv`): an opt-out
and the pruning of the key it ends with are due in the same epoch, a key is
scheduled once, and nobody uses a scheduled key but operators that opt out.
`EvidenceReaches` (`InfractionsReachOperator`) adds that nothing matures before
evidence is too old (`ReachInv`). `NoPowerForPunished` and `NoPowerAfterOptOut`
(`PunishedHoldNoPower`, `OptOutTakesEffect`) add that a validator's key can be
looked up (`PowerInv`), `TermServed` and `TombstonesRespected`
(`JailTermServed`, `TombstonedKeyNotReused`) that the signing info of a jailed
operator's key holds its sentence, unless it is misfiled (`JailInv`). `TermServed`
is for all three jail durations, with the exceptions the property names.

**Tasks** (`AvsTasksProofs`): all four properties of `avs_tasks`, with any number
of epoch identifiers, which the run cannot have. `TasksCounted`
(`EveryTaskCounted`) and `VerdictsFinal` (`VerdictFinal`, a property of steps)
from `TaskInv`: a task address has one AVS, ids are fresh, what is counted or
challenged is past its period. `SignaturesOwn` (`NoCopiedSignature`) from
`CreditInv`: BLS keys are unique, and what is revealed was signed with a key of
its operator. `StatisticsStand` (`StatisticsFinal`), for any number of ways to
write an address: a counted task is past its window, so that nobody reveals any
more, and the group that was counted stays as it was.

**Native balances** (`NativeBalancesProofs`): `NativeBalancesExact`
(`BalancesExact`), as long as no balance reaches `Modulus` (`[]NoOverflow`, which
is also necessary: a stored balance is always below it). Like the property it
leaves out stakers whose withdrawal a report did not know (disagreement 10 below)
and those that withdrew more than the oracle knew of. The run has five steps of
one unit, one revert and one restart; the theorem has any number of each, any
amounts and any operators. The invariant has two layers. The first, `NativeInv`,
is about the oracle alone. The indexes number the registered stakers (`Indexed`), and the list in memory, whatever reverts and
restarts did to it, has no registered staker at the place of another (`Fits`), so
that an entry of a report reaches the staker it is about. What is being agreed on
stays the balance at the versions it was read for (`Reported`), since later
deposits and withdrawals have later versions (`Versioned`); and the unsigned
difference a report is compared with does not wrap, since at the feed versions
nobody owes anything (`Solvent`), which is where it matters that both feed versions
catch up together. The second, `StakeInv`, is about the ledger: what the
oracle's balance changes by, the total changes by too but for what is left
(`UpdateParts`), and who never delegated can withdraw all it has, so that a loss
is always covered and no withdrawal exceeds the balance.

What stays with TLC:

- liveness: `EveryUndelegationCompletes`, `ChangesArrive`;
- what is false for some constants, so that a theorem would need assumptions the
  code does not give: `RoundsContinuous`, `NoncesMatchWindows` and
  `RecoveryReproduces` (see the disagreements below), `ReferencesExact` and
  `PromisesCovered` (more than one slash);
- the second half of `CanAlwaysLeave`, that an empty pool has no shares. In a
  pool of one token and more than `2 * Precision` share units, removing all units
  but one takes the token, since `Quo` rounds; whether slashes and undelegations
  lead there is open;
- `NSTDecreaseLosesCrumbs`, `OnlyTruePrices`, `HonestNeverSlashed`,
  `PhaseTwoStored`, `TwapIsAverage`, `RewardsConserved` and `RequestsSucceed`: no
  proof was attempted. Nothing is proved of `Oracle`, `PriceStore` and
  `Rewards`; what their folds over rounds and records compute for every input
  needs induction over data.

## Where comments and code disagree

### With a run

`oracle_restart`: the pieces of raw data of the oracle's second phase are
counted in the store but not written to it, because nothing calls
`SetRawDataPiece`; a node that restarts while they are being collected panics in
its first BeginBlock. `PROJECT.json` quotes the lines.

### Refuted by TLC, without a run of their own

Each can be reproduced by making the property the INVARIANT of the configuration
named, with the changes given.

1. `NSTDecreaseApplies` (`ledger_nst.cfg`). A decrease of an NST balance fails
   when the staker once delegated to an operator it has left completely, since
   `RemoveShare` rejects its share of zero
   (`x/delegation/keeper/update_native_restaking_balance.go:130`). Line 37 there
   says "the decreased amount will be slashed from the withdrawable amount
   first, the pending undelegation second, and the delegated share last".
2. `ActualWithinAmount` (`ledger_nst.cfg`, `InstantUndelegationPenalty = 100`).
   The penalty is taken of the requested amount but subtracted from the removed
   one (`x/delegation/keeper/delegation.go:225`); with 100, which
   `x/delegation/types/params.go:22` allows, a record can become negative. The
   field is declared as "the actual amount of the asset that has been undelegated
   so far" (`proto/imuachain/delegation/v1/tx.proto:109`).
3. `OperatorShareIsSelfDelegation` and `CanAlwaysLeave` (`ledger_native.cfg`).
   Association counts a staker's shares as the operator's own without those
   delegated from rewards (`x/delegation/keeper/delegation.go:341`), while
   undelegations of either kind subtract from that counter
   (`x/delegation/keeper/share.go:209`). A comment says that the staker's
   delegations are marked as self-delegations. With the constants of
   `ledger_native` TLC refutes `OperatorShareIsSelfDelegation`, and
   `CanAlwaysLeave`: an operator delegates a reward to itself, then stake, which
   associates it, and undelegates the reward; the counter is then zero and its
   stake can no longer be undelegated. Both hold there without rewards.
4. `FallbackFindsPower` (`snapshots.cfg`). An update without a change, in a block
   whose powers an earlier update stored, overwrites them with nothing
   (`x/operator/keeper/abci.go:178`). Line 154 says of such powers that they "can
   be fetched through falling back to the last snapshot where the voting power was
   changed".
5. `OwnerCanChallenge` (`avs_tasks.cfg`). An AVS
   that never updated its registration cannot challenge its own tasks, because
   two spellings of its address are compared (`precompiles/avs/tx.go:269`). Line
   268 says "The caller AVS should be the owner of the task".
6. `SignedOperatorsAreThoseThatSigned` (`avs_tasks.cfg`). Results that write the
   task's address differently are counted in separate groups, of which one, in
   the order of a Go map, remains (`x/avs/keeper/task.go:276`). `proto/imuachain/avs/v1/tx.proto:116`
   calls them "Actual operators of signatures already signed".
7. `RecoveryReproduces` (`oracle.cfg`, `MaxUpdates = 2`). With two updates of the
   parameters within `MaxNonce` blocks and new validator powers in the block of
   the second, the replay starts after that block and never applies it (`x/oracle/keeper/feedermanagement/feedermanager.go:1165`).
8. `RoundsContinuous` (`oracle.cfg`, two feeders at genesis, the first one
   ends). `processRound` compares a feeder's ID with the number of rounds
   (`feedermanager.go:302`): when an earlier feeder has ended, the rounds of the
   last one are never committed, and `AppendPriceTR` would then refuse them.
9. `NoncesMatchWindows` (`oracle.cfg`, the feeder ends at height 3, the end of
   its window). Its nonces are not removed, because its window is closed before
   expired rounds are looked at (`feedermanager.go:776`).
10. `WithdrawalsRespected` (`native_balances.cfg`). A report is applied to a
    staker whose withdrawal it does not know: a later deposit writes the staker
    without its withdraw version (`x/oracle/keeper/nst_post_aggregation.go:391`),
    and the list in memory, which still has it, is read again after a restart or
    a reverted deposit. Line 682 says "skip balance change update for stakers who
    had executed withdraw during price feeding".
11. `PromisesCovered` (`rewards.cfg`, `MaxSlashes = 2`). A second slash in an
    epoch takes its part of all the unclaimed rewards, while
    `calculateDelegationRewards` reduces by it only what was earned since the
    first. `x/feedistribution/keeper/operator.go:320` says "there's no need to
    handle multiple slashes in a single epoch separately".
12. `ReferencesExact` (`rewards.cfg`, `MaxSlashes = 2`, `OncePerBlock = FALSE`).
    A slash event is keyed by epoch and height, so the second slash of a block
    replaces the event of the first, whose reference stays
    (`x/feedistribution/keeper/store.go:554`).
13. `RewardUndelegationsAccepted` (`rewards.cfg`). A slash to zero clears the
    reward shares of x/delegation and not those x/feedistribution recorded. When
    rewards are delegated to the operator again, the record exceeds the shares of
    the new pool, `TokensFromShares` returns an error, and they cannot be
    undelegated (`x/feedistribution/keeper/reward_delegation.go:219`) until the
    pool has grown.
14. `OracleTermServed` (`validator_set.cfg`). An operator that x/oracle jails after
    it replaced its key is jailed, but its term is written under the old key
    (`JailUntil`, `x/oracle/keeper/feedermanagement/feedermanager.go:530` and
    `609`), and a release looks at the signing info of the new one. A slash copies
    the signing info before the term is written, not after; the jail for missed
    rounds does not slash. Lines 508-510 say "If an addr ever differed from the
    operator's forward key, dogfood SlashWithInfractionReason would set
    slashingOldKey and CopyValidatorSigningInfo(..., UNSPECIFIED) like
    Tendermint-driven slashes"; `docs/validator-jailing-corner-cases.md` lists the
    cases of a replaced key as validated.
15. `NoSignedOperatorsAreUnsigned` (`avs_tasks.cfg`). `types.Difference`
    (`x/avs/types/types.go:135`) is symmetric: an operator that joined after the
    task was created, and revealed a response to it, is listed as signed and as
    not signed. `proto/imuachain/avs/v1/tx.proto:118` says "no_signed_operators is
    the final  unsigned operators".

### Read in the code

These are not refuted by a property of their own:

- Two replacements of a consensus key between two updates of the validator set:
  the second finds the previous key recorded, runs no hook, and x/slashing does
  not know the public key that becomes a validator's
  (`x/operator/keeper/consensus_keys.go:95`).
  `docs/validator-jailing-corner-cases.md:170` sets the case apart.
- A validator that is found down after it replaced its key in the same epoch is
  jailed, and its old key keeps the voting power until the epoch ends
  (`x/dogfood/keeper/impl_operator_hooks.go:192`).
- An operator whose opt-out ends while it is jailed can neither be released nor
  opt in again (`x/operator/keeper/opt.go:50`).
- An update of an AVS does not look up the new epoch identifier, while
  `x/avs/keeper/keeper.go:460` relies on its being checked; with an unknown one
  the AVS can be neither updated nor deregistered.
- `IsWhitelisted` wraps a nil error for an operator that is not listed, so that
  its caller, which looks at the error only, does not refuse it
  (`x/avs/keeper/avs.go:285`).
- A feeder of two phases that is added after the first block gets no handler of
  its raw data unless the node restarts (`x/oracle/keeper/abci.go:14`): nodes
  that restarted and nodes that did not go different ways when its data is
  complete. `EndBlockPanics` models the call of the missing handler.
- `IsRoundEnd` (`x/oracle/keeper/feedermanagement/round.go:212`) never holds
  where it is asked, so that raw data that is not complete is carried into the
  next round.

## What is not modelled, and the plan

Not modelled, and why:

- the EVM, mempool, command line and client, and the ante handlers but for the
  nonces of price messages: no state of their own that these properties are
  about, or that of libraries;
- `x/appchain`: the application does not include it;
- `x/immint`: one mint at an epoch's end without state of its own;
- genesis import and export, queries, and the generated code (`*.pb.go`,
  `*.pb.gw.go`), which is most of the repository's 209,600 lines: the models
  stand for about a sixth of the code that is written by hand, and a share of
  the whole that counts generated code cannot become large;
- cryptography (signatures and Merkle proofs are symbolic);
- messages between client chains and the gateway contract, which are outside
  this repository and reach it as calls of the precompiles;
- the USD value of stakes: prices of `Oracle` are not connected to the powers
  of `VotingPower`, whose stakes are inputs;
- of x/feedistribution: compounding, several AVSs, assets and epoch identifiers,
  and the reward proportions of other AVSs;
- several epoch identifiers in one model, and epochs that catch up after a
  halt.

Next, in this order:

1. Proofs: `RewardsConserved` (each action moves between parts of one sum; its
   folds need the induction over finite sets of `Sums`);
   `OnlyTruePrices` under `HonestEnough`.
2. `Rewards` composed with `Delegation`, with several AVSs that pay the same
   asset.
3. The second phase of `Oracle` composed with `NativeBalances`, with several
   validators and seals.
4. `Epochs`: identifiers with different durations and the order of hooks in a
   block, composing `VotingPower` and `Dogfood`.
