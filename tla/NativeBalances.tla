--------------------------- MODULE NativeBalances ---------------------------
(***************************************************************************)
(* The oracle's record of native restaking balances on one client chain    *)
(* (x/oracle/keeper/nst_post_aggregation.go): which stakers there are, what *)
(* they deposited at which version, and how a report of their balances on  *)
(* the client chain changes the ledgers of x/assets and x/delegation.  What *)
(* those do by themselves is kept short here, Delegation has it in full.   *)
(* The asset has the oracle's decimals (convertDecimal refuses an amount   *)
(* that is not a whole number of the other's units).                       *)
(*                                                                         *)
(* A report is agreed on over several rounds while deposits and            *)
(* withdrawals go on.  It is about the deposits up to the feed version and *)
(* the withdrawals up to the feed withdraw version: later deposits are     *)
(* taken out of the balance it is compared with, and stakers that withdrew *)
(* later are skipped.  The stakers of a report are named by their index in *)
(* a list that is kept in memory: a restart empties it, and a transaction  *)
(* that is reverted in the EVM after the precompile's call does not undo   *)
(* what it did to it.                                                      *)
(***************************************************************************)
EXTENDS Sums, Sequences

CONSTANTS
  Stakers, Operators,
  Amounts,        \* of a deposit or a withdrawal, in the oracle's decimals
  Changes,        \* rewards and penalties on the client chain
  Modulus,        \* 2^64 in the code
  MaxOps,         \* bound on the deposits, withdrawals, moves and faults together
  MaxChanges,     \* bound on the changes on the client chain
  MaxMoves,       \* bound on what x/delegation does by itself
  MaxReverts, MaxRestarts   \* bounds on the faults

ASSUME NativeBalancesAssumption ==
  /\ IsFiniteSet(Stakers) /\ IsFiniteSet(Operators)
  /\ Amounts \subseteq Nat \ {0} /\ Changes \subseteq Int /\ Modulus \in Nat \ {0}
  /\ {MaxOps, MaxChanges, MaxMoves, MaxReverts, MaxRestarts} \subseteq Nat

VARIABLES
  versions,       \* NSTVersion; version 0: not found
  store,          \* Staker and the latest of its Balances; NoStaker: not found
  cache,          \* Caches.nstStakerList, in memory
  ledger,         \* the staker's stake in x/assets and x/delegation, see NoStake
  report,         \* the balances that are being agreed on
  chain,          \* on the client chain: what the stakers gained or lost
  past,           \* the history the properties are about, see NoPast
  count           \* counters of the bounds

vars == <<versions, store, cache, ledger, report, chain, past, count>>

NoStaker == [index |-> -1, deposits |-> <<>>, withdrawVersion |-> 0, balance |-> 0]
NoReport == [sent |-> FALSE, version |-> 0, withdrawVersion |-> 0,
             balances |-> <<>>, chain |-> [s \in Stakers |-> 0]]

\* total, free: TotalDepositAmount and WithdrawableAmount; pending: what the
\* undelegation records are still worth; worth: what the shares of an operator
\* are; entries, shares: where there is a delegation entry, and a share in it.
NoStake == [total |-> 0, free |-> 0, pending |-> 0, worth |-> [o \in Operators |-> 0],
            entries |-> {}, shares |-> {}]

\* withdrawals: of each staker, with their versions; known: what the last
\* report applied to a staker knew of its gains; left: what of its losses
\* UpdateNSTBalance did not take; misread: the stakers a report was applied to
\* that did not know a withdrawal of theirs; overdrawn: those that withdrew more
\* than the oracle knew of; reverted: those a transaction of which was reverted;
\* delegated: those that ever delegated.
NoPast == [withdrawals |-> [s \in Stakers |-> <<>>], known |-> [s \in Stakers |-> 0],
           left |-> [s \in Stakers |-> 0],
           misread |-> {}, overdrawn |-> {}, reverted |-> {}, delegated |-> {}]

Init ==
  /\ versions = [version |-> 0, feed |-> 0, withdraw |-> 0, feedWithdraw |-> 0]
  /\ store = [s \in Stakers |-> NoStaker]
  /\ cache = <<>>
  /\ ledger = [s \in Stakers |-> NoStake]
  /\ report = NoReport
  /\ chain = [s \in Stakers |-> 0]
  /\ past = NoPast
  /\ count = [ops |-> 0, changes |-> 0, moves |-> 0, reverts |-> 0, restarts |-> 0]
-----------------------------------------------------------------------------
(***************************************************************************)
(* The list of stakers                                                     *)
(***************************************************************************)
Registered(st) == {s \in Stakers : st[s].index >= 0}

StakerAt(st, i) == CHOOSE s \in Registered(st) : st[s].index = i - 1

getStakerListNoCache(st) ==
  [i \in 1 .. Cardinality(Registered(st)) |->
     LET s == StakerAt(st, i) IN [staker |-> s, withdrawVersion |-> st[s].withdrawVersion]]

GetStakerList(c, st) == IF c # <<>> THEN c ELSE getStakerListNoCache(st)

\* A staker that does not fit at the end of the list has it read again.
AddNSTStaker(c, st, s) ==
  IF Len(c) = st[s].index THEN Append(c, [staker |-> s, withdrawVersion |-> st[s].withdrawVersion])
  ELSE getStakerListNoCache(st)

UpdateWithdrawVersion(c, st, s) ==
  LET i == st[s].index + 1
  IN  IF i \in DOMAIN c /\ c[i].staker = s
      THEN [c EXCEPT ![i].withdrawVersion = st[s].withdrawVersion]
      ELSE getStakerListNoCache(st)
-----------------------------------------------------------------------------
(***************************************************************************)
(* Deposits and withdrawals, from the precompile.                          *)
(***************************************************************************)
IncreaseVersionByDeposit ==
  IF versions.version = 0 THEN [versions EXCEPT !.version = 1, !.feed = 1]
                          ELSE [versions EXCEPT !.version = @ + 1]

IncreaseVersionByWithdraw == [versions EXCEPT !.withdraw = @ + 1]

\* updateStaker, for a deposit.  It does not keep the withdraw version.
Deposited(s, x) ==
  [store EXCEPT ![s] =
     [index |-> IF @.index >= 0 THEN @.index ELSE Cardinality(Registered(store)),
      deposits |-> Append(@.deposits, [version |-> IncreaseVersionByDeposit.version, amount |-> x]),
      withdrawVersion |-> 0,
      balance |-> (@.balance + x) % Modulus]]

\* updateStaker, for a withdrawal.
Withdrawn(s, x) ==
  [store EXCEPT ![s].withdrawVersion = IncreaseVersionByWithdraw.withdraw,
                ![s].balance = IF x > @ THEN 0 ELSE @ - x]

\* The rest of the transaction succeeds, or all but the memory is rolled back.
Committed(reverts, s, newVersions, newStore, newLedger) ==
  IF reverts
  THEN /\ count.reverts < MaxReverts /\ count.ops < MaxOps
       /\ count' = [count EXCEPT !.reverts = @ + 1, !.ops = @ + 1]
       /\ past' = [past EXCEPT !.reverted = @ \cup {s}]
       /\ UNCHANGED <<versions, store, ledger>>
  ELSE /\ count.ops < MaxOps
       /\ count' = [count EXCEPT !.ops = @ + 1]
       /\ versions' = newVersions /\ store' = newStore /\ ledger' = newLedger

Deposit(s, x, reverts) ==
  /\ Committed(reverts, s, IncreaseVersionByDeposit, Deposited(s, x),
               [ledger EXCEPT ![s].total = @ + x, ![s].free = @ + x])
  /\ cache' = IF store[s].index >= 0 THEN cache ELSE AddNSTStaker(cache, Deposited(s, x), s)
  /\ ~reverts => UNCHANGED past
  /\ UNCHANGED <<report, chain>>

Amount(list) == Sum([i \in DOMAIN list |-> list[i].amount])

\* What of a list of deposits or withdrawals is not later than a version, and
\* what is.
UpTo(list, version) ==
  Sum([i \in DOMAIN list |-> IF list[i].version <= version THEN list[i].amount ELSE 0])

After(list, version) ==
  Sum([i \in DOMAIN list |-> IF list[i].version > version THEN list[i].amount ELSE 0])

\* What the staker has on the client chain, of the deposits up to one version
\* and after the withdrawals up to the other.
OnChain(s, version, withdrawVersion) ==
  UpTo(store[s].deposits, version) - UpTo(past.withdrawals[s], withdrawVersion) + chain[s]

\* x/assets refuses more than is withdrawable, or than was deposited; what is
\* not on the client chain cannot be withdrawn there.
Withdraw(s, x, reverts) ==
  /\ x <= ledger[s].free /\ x <= ledger[s].total /\ store[s].index >= 0
  /\ x <= OnChain(s, versions.version, versions.withdraw)
  /\ Committed(reverts, s, IncreaseVersionByWithdraw, Withdrawn(s, x),
               [ledger EXCEPT ![s].total = @ - x, ![s].free = @ - x])
  /\ cache' = UpdateWithdrawVersion(cache, Withdrawn(s, x), s)
  /\ ~reverts => past' = [past EXCEPT
       !.withdrawals[s] = Append(@, [version |-> IncreaseVersionByWithdraw.withdraw, amount |-> x]),
       !.overdrawn = IF x > store[s].balance THEN @ \cup {s} ELSE @]
  /\ UNCHANGED <<report, chain>>
-----------------------------------------------------------------------------
(***************************************************************************)
(* What x/delegation does between the reports.  It leaves TotalDepositAmount *)
(* alone, slashes included.                                                *)
(***************************************************************************)
Moved(s, stake) ==
  /\ count.moves < MaxMoves /\ count.ops < MaxOps
  /\ count' = [count EXCEPT !.moves = @ + 1, !.ops = @ + 1]
  /\ ledger' = [ledger EXCEPT ![s] = stake]
  /\ past' = [past EXCEPT !.delegated = @ \cup {s}]
  /\ UNCHANGED <<versions, store, cache, report, chain>>

DelegateTo(s, o, x) ==
  /\ x <= ledger[s].free
  /\ Moved(s, [ledger[s] EXCEPT !.free = @ - x, !.worth[o] = @ + x,
                                !.entries = @ \cup {o}, !.shares = @ \cup {o}])

\* With the whole share; an entry of share zero stays.  Rounding may leave a
\* share that is worth nothing.
UndelegateFrom(s, o, x, whole) ==
  /\ o \in ledger[s].shares /\ x <= ledger[s].worth[o]
  /\ whole => x = ledger[s].worth[o]
  /\ Moved(s, [ledger[s] EXCEPT !.pending = @ + x, !.worth[o] = @ - x,
                                !.shares = IF whole THEN @ \ {o} ELSE @])

\* EndBlock completes a record.
Complete(s, x) ==
  Moved(s, [ledger[s] EXCEPT !.pending = @ - x, !.free = @ + x])

\* The operator is slashed, to nothing or not, or the rounding of what another
\* staker undelegates or loses leaves its share worth a token more.
SlashAssets(s, o, pending, worth, cleared) ==
  /\ o \in ledger[s].entries /\ pending <= ledger[s].pending
  /\ worth <= ledger[s].worth[o] + 1
  /\ worth > 0 => o \in ledger[s].shares /\ ~cleared
  /\ Moved(s, [ledger[s] EXCEPT !.pending = pending, !.worth[o] = worth,
                                !.shares = IF cleared THEN @ \ {o} ELSE @])
-----------------------------------------------------------------------------
(***************************************************************************)
(* Reports.  What the client chain does, and what the price feeders read   *)
(* of it, is outside the repository's code.                                *)
(***************************************************************************)
\* A validator that was only just deposited loses nothing yet.
ChainChange(s, d) ==
  /\ count.changes < MaxChanges /\ store[s].index >= 0
  /\ OnChain(s, versions.version, versions.withdraw) + d >= 0
  /\ OnChain(s, versions.feed, versions.feedWithdraw) + d >= 0
  /\ chain' = [chain EXCEPT ![s] = @ + d]
  /\ count' = [count EXCEPT !.changes = @ + 1]
  /\ UNCHANGED <<versions, store, cache, ledger, report, past>>

\* The feeders report the balances of the feed versions, by index.
Feed ==
  LET known == {s \in Registered(store) : store[s].deposits[1].version <= versions.feed}
  IN
  /\ ~report.sent /\ known # {}
  /\ report' = [sent |-> TRUE, version |-> versions.feed, withdrawVersion |-> versions.feedWithdraw,
                balances |-> [i \in {store[s].index + 1 : s \in known} |->
                                OnChain(StakerAt(store, i), versions.feed, versions.feedWithdraw)],
                chain |-> chain]
  /\ UNCHANGED <<versions, store, cache, ledger, chain, past, count>>

\* Mutant: withdrawals alone do not bring the feed versions up.
FeedVersionOfDeposits(v) ==
  IF v.version > v.feed THEN [v EXCEPT !.feed = v.version, !.feedWithdraw = v.withdraw] ELSE v

\* The feed versions catch up, by UpdateNSTFeedVersion when a round ends without
\* a price and by IncreaseVersionByFeed when a report was applied.
FeedVersion(v) == [v EXCEPT !.feed = v.version, !.feedWithdraw = v.withdraw]

UpdateNSTFeedVersion ==
  /\ FeedVersion(versions) # versions
  /\ versions' = FeedVersion(versions)
  /\ UNCHANGED <<store, cache, ledger, report, chain, past, count>>

\* The raw data of the report is not collected.
LoseReport ==
  /\ report.sent
  /\ report' = NoReport
  /\ UNCHANGED <<versions, store, cache, ledger, chain, past, count>>

\* Mutant: deposits of the feed version itself are taken out too.
BalanceBeforeVersion(s, version) ==
  (store[s].balance - After(store[s].deposits, version - 1)) % Modulus

GetBalanceAtVersion(s, version) ==
  (store[s].balance - After(store[s].deposits, version)) % Modulus

\* The entries of the report that are applied: stakers that withdrew since the
\* feed version are skipped.
Applied(list) == {i \in DOMAIN report.balances : list[i].withdrawVersion <= report.withdrawVersion}

\* What a loss takes of the withdrawable amount, of the undelegation records,
\* and what is left for the delegations.
FromFree(a, loss) == IF loss > a.free THEN a.free ELSE loss

FromPending(a, loss) ==
  IF loss - FromFree(a, loss) > a.pending THEN a.pending ELSE loss - FromFree(a, loss)

Rest(a, loss) == loss - FromFree(a, loss) - FromPending(a, loss)

\* The same proportion of every share is removed, at most all of it: what may
\* be cut of each, and what is still worth.  Amounts are truncated and the
\* proportion is rounded, so that the cuts may add up to less than the rest or
\* to more.
Reduced(a, rest) ==
  LET delegated == Sum(a.worth)
      none == [o \in Operators |-> 0]
  IN  IF rest = 0 \/ delegated = 0 THEN {[cut |-> none, worth |-> a.worth]}
      ELSE IF rest >= delegated THEN {[cut |-> a.worth, worth |-> none]}
      ELSE {r \in [cut : [Operators -> 0 .. delegated], worth : [Operators -> 0 .. delegated]] :
              \A o \in Operators :
                /\ r.cut[o] <= a.worth[o]
                /\ r.cut[o] >= (a.worth[o] * rest - 1) \div delegated
                /\ r.cut[o] <= ((a.worth[o] + 1) * rest) \div delegated
                /\ r.worth[o] \in {a.worth[o] - r.cut[o] - 1, a.worth[o] - r.cut[o]}}

\* UpdateNSTBalance of x/delegation: what the stake may be afterwards, and what
\* of a loss it only logs.
UpdateNSTBalance(a, delta) ==
  LET loss == 0 - delta
      rest == Rest(a, loss)
  IN  IF delta >= 0
      THEN {[stake |-> [a EXCEPT !.total = @ + delta, !.free = @ + delta], left |-> 0]}
      ELSE {[stake |-> [a EXCEPT !.total = @ - FromFree(a, loss) - FromPending(a, loss) - Sum(r.cut),
                                 !.free = @ - FromFree(a, loss),
                                 !.pending = @ - FromPending(a, loss),
                                 !.worth = r.worth,
                                 !.shares = IF rest > 0 /\ rest >= Sum(a.worth) THEN {} ELSE @],
             left |-> rest - Sum(r.cut)] : r \in Reduced(a, rest)}

\* Its errors: RemoveShare of an entry of share zero, or of a share so small that
\* the proportion of it is zero, and a TotalDepositAmount that would be negative.
Blocked(a, delta) ==
  delta < 0 /\ Rest(a, 0 - delta) > 0 /\ Sum(a.worth) > 0 /\ a.shares # a.entries

MayRefuse(a, delta) ==
  /\ delta < 0
  /\ \/ Blocked(a, delta)
     \/ /\ 0 < Rest(a, 0 - delta) /\ Rest(a, 0 - delta) < Sum(a.worth)
        /\ \E o \in a.shares : a.worth[o] = 0
     \/ \E r \in UpdateNSTBalance(a, delta) : r.stake.total < 0

Delta(i, s) == report.balances[i] - GetBalanceAtVersion(s, report.version)

\* The entry of the report for a staker, of those applied.
EntryOf(list, s) == {i \in Applied(list) : list[i].staker = s}

EntryDelta(list, s) == Delta(CHOOSE i \in EntryOf(list, s) : TRUE, s)

\* UpdateNSTBalance for the entries applied.
UpdatedStakes(list) ==
  LET Results(s) == IF EntryOf(list, s) = {} THEN {[stake |-> ledger[s], left |-> 0]}
                    ELSE UpdateNSTBalance(ledger[s], EntryDelta(list, s))
  IN  {f \in [Stakers -> UNION {Results(s) : s \in Stakers}] :
         \A s \in Stakers : f[s] \in Results(s) /\ f[s].stake.total >= 0}

\* The report does not know a withdrawal of the staker.
Unseen(s) ==
  \E i \in DOMAIN past.withdrawals[s] : past.withdrawals[s][i].version > report.withdrawVersion

\* updateStaker for the entries applied, with what became of the stakes.
UpdateStakers(list, result) ==
  /\ store' = [s \in Stakers |-> IF EntryOf(list, s) = {} THEN store[s]
       ELSE [store[s] EXCEPT !.balance = (@ + EntryDelta(list, s)) % Modulus]]
  /\ ledger' = [s \in Stakers |-> result[s].stake]
  /\ past' = [past EXCEPT
       !.known = [s \in Stakers |-> IF EntryOf(list, s) = {} THEN @[s] ELSE report.chain[s]],
       !.left = [s \in Stakers |-> @[s] + result[s].left],
       !.misread = @ \cup {s \in Stakers : EntryOf(list, s) # {} /\ Unseen(s)}]

Matches == report.version = versions.feed /\ report.withdrawVersion = versions.feedWithdraw

\* All balances of the report change, or none: an error drops the cache
\* context, but not what GetStakerList read into memory.
UpdateNSTBalanceChange ==
  LET list == GetStakerList(cache, store)
      Found(i) == i \in DOMAIN list /\ store[list[i].staker].index >= 0
      readable == Matches /\ \A i \in DOMAIN report.balances : Found(i)
      changed == {s \in Stakers : EntryOf(list, s) # {}}
  IN
  /\ report.sent
  /\ report' = NoReport
  /\ cache' = IF Matches THEN list ELSE cache
  /\ \/ /\ readable
        /\ \A s \in changed : ~Blocked(ledger[s], EntryDelta(list, s))
        /\ \E result \in UpdatedStakes(list) : UpdateStakers(list, result)
        /\ versions' = FeedVersion(versions)
     \/ /\ readable => \E s \in changed : MayRefuse(ledger[s], EntryDelta(list, s))
        /\ UNCHANGED <<versions, store, ledger, past>>
  /\ UNCHANGED <<chain, count>>

Restart ==
  /\ cache # <<>> /\ count.restarts < MaxRestarts /\ count.ops < MaxOps
  /\ cache' = <<>>
  /\ count' = [count EXCEPT !.restarts = @ + 1, !.ops = @ + 1]
  /\ UNCHANGED <<versions, store, ledger, report, chain, past>>
-----------------------------------------------------------------------------
Next ==
  \/ \E s \in Stakers, x \in Amounts, reverts \in BOOLEAN :
       Deposit(s, x, reverts) \/ Withdraw(s, x, reverts)
  \/ \E s \in Stakers, o \in Operators, x \in Amounts : DelegateTo(s, o, x)
  \/ \E s \in Stakers, o \in Operators, x \in Amounts, whole \in BOOLEAN : UndelegateFrom(s, o, x, whole)
  \/ \E s \in Stakers : \E x \in 1 .. ledger[s].pending : Complete(s, x)
  \/ \E s \in Stakers, o \in Operators, cleared \in BOOLEAN :
       \E pending \in 0 .. ledger[s].pending, worth \in 0 .. ledger[s].worth[o] + 1 :
         SlashAssets(s, o, pending, worth, cleared)
  \/ \E s \in Stakers, d \in Changes : ChainChange(s, d)
  \/ Feed \/ UpdateNSTFeedVersion \/ LoseReport \/ UpdateNSTBalanceChange
  \/ Restart

Spec == Init /\ [][Next]_vars

\* The feeders keep reporting, every report comes to an end, and not every one
\* is lost or late (strong fairness, with what enables the action written out).
\* Whether a report is refused is not a matter of fairness.
Fairness ==
  /\ WF_vars(Feed)
  /\ WF_vars(LoseReport \/ UpdateNSTBalanceChange)
  /\ []<>(report.sent /\ Matches) => []<><<Matches /\ UpdateNSTBalanceChange>>_vars

FairSpec == Spec /\ Fairness
-----------------------------------------------------------------------------
\* The oracle's balance of a staker is its deposits less its withdrawals plus
\* what the last report applied to it knew of the client chain, and its
\* TotalDepositAmount in x/assets is the same but for what UpdateNSTBalance did
\* not take, which is nothing for a staker that never delegated: whatever
\* happens between a report's versions and its application is neither lost nor
\* counted twice.  Stakers to which a report was applied that did not know their
\* withdrawal are left out, see WithdrawalsRespected, and stakers that withdrew
\* more than the oracle knew of, which must have delegated.
BalancesExact ==
  /\ \A s \in Stakers \ (past.misread \cup past.overdrawn) :
       /\ store[s].balance = Amount(store[s].deposits) - Amount(past.withdrawals[s]) + past.known[s]
       /\ ledger[s].total = store[s].balance + past.left[s]
       /\ s \notin past.delegated => past.left[s] = 0
  /\ past.overdrawn \subseteq past.misread \cup past.delegated

\* "skip balance change update for stakers who had executed withdraw during
\* price feeding": no report is applied to a staker whose withdrawal it does
\* not know.
WithdrawalsRespected == past.misread = {}

\* A report of what is on the client chain now would be refused, because of one
\* of its stakers.
Stuck ==
  \E s \in Registered(store) :
    MayRefuse(ledger[s], OnChain(s, versions.version, versions.withdraw) - store[s].balance)

\* What happens on the client chain arrives: once nothing changes any more, the
\* oracle knows of every gain and loss of a staker, unless one of its
\* transactions was reverted, a report misread it, or the loss of some staker
\* makes UpdateNSTBalance refuse the report of all of them.
ChangesArrive ==
  <>[](\/ \A s \in Stakers \ (past.misread \cup past.reverted) : past.known[s] = chain[s]
       \/ Stuck)
=============================================================================
