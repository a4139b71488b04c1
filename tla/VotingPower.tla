----------------------------- MODULE VotingPower -----------------------------
(***************************************************************************)
(* The voting power of the operators of ONE AVS and its snapshots          *)
(* (x/operator).                                                           *)
(*                                                                         *)
(* The power is recomputed at the end of an epoch of the AVS, in the       *)
(* BeginBlock of the next epoch's first block, and whenever an operator    *)
(* that serves the AVS is slashed.  Every recomputation may store a        *)
(* snapshot under the current height; one that found no change stores a    *)
(* snapshot without powers that refers to the height of the last change.   *)
(* A slash looks up the snapshot of the height of the infraction, and the  *)
(* unbonding of an undelegation the snapshot of the height of an opt-out.  *)
(*                                                                         *)
(* What an operator's stake is worth is an input here: prices, delegations *)
(* and the amounts of a slash belong to other modules.  All of its stake   *)
(* counts as the operator's own.                                           *)
(***************************************************************************)
EXTENDS Integers, FiniteSets, Functions, FiniteSetsExt

CONSTANTS
  Operators,
  MinSelfDelegation,       \* of the AVS, in USD
  UnbondingDuration,       \* of the AVS, in epochs
  MaxStake, MaxHeight, MaxTransactions   \* bounds of the model

ASSUME VotingPowerAssumption ==
  /\ MinSelfDelegation \in Nat /\ UnbondingDuration \in Nat
  /\ MaxStake \in Nat /\ MaxHeight \in Nat /\ MaxTransactions \in Nat

VARIABLES
  height,
  epoch,        \* EpochInfo.CurrentEpoch of the AVS's epoch identifier
  epochStart,   \* EpochInfo.CurrentEpochStartHeight
  stake,        \* USD value of an operator's assets
  frozen,       \* the frozen operators
  opted,        \* OptedInfo of each operator
  usd,          \* OperatorOptedUSDValue of the operators that have one
  snapshot,     \* VotingPowerSnapshot by height
  lastChanged,  \* SnapshotHelper.LastChangedHeight, NoHelper if not stored
  transactions, \* how many there were, to bound the model
  \* what happened, for the properties
  power,        \* the power in effect at the end of each slashable block
  epochOf,      \* the epoch of each slashable block
  overwritten   \* heights whose powers a later update of that block dropped

vars == <<height, epoch, epochStart, stake, frozen, opted, usd, snapshot, lastChanged,
          transactions, power, epochOf, overwritten>>

NoHelper == 0
NoPower == [o \in {} |-> 0]
-----------------------------------------------------------------------------
\* The AVS was registered in the first epoch and nobody serves it.
Init ==
  /\ height = 1 /\ epoch = 1 /\ epochStart = 1
  /\ stake \in [Operators -> 0 .. MaxStake]
  /\ frozen = {}
  /\ opted = [o \in Operators |-> [status |-> "never", outHeight |-> 0, outEpoch |-> 0, served |-> FALSE]]
  /\ usd = NoPower
  /\ snapshot = NoPower
  /\ lastChanged = NoHelper
  /\ transactions = 0
  /\ power = [h \in {1} |-> NoPower]
  /\ epochOf = [h \in {1} |-> 1]
  /\ overwritten = {}
-----------------------------------------------------------------------------
IsOptedIn(o) == opted[o].status = "in"

IsOptedOutAndEffective(o) ==
  opted[o].status = "never" \/ (opted[o].status = "out" /\ opted[o].outHeight < epochStart)

IsOptedOutButNotEffective(o) == opted[o].status = "out" /\ opted[o].outHeight >= epochStart

\* The powers of a set of USD values: only positive ones are stored.
PowersIn(values) ==
  LET active == {o \in DOMAIN values : values[o].ActiveUSDValue > 0}
  IN  [o \in active |-> values[o].ActiveUSDValue]
-----------------------------------------------------------------------------
(***************************************************************************)
(* UpdateVotingPower: the values of the operators that opted out in this   *)
(* epoch are deleted, the others are recomputed from the stakes st; a      *)
(* frozen operator, or one below the minimum self delegation, is inactive. *)
(***************************************************************************)
UpdatedUSDValues(st) ==
  [o \in {q \in DOMAIN usd : ~IsOptedOutButNotEffective(q)} |->
     [SelfUSDValue   |-> st[o],
      ActiveUSDValue |-> IF st[o] >= MinSelfDelegation /\ o \notin frozen THEN st[o] ELSE 0]]

\* Mutant: a deleted operator is no change.
IsSnapshotChangedByValue(st) ==
  \/ \E o \in DOMAIN UpdatedUSDValues(st) :
       usd[o].ActiveUSDValue # UpdatedUSDValues(st)[o].ActiveUSDValue
  \/ lastChanged = NoHelper

IsSnapshotChanged(st) ==
  \/ \E o \in DOMAIN usd : IsOptedOutButNotEffective(o)
  \/ \E o \in DOMAIN UpdatedUSDValues(st) :
       usd[o].ActiveUSDValue # UpdatedUSDValues(st)[o].ActiveUSDValue
  \/ lastChanged = NoHelper

LastChangedHeight(st, at) == IF IsSnapshotChanged(st) THEN at ELSE lastChanged

\* Nothing is stored when nothing changed and no operator serves the AVS.
SnapshotsAfterUpdate(st, at, epochNumber) ==
  LET isSetSnapshot == IsSnapshotChanged(st) \/ UpdatedUSDValues(st) # NoPower
  IN  [h \in DOMAIN snapshot \cup (IF isSetSnapshot THEN {at} ELSE {}) |->
         IF h = at /\ isSetSnapshot
         THEN [epoch       |-> epochNumber,
               lastChanged |-> LastChangedHeight(st, at),
               powers      |-> IF IsSnapshotChanged(st) THEN PowersIn(UpdatedUSDValues(st))
                                                        ELSE NoPower]
         ELSE snapshot[h]]

\* Everything UpdateVotingPower changes but the snapshots.
UpdateVotingPower(st, at) ==
  /\ usd' = UpdatedUSDValues(st)
  /\ lastChanged' = LastChangedHeight(st, at)
  /\ overwritten' = IF ~IsSnapshotChanged(st) /\ lastChanged = at
                    THEN overwritten \cup {at} ELSE overwritten
-----------------------------------------------------------------------------
(***************************************************************************)
(* RemoveVotingPowerSnapshot: the snapshots sn up to epoch n go, except the *)
(* last one of them with a power set if the next snapshot refers to it.    *)
(***************************************************************************)
\* Mutant: the one that later snapshots refer to goes too.
RemoveAllVotingPowerSnapshots(sn, n) ==
  [h \in {g \in DOMAIN sn : sn[g].epoch > n} |-> sn[h]]

RemoveVotingPowerSnapshot(sn, n) ==
  LET old      == {h \in DOMAIN sn : \A g \in DOMAIN sn : g <= h => sn[g].epoch <= n}
      changed  == {h \in old : sn[h].lastChanged = h}
      rest     == DOMAIN sn \ old
      retained == IF changed = {} \/ (rest # {} /\ sn[Min(rest)].lastChanged = Min(rest))
                  THEN {} ELSE {Max(changed)}
  IN  Restrict(sn, rest \cup retained)

\* Mutant: snapshots of the last epoch of the unbonding are removed.
ClearVotingPowerSnapshotEarly(sn) ==
  LET clearEpochNumber == epoch + 1 - UnbondingDuration
  IN  IF clearEpochNumber < 0 THEN sn ELSE RemoveVotingPowerSnapshot(sn, clearEpochNumber)

ClearVotingPowerSnapshot(sn) ==
  LET clearEpochNumber == epoch - UnbondingDuration
  IN  IF clearEpochNumber < 0 THEN sn ELSE RemoveVotingPowerSnapshot(sn, clearEpochNumber)
-----------------------------------------------------------------------------
(***************************************************************************)
(* Looking a snapshot up.                                                  *)
(***************************************************************************)
\* The key found for height h, as a set: empty if there is none.
GetSnapshotHeight(h) ==
  LET upTo == {g \in DOMAIN snapshot : g <= h}
  IN  IF upTo = {} THEN {} ELSE {Max(upTo)}

NullEpochNumber == 0

GetEpochNumberByOptOutHeight(h) ==
  IF GetSnapshotHeight(h) = {} THEN NullEpochNumber
  ELSE snapshot[Min(GetSnapshotHeight(h))].epoch

\* The snapshot LoadVotingPowerSnapshot falls back to: empty on an error.
LoadVotingPowerSnapshot(h) ==
  {snapshot[g].lastChanged : g \in GetSnapshotHeight(h)} \cap DOMAIN snapshot

isUnbondingRelated(o) ==
  \/ IsOptedIn(o)
  \/ /\ opted[o].status = "out"
     /\ LET epochNumber == GetEpochNumberByOptOutHeight(opted[o].outHeight)
        IN  epochNumber > 0 /\ epochNumber + UnbondingDuration >= epoch
-----------------------------------------------------------------------------
(***************************************************************************)
(* Transactions.                                                           *)
(***************************************************************************)
Deliver ==
  /\ height < MaxHeight /\ transactions < MaxTransactions
  /\ transactions' = transactions + 1

\* The self delegation the opt-in is checked against: the stored one for an
\* operator whose opt-out is not effective yet.
OptInUSDValueFails(o) ==
  IF IsOptedOutAndEffective(o) THEN stake[o] < MinSelfDelegation
  ELSE o \notin DOMAIN usd \/ usd[o].SelfUSDValue < MinSelfDelegation

OptIn(o) ==
  /\ Deliver
  /\ o \notin frozen /\ ~IsOptedIn(o) /\ ~OptInUSDValueFails(o)
  /\ usd' = [q \in DOMAIN usd \cup {o} |->
       IF q \in DOMAIN usd THEN usd[q] ELSE [SelfUSDValue |-> 0, ActiveUSDValue |-> 0]]
  /\ opted' = [opted EXCEPT ![o] = [status |-> "in", outHeight |-> 0, outEpoch |-> 0, served |-> FALSE]]
  /\ UNCHANGED <<height, epoch, epochStart, stake, frozen, snapshot, lastChanged, power,
                 epochOf, overwritten>>

OptOut(o) ==
  /\ Deliver
  /\ o \notin frozen /\ IsOptedIn(o)
  /\ opted' = [opted EXCEPT ![o] =
       [status |-> "out", outHeight |-> height, outEpoch |-> epoch,
        served |-> o \in DOMAIN PowersIn(usd)]]
  /\ UNCHANGED <<height, epoch, epochStart, stake, frozen, usd, snapshot, lastChanged, power,
                 epochOf, overwritten>>

\* Delegations, undelegations and prices change what a stake is worth.
ChangeStake(o, v) ==
  /\ Deliver /\ v # stake[o]
  /\ stake' = [stake EXCEPT ![o] = v]
  /\ UNCHANGED <<height, epoch, epochStart, frozen, opted, usd, snapshot, lastChanged, power,
                 epochOf, overwritten>>

FreezeOperator(o) ==
  /\ Deliver /\ o \notin frozen
  /\ frozen' = frozen \cup {o}
  /\ UNCHANGED <<height, epoch, epochStart, stake, opted, usd, snapshot, lastChanged, power,
                 epochOf, overwritten>>

UnfreezeOperator(o) ==
  /\ Deliver /\ o \in frozen
  /\ frozen' = frozen \ {o}
  /\ UNCHANGED <<height, epoch, epochStart, stake, opted, usd, snapshot, lastChanged, power,
                 epochOf, overwritten>>

\* A slash leaves v of the stake of o.  The power is updated if o serves the
\* AVS (GetImpactfulEpochsAndAVSsForOperator).
SlashTo(o, v) ==
  LET st == [stake EXCEPT ![o] = v] IN
  /\ v <= stake[o]
  /\ stake' = st
  /\ IF IsOptedOutAndEffective(o)
     THEN UNCHANGED <<usd, snapshot, lastChanged, power, overwritten>>
     ELSE /\ UpdateVotingPower(st, height)
          /\ snapshot' = SnapshotsAfterUpdate(st, height, epoch)
          /\ power' = [power EXCEPT ![height] = PowersIn(UpdatedUSDValues(st))]
  /\ UNCHANGED <<height, epoch, epochStart, frozen, opted, epochOf>>

\* This AVS slashes o for an infraction at height h, by its power then.
Slash(o, h, v) ==
  /\ Deliver
  /\ \E g \in LoadVotingPowerSnapshot(h) : o \in DOMAIN snapshot[g].powers
  /\ SlashTo(o, v)

\* Another AVS that o serves slashes it.
SlashElsewhere(o, v) ==
  /\ Deliver
  /\ SlashTo(o, v)
-----------------------------------------------------------------------------
(***************************************************************************)
(* Blocks.  The epoch hook runs before the new epoch information is saved: *)
(* UpdateVotingPower sees the epoch that ends, at the height of the next.  *)
(***************************************************************************)
\* The blocks that can still be slashed for once epoch e has started.
StillSlashable(h, e) == h > height \/ (h \in DOMAIN epochOf /\ epochOf[h] >= e - UnbondingDuration)

StartBlock(e, powers) ==
  LET blocks == {h \in 1 .. height + 1 : StillSlashable(h, e)} IN
  /\ height < MaxHeight
  /\ height' = height + 1
  /\ power' = [h \in blocks |-> IF h <= height THEN power[h] ELSE powers]
  /\ epochOf' = [h \in blocks |-> IF h <= height THEN epochOf[h] ELSE e]

NextBlock ==
  /\ StartBlock(epoch, PowersIn(usd))
  /\ UNCHANGED <<epoch, epochStart, stake, frozen, opted, usd, snapshot, lastChanged,
                 transactions, overwritten>>

AfterEpochEnd ==
  /\ StartBlock(epoch + 1, PowersIn(UpdatedUSDValues(stake)))
  /\ UpdateVotingPower(stake, height + 1)
  /\ snapshot' = ClearVotingPowerSnapshot(SnapshotsAfterUpdate(stake, height + 1, epoch + 1))
  /\ epoch' = epoch + 1
  /\ epochStart' = height + 1
  /\ UNCHANGED <<stake, frozen, opted, transactions>>

Next ==
  \/ \E o \in Operators : OptIn(o) \/ OptOut(o) \/ FreezeOperator(o) \/ UnfreezeOperator(o)
  \/ \E o \in Operators, v \in 0 .. MaxStake : ChangeStake(o, v) \/ SlashElsewhere(o, v)
  \/ \E o \in Operators, v \in 0 .. MaxStake, h \in 1 .. height : Slash(o, h, v)
  \/ NextBlock
  \/ AfterEpochEnd

Spec == Init /\ [][Next]_vars
-----------------------------------------------------------------------------
\* The heights for which an infraction can still be slashed.
Slashable == DOMAIN epochOf

PowersFor(h) ==
  IF LoadVotingPowerSnapshot(h) = {} THEN NoPower
  ELSE snapshot[Min(LoadVotingPowerSnapshot(h))].powers

\* For every block an infraction can still be slashed for, the snapshot
\* found holds exactly the powers in effect at the end of that block, and an
\* error means that nobody had any.  It leaves out the blocks whose powers
\* were overwritten, see FallbackFindsPower.
SnapshotGivesPower ==
  \A h \in Slashable :
    (\A g \in GetSnapshotHeight(h) : snapshot[g].lastChanged \notin overwritten)
      => PowersFor(h) = power[h]

\* The same for every block: "it can be fetched through falling back to the
\* last snapshot where the voting power was changed".
FallbackFindsPower == \A h \in Slashable : PowersFor(h) = power[h]

\* The height that filters the undelegations to slash is not after the
\* infraction, and the powers did not change in between: no undelegation
\* that was submitted under the powers of the infraction escapes.
FilterHeightCoversInfraction ==
  \A h \in Slashable : \A g \in GetSnapshotHeight(h) :
    g <= h /\ \A k \in (g .. h) \cap Slashable : power[k] = power[h]

\* An operator that had voting power when it opted out delays undelegations
\* until the unbonding duration after the epoch of its opt-out is over, and
\* not longer, though the epoch is found through snapshots that expire.
OptOutDelaysUnbonding ==
  \A o \in Operators : opted[o].status = "out" /\ opted[o].served =>
    (isUnbondingRelated(o) <=> opted[o].outEpoch + UnbondingDuration >= epoch)
=============================================================================
