------------------------- MODULE VotingPowerProofs -------------------------
(***************************************************************************)
(* The snapshots of the voting power, for every set of operators, every    *)
(* minimum self delegation and every unbonding duration.                   *)
(*                                                                         *)
(* The predicates below are about any snapshots sn, stored up to height ht *)
(* of epoch e, with lc the height of the last change and ow the            *)
(* overwritten heights, and about the powers pw and epochs eo of the       *)
(* slashable blocks: the end of an epoch stores a snapshot and then        *)
(* removes old ones, and they hold in between.                             *)
(***************************************************************************)
EXTENDS VotingPower, WellFoundedInduction, TLAPS

\* The slashable blocks are the last ones, epochs do not go back, and the last
\* block has the powers now.
History(ht, e, now, pw, eo) ==
  /\ ht \in Nat \ {0} /\ e \in Nat \ {0}
  /\ DOMAIN eo \subseteq 1 .. ht /\ ht \in DOMAIN eo /\ DOMAIN pw = DOMAIN eo
  /\ \A h \in DOMAIN eo : eo[h] \in 1 .. e
  /\ \A h \in DOMAIN eo : \A k \in h .. ht : k \in DOMAIN eo /\ eo[h] <= eo[k]
  /\ eo[ht] = e /\ pw[ht] = now

\* A snapshot has the epoch of its height.
Stored(sn, ht, e, eo) ==
  /\ DOMAIN sn \subseteq 1 .. ht
  /\ \A g \in DOMAIN sn : sn[g].epoch \in 1 .. e /\ (g \in DOMAIN eo => sn[g].epoch = eo[g])

\* A snapshot refers to a stored one that refers to itself, and so do all
\* snapshots between the two.
Chain(sn) ==
  \A g \in DOMAIN sn :
    /\ sn[g].lastChanged \in DOMAIN sn /\ sn[g].lastChanged <= g
    /\ \A k \in DOMAIN sn : sn[g].lastChanged <= k /\ k <= g => sn[k].lastChanged = sn[g].lastChanged

\* The last changed height is stored, the snapshots since refer to it, and it
\* has the powers now unless it was overwritten.
Last(sn, lc, ow, now) ==
  /\ lc \in Nat
  /\ lc = NoHelper => DOMAIN sn = {} /\ now = NoPower
  /\ lc # NoHelper => lc \in DOMAIN sn /\ \A g \in DOMAIN sn : lc <= g => sn[g].lastChanged = lc
  /\ lc # NoHelper /\ lc \notin ow => sn[lc].powers = now

\* The snapshot GetSnapshotHeight finds for h.
KeyFor(sn, h, g) == g \in DOMAIN sn /\ g <= h /\ \A k \in DOMAIN sn : k <= h => k <= g

\* The snapshot that the one found refers to has the powers of the block.
Found(sn, ow, pw) ==
  \A h \in DOMAIN pw, g \in DOMAIN sn :
    KeyFor(sn, h, g) /\ sn[g].lastChanged \notin ow => sn[sn[g].lastChanged].powers = pw[h]

\* A block with powers has a snapshot in its own epoch.
Covered(sn, pw, eo) ==
  \A h \in DOMAIN pw : pw[h] # NoPower =>
    \E g \in DOMAIN sn : g \in DOMAIN eo /\ g <= h /\ eo[g] = eo[h]

\* Between two blocks of different powers there is a snapshot.
Steps(sn, pw) ==
  \A h \in DOMAIN pw, k \in DOMAIN pw :
    k <= h /\ pw[k] # pw[h] => \E g \in DOMAIN sn : k < g /\ g <= h

\* The epoch of an opt-out can be found while it matters.
OptOuts(sn, ht, e, op) ==
  \A o \in Operators : op[o].status = "out" =>
    /\ op[o].outHeight \in 1 .. ht /\ op[o].outEpoch \in 1 .. e
    /\ op[o].outHeight = ht => op[o].outEpoch = e
    /\ op[o].served =>
         /\ op[o].outEpoch + UnbondingDuration >= e =>
              \E g \in DOMAIN sn : KeyFor(sn, op[o].outHeight, g) /\ sn[g].epoch = op[o].outEpoch
         /\ \A g \in DOMAIN sn : g <= op[o].outHeight => sn[g].epoch <= op[o].outEpoch

SnapInv(sn, lc, ow, now, ht, e, pw, eo, op) ==
  /\ History(ht, e, now, pw, eo) /\ Stored(sn, ht, e, eo) /\ Chain(sn) /\ Last(sn, lc, ow, now)
  /\ Found(sn, ow, pw) /\ Covered(sn, pw, eo) /\ Steps(sn, pw) /\ OptOuts(sn, ht, e, op)

VotingInv ==
  /\ DOMAIN opted = Operators
  /\ SnapInv(snapshot, lastChanged, overwritten, PowersIn(usd), height, epoch, power, epochOf, opted)
-----------------------------------------------------------------------------
(***************************************************************************)
(* What the operators of the model do.                                     *)
(***************************************************************************)
\* What an update at height at of epoch e2 does: it may store a snapshot,
\* chg says that the powers changed and set that one is stored.
Update(sn, sn2, lc, lc2, ow, ow2, now, now2, at, e2, chg, set) ==
  /\ DOMAIN sn2 = DOMAIN sn \cup (IF set THEN {at} ELSE {})
  /\ \A g \in DOMAIN sn : g # at \/ ~set => sn2[g] = sn[g]
  /\ set => sn2[at].epoch = e2 /\ sn2[at].lastChanged = lc2
  /\ chg => set /\ lc2 = at /\ sn2[at].powers = now2
  /\ ~chg => now2 = now /\ lc # NoHelper /\ lc2 = lc
  /\ ~set => now2 = NoPower
  /\ ow \subseteq ow2
  /\ ~chg /\ lc = at => at \in ow2

\* What the start of a block of epoch e2 does to the slashable blocks.
Blocks(ht, e2, now2, pw, eo, pw2, eo2) ==
  /\ DOMAIN eo2 \subseteq 1 .. ht + 1 /\ ht + 1 \in DOMAIN eo2 /\ DOMAIN pw2 = DOMAIN eo2
  /\ eo2[ht + 1] = e2 /\ pw2[ht + 1] = now2
  /\ \A h \in DOMAIN eo : h \in DOMAIN eo2 <=> eo[h] >= e2 - UnbondingDuration
  /\ \A h \in DOMAIN eo2 : h <= ht => h \in DOMAIN eo /\ eo2[h] = eo[h] /\ pw2[h] = pw[h]

\* The slashable blocks go up to at, which has the powers now2; the others
\* are old ones, and all old ones of their epochs.
Extended(at, now2, pw, eo, pw2, eo2) ==
  /\ DOMAIN pw2 = DOMAIN eo2 /\ DOMAIN pw2 \subseteq 1 .. at
  /\ at \in DOMAIN pw2 /\ pw2[at] = now2
  /\ \A h \in DOMAIN pw2 : h # at => h \in DOMAIN pw /\ pw2[h] = pw[h] /\ eo2[h] = eo[h]
  /\ \A g \in DOMAIN eo, h \in DOMAIN eo2 :
       g # at /\ h # at /\ eo[g] = eo[h] => g \in DOMAIN eo2

\* A set of natural numbers that is not empty has a smallest element.
LEMMA SmallestExists ==
  ASSUME NEW S, S \subseteq Nat, S # {}
  PROVE  \E m \in S : \A x \in S : m <= x
<1> DEFINE Less == {pair \in Nat \X Nat : pair[1] < pair[2]}
<1>1. \A x, y \in Nat : x < y => <<x, y>> \in Less
  OBVIOUS
<1>2. IsWellFoundedOn(Less, Nat)
  BY NatLessThanWellFounded DEF OpToRel
<1> HIDE DEF Less
<1>3. PICK m \in S : \A x \in S : ~(<<x, m>> \in Less)
  BY <1>2, WFMin, Zenon
<1>4. \A x \in S : x \in Nat /\ m \in Nat /\ ~(x < m)
  BY <1>1, <1>3, Zenon
<1>5. \A x \in S : m <= x
  BY <1>4
<1> QED BY <1>5

\* Max and Min are the largest and the smallest element.
LEMMA MaxMin ==
  ASSUME NEW N \in Nat, NEW S \in SUBSET (1 .. N), S # {}
  PROVE  /\ Max(S) \in S /\ \A x \in S : x <= Max(S)
         /\ Min(S) \in S /\ \A x \in S : Min(S) <= x
<1>1. S \subseteq Nat /\ \A x \in S : x <= N
  OBVIOUS
<1>2. \E m \in S : \A x \in S : m >= x
  <2> DEFINE D == {N - x : x \in S}
  <2>1. D \subseteq Nat /\ D # {}
    <3>1. \A x \in S : N - x \in Nat
      BY <1>1
    <3> QED BY <3>1, Zenon
  <2>2. PICK d \in D : \A e \in D : d <= e
    <3> HIDE DEF D
    <3> QED BY <2>1, SmallestExists, Zenon
  <2>3. PICK m \in S : d = N - m
    BY <2>2
  <2>4. \A x \in S : N - m <= N - x
    BY <2>2, <2>3
  <2>5. \A x \in S : m >= x
    BY <1>1, <2>4
  <2> QED BY <2>5
<1>3. \E m \in S : \A x \in S : m <= x
  BY <1>1, SmallestExists, Zenon
<1>4. Max(S) \in S /\ \A x \in S : Max(S) >= x
  BY <1>2, Zenon DEF Max
<1>5. Min(S) \in S /\ \A x \in S : Min(S) <= x
  BY <1>3, Zenon DEF Min
<1> QED BY <1>1, <1>4, <1>5

\* If nothing changed the powers are the same.
LEMMA NoChange ==
  ASSUME NEW st, ~IsSnapshotChanged(st)
  PROVE  PowersIn(UpdatedUSDValues(st)) = PowersIn(usd) /\ lastChanged # NoHelper
<1> DEFINE new == UpdatedUSDValues(st)
<1>1. DOMAIN new = DOMAIN usd /\ lastChanged # NoHelper
  BY Zenon DEF IsSnapshotChanged, UpdatedUSDValues
<1>2. \A o \in DOMAIN usd : usd[o].ActiveUSDValue = new[o].ActiveUSDValue
  BY <1>1 DEF IsSnapshotChanged
<1> HIDE DEF new
<1>3. {o \in DOMAIN new : new[o].ActiveUSDValue > 0} = {o \in DOMAIN usd : usd[o].ActiveUSDValue > 0}
  BY <1>1, <1>2
<1>4. PowersIn(new) = PowersIn(usd)
  BY <1>2, <1>3 DEF PowersIn
<1> QED BY <1>1, <1>4 DEF new

\* Nobody has power without a value.
LEMMA NoPowerInNone == PowersIn(NoPower) = NoPower
<1>1. DOMAIN NoPower = {}
  BY DEF NoPower
<1>2. {o \in DOMAIN NoPower : NoPower[o].ActiveUSDValue > 0} = {}
  BY <1>1
<1> QED BY <1>2 DEF PowersIn, NoPower

\* UpdateVotingPower with its snapshot is such an update.
LEMMA UpdateEffect ==
  ASSUME NEW st, NEW at, NEW e2, UpdateVotingPower(st, at),
         NEW sn2, sn2 = SnapshotsAfterUpdate(st, at, e2)
  PROVE  \E chg \in BOOLEAN, set \in BOOLEAN :
           Update(snapshot, sn2, lastChanged, lastChanged', overwritten, overwritten',
                  PowersIn(usd), PowersIn(usd'), at, e2, chg, set)
<1>1. PICK chg \in BOOLEAN : chg <=> IsSnapshotChanged(st)
  BY Zenon DEF IsSnapshotChanged
<1>2. PICK set \in BOOLEAN : set <=> (IsSnapshotChanged(st) \/ UpdatedUSDValues(st) # NoPower)
  BY Zenon
<1>3. /\ DOMAIN sn2 = DOMAIN snapshot \cup (IF set THEN {at} ELSE {})
      /\ \A g \in DOMAIN snapshot : g # at \/ ~set => sn2[g] = snapshot[g]
  BY <1>2 DEF SnapshotsAfterUpdate
<1>4. set => sn2[at] = [epoch |-> e2, lastChanged |-> LastChangedHeight(st, at),
                        powers |-> IF IsSnapshotChanged(st) THEN PowersIn(UpdatedUSDValues(st)) ELSE NoPower]
  BY <1>2 DEF SnapshotsAfterUpdate
<1>5. usd' = UpdatedUSDValues(st) /\ lastChanged' = LastChangedHeight(st, at)
  BY DEF UpdateVotingPower
<1>6. set => /\ sn2[at].epoch = e2 /\ sn2[at].lastChanged = lastChanged'
             /\ chg => sn2[at].powers = PowersIn(usd')
  BY <1>1, <1>4, <1>5
<1>7. lastChanged' = IF chg THEN at ELSE lastChanged
  BY <1>1, <1>5 DEF LastChangedHeight
<1>8. ~chg => PowersIn(usd') = PowersIn(usd) /\ lastChanged # NoHelper
  BY <1>1, <1>5, NoChange
<1>9. (chg => set) /\ (~set => PowersIn(usd') = NoPower)
  BY <1>1, <1>2, <1>5, NoPowerInNone
<1>10. overwritten \subseteq overwritten' /\ (~chg /\ lastChanged = at => at \in overwritten')
  BY <1>1 DEF UpdateVotingPower
<1>11. Update(snapshot, sn2, lastChanged, lastChanged', overwritten, overwritten',
              PowersIn(usd), PowersIn(usd'), at, e2, chg, set)
  BY <1>3, <1>6, <1>7, <1>8, <1>9, <1>10 DEF Update
<1> QED BY <1>11

\* StartBlock changes the slashable blocks that way.
LEMMA BlocksEffect ==
  ASSUME History(height, epoch, PowersIn(usd), power, epochOf), NEW e2, NEW now2, StartBlock(e2, now2)
  PROVE  Blocks(height, e2, now2, power, epochOf, power', epochOf') /\ height' = height + 1
<1> DEFINE blocks == {h \in 1 .. height + 1 : StillSlashable(h, e2)}
<1>1. height \in Nat /\ DOMAIN epochOf \subseteq 1 .. height /\ DOMAIN power = DOMAIN epochOf
  BY DEF History
<1>2. /\ height' = height + 1
      /\ power' = [h \in blocks |-> IF h <= height THEN power[h] ELSE now2]
      /\ epochOf' = [h \in blocks |-> IF h <= height THEN epochOf[h] ELSE e2]
  BY DEF StartBlock
<1>3. height + 1 \in blocks /\ blocks \subseteq 1 .. height + 1
  BY <1>1 DEF StillSlashable
<1>4. \A h \in DOMAIN epochOf : h \in blocks <=> epochOf[h] >= e2 - UnbondingDuration
  BY <1>1 DEF StillSlashable
<1>5. \A h \in blocks : h <= height => h \in DOMAIN epochOf
  BY <1>1 DEF StillSlashable
<1> HIDE DEF blocks
<1>6. DOMAIN power' = blocks /\ DOMAIN epochOf' = blocks
  BY <1>2
<1>7. \A h \in blocks : h <= height => power'[h] = power[h] /\ epochOf'[h] = epochOf[h]
  BY <1>2
<1>8. power'[height + 1] = now2 /\ epochOf'[height + 1] = e2
  BY <1>1, <1>2, <1>3
<1> QED BY <1>2, <1>3, <1>4, <1>5, <1>6, <1>7, <1>8 DEF Blocks
-----------------------------------------------------------------------------
(***************************************************************************)
(* An update keeps every predicate.                                        *)
(***************************************************************************)
\* The chain of references, and the powers at its end.
LEMMA UpdateChain ==
  ASSUME NEW sn, NEW sn2, NEW lc, NEW lc2, NEW ow, NEW ow2, NEW now, NEW now2,
         NEW at \in Nat \ {0}, NEW e2, NEW chg \in BOOLEAN, NEW set \in BOOLEAN,
         Update(sn, sn2, lc, lc2, ow, ow2, now, now2, at, e2, chg, set),
         DOMAIN sn \subseteq 1 .. at, Chain(sn), Last(sn, lc, ow, now)
  PROVE  Chain(sn2) /\ Last(sn2, lc2, ow2, now2)
<1> DEFINE D == DOMAIN sn
           D2 == DOMAIN sn2
<1>1. D \subseteq D2 /\ D2 \subseteq D \cup {at} /\ (at \in D2 /\ at \notin D => set) /\ (set => at \in D2)
  BY DEF Update
<1>2. \A g \in D2 : g \in Nat /\ g <= at
  BY <1>1
<1>3. \A g \in D : g # at \/ ~set => sn2[g] = sn[g]
  BY DEF Update
<1>4. lc2 \in Nat /\ lc2 # NoHelper /\ lc2 \in D2 /\ lc2 <= at
  <2>1. CASE chg
    BY <1>1, <2>1 DEF Update, NoHelper
  <2>2. CASE ~chg
    BY <1>1, <1>2, <2>2 DEF Update, Last
  <2> QED BY <2>1, <2>2
<1>5. \A g \in D2 : lc2 <= g => sn2[g].lastChanged = lc2
  <2>1. SUFFICES ASSUME NEW g \in D2, lc2 <= g PROVE sn2[g].lastChanged = lc2
    OBVIOUS
  <2>2. CASE g = at /\ set
    BY <2>2 DEF Update
  <2>3. CASE ~(g = at /\ set)
    <3>1. g \in D /\ sn2[g] = sn[g]
      BY <1>1, <1>3, <2>3
    <3>2. ~chg
      BY <1>2, <2>1, <2>3 DEF Update
    <3> QED BY <2>1, <3>1, <3>2 DEF Update, Last
  <2> QED BY <2>2, <2>3
<1>6. lc2 \notin ow2 => sn2[lc2].powers = now2
  <2>1. CASE chg
    BY <2>1 DEF Update
  <2>2. CASE ~chg
    <3>1. SUFFICES ASSUME lc2 \notin ow2 PROVE sn2[lc2].powers = now2
      OBVIOUS
    <3>2. lc2 = lc /\ lc # at /\ lc \notin ow /\ now2 = now /\ lc # NoHelper
      BY <2>2, <3>1 DEF Update
    <3>3. lc \in D /\ sn[lc].powers = now
      BY <3>2 DEF Last
    <3> QED BY <1>3, <3>2, <3>3
  <2> QED BY <2>1, <2>2
<1>7. Last(sn2, lc2, ow2, now2)
  BY <1>4, <1>5, <1>6 DEF Last
<1>8. ASSUME NEW g \in D2
      PROVE  /\ sn2[g].lastChanged \in D2 /\ sn2[g].lastChanged <= g
             /\ \A k \in D2 : sn2[g].lastChanged <= k /\ k <= g
                  => sn2[k].lastChanged = sn2[g].lastChanged
  <2>1. CASE g = at /\ set
    <3>1. sn2[g].lastChanged = lc2
      BY <2>1 DEF Update
    <3> QED BY <1>4, <1>5, <2>1, <3>1
  <2>2. CASE ~(g = at /\ set)
    <3>1. g \in D /\ sn2[g] = sn[g]
      BY <1>1, <1>3, <2>2
    <3>2. /\ sn[g].lastChanged \in D /\ sn[g].lastChanged <= g
          /\ \A k \in D : sn[g].lastChanged <= k /\ k <= g => sn[k].lastChanged = sn[g].lastChanged
      BY <3>1 DEF Chain
    <3>3. \A k \in D2 : k <= g => k \in D /\ sn2[k] = sn[k]
      BY <1>1, <1>2, <1>3, <2>2
    <3> QED BY <1>1, <3>1, <3>2, <3>3
  <2> QED BY <2>1, <2>2
<1> QED BY <1>7, <1>8 DEF Chain

\* The snapshots found for the blocks, the block at with the new powers.
LEMMA UpdateFound ==
  ASSUME NEW sn, NEW sn2, NEW lc, NEW lc2, NEW ow, NEW ow2, NEW now, NEW now2,
         NEW at \in Nat \ {0}, NEW e2, NEW chg \in BOOLEAN, NEW set \in BOOLEAN,
         Update(sn, sn2, lc, lc2, ow, ow2, now, now2, at, e2, chg, set),
         DOMAIN sn \subseteq 1 .. at, Chain(sn), Last(sn, lc, ow, now),
         NEW pw, NEW pw2, NEW eo, NEW eo2, Found(sn, ow, pw), Extended(at, now2, pw, eo, pw2, eo2)
  PROVE  Found(sn2, ow2, pw2)
<1>0. /\ DOMAIN pw2 \subseteq 1 .. at /\ pw2[at] = now2
      /\ \A h \in DOMAIN pw2 : h # at => h \in DOMAIN pw /\ pw2[h] = pw[h]
  BY DEF Extended
<1> USE <1>0
<1>1. Chain(sn2) /\ Last(sn2, lc2, ow2, now2)
  BY UpdateChain
<1>2. SUFFICES ASSUME NEW h \in DOMAIN pw2, NEW g \in DOMAIN sn2, KeyFor(sn2, h, g),
                      sn2[g].lastChanged \notin ow2
               PROVE  sn2[sn2[g].lastChanged].powers = pw2[h]
  BY DEF Found
<1>3. DOMAIN sn2 \subseteq DOMAIN sn \cup {at} /\ DOMAIN sn \subseteq DOMAIN sn2
  BY DEF Update
<1>4. CASE h = at
  <2>1. lc2 # NoHelper
    BY DEF Update, NoHelper
  <2>2. lc2 \in DOMAIN sn2 /\ lc2 <= at
    BY <1>1, <1>3, <2>1 DEF Last
  <2>3. lc2 <= g
    BY <1>2, <1>4, <2>2 DEF KeyFor
  <2>4. sn2[g].lastChanged = lc2
    BY <1>1, <2>1, <2>3 DEF Last
  <2> QED BY <1>1, <1>2, <1>4, <2>1, <2>4 DEF Last
<1>5. CASE h # at
  <2>1. h < at /\ h \in DOMAIN pw /\ pw2[h] = pw[h] /\ h \in Nat
    BY <1>5
  <2>2. g <= h /\ g \in DOMAIN sn /\ g # at
    BY <1>2, <1>3, <2>1 DEF KeyFor
  <2>3. \A k \in DOMAIN sn : k <= h => k <= g
    BY <1>2, <1>3 DEF KeyFor
  <2>4. KeyFor(sn, h, g)
    BY <2>2, <2>3 DEF KeyFor
  <2>5. sn2[g] = sn[g]
    BY <2>2 DEF Update
  <2>6. sn[g].lastChanged \in DOMAIN sn /\ sn[g].lastChanged <= g
    BY <2>2 DEF Chain
  <2>7. sn[g].lastChanged # at /\ sn[g].lastChanged \notin ow
    <3>1. sn[g].lastChanged \in Nat /\ g \in Nat
      BY <2>2, <2>6
    <3>2. ow \subseteq ow2
      BY DEF Update
    <3> QED BY <1>2, <2>1, <2>2, <2>5, <2>6, <3>1, <3>2
  <2>8. sn2[sn[g].lastChanged] = sn[sn[g].lastChanged]
    BY <2>6, <2>7, Zenon DEF Update
  <2>9. sn[sn[g].lastChanged].powers = pw[h]
    BY <2>1, <2>2, <2>4, <2>7, Zenon DEF Found
  <2> QED BY <2>1, <2>5, <2>8, <2>9
<1> QED BY <1>4, <1>5

\* The snapshots of the epochs and of the changes.
LEMMA UpdateSteps ==
  ASSUME NEW sn, NEW sn2, NEW now, NEW now2, NEW at \in Nat \ {0},
         DOMAIN sn2 \subseteq DOMAIN sn \cup {at}, DOMAIN sn \subseteq DOMAIN sn2,
         at \notin DOMAIN sn2 => now2 = now /\ now2 = NoPower,
         NEW ht \in 1 .. at, DOMAIN sn \subseteq 1 .. ht,
         NEW e, NEW pw, NEW pw2, NEW eo, NEW eo2, History(ht, e, now, pw, eo),
         Covered(sn, pw, eo), Steps(sn, pw), Extended(at, now2, pw, eo, pw2, eo2)
  PROVE  Covered(sn2, pw2, eo2) /\ Steps(sn2, pw2)
<1>0. /\ pw[ht] = now /\ ht \in DOMAIN pw /\ DOMAIN pw \subseteq 1 .. ht /\ DOMAIN pw = DOMAIN eo
      /\ DOMAIN pw2 = DOMAIN eo2
      /\ DOMAIN pw2 \subseteq 1 .. at /\ at \in DOMAIN pw2 /\ pw2[at] = now2
      /\ \A h \in DOMAIN pw2 : h # at => h \in DOMAIN pw /\ pw2[h] = pw[h] /\ eo2[h] = eo[h]
      /\ \A g \in DOMAIN eo, h \in DOMAIN eo2 :
           g # at /\ h # at /\ eo[g] = eo[h] => g \in DOMAIN eo2
  BY DEF Extended, History
<1> USE <1>0
<1>1. \A h \in DOMAIN pw2 : h # at => h \in Nat /\ h < at /\ h <= ht
  OBVIOUS
<1>2. ASSUME NEW h \in DOMAIN pw2, pw2[h] # NoPower
      PROVE  \E g \in DOMAIN sn2 : g \in DOMAIN eo2 /\ g <= h /\ eo2[g] = eo2[h]
  <2>1. CASE h = at
    BY <1>2, <2>1
  <2>2. CASE h # at
    <3>1. h \in DOMAIN pw /\ pw2[h] = pw[h] /\ eo2[h] = eo[h]
      BY <2>2
    <3>2. PICK g \in DOMAIN sn : g \in DOMAIN eo /\ g <= h /\ eo[g] = eo[h]
      BY <1>2, <3>1 DEF Covered
    <3>3. g # at
      BY <1>1, <2>2, <3>2
    <3>4. g \in DOMAIN eo2 /\ eo2[g] = eo[g]
      BY <2>2, <3>2, <3>3, Zenon
    <3> QED BY <3>1, <3>2, <3>4
  <2> QED BY <2>1, <2>2
<1>3. ASSUME NEW h \in DOMAIN pw2, NEW k \in DOMAIN pw2, k <= h, pw2[k] # pw2[h]
      PROVE  \E g \in DOMAIN sn2 : k < g /\ g <= h
  <2>1. k # at /\ k \in DOMAIN pw /\ pw2[k] = pw[k]
    <3>1. h \in Nat /\ k \in Nat /\ h <= at
      OBVIOUS
    <3>2. k # h
      BY <1>3, Zenon
    <3> QED BY <1>3, <3>1, <3>2
  <2>2. CASE h # at
    BY <1>3, <2>1, <2>2 DEF Steps
  <2>3. CASE h = at /\ at \in DOMAIN sn2
    BY <1>1, <2>1, <2>3
  <2>4. CASE h = at /\ at \notin DOMAIN sn2
    <3>1. now2 = now
      BY <2>4
    <3>2. k <= ht /\ pw[k] # pw[ht]
      BY <1>1, <1>3, <2>1, <2>4, <3>1
    <3>3. PICK g \in DOMAIN sn : k < g /\ g <= ht
      BY <2>1, <3>2 DEF Steps
    <3>4. g <= at
      BY <3>3
    <3> QED BY <2>4, <3>3, <3>4
  <2> QED BY <2>2, <2>3, <2>4
<1> QED BY <1>2, <1>3, Zenon DEF Covered, Steps

\* The epochs of the opt-outs, also at the start of an epoch.
LEMMA UpdateOptOuts ==
  ASSUME NEW sn, NEW sn2, NEW lc, NEW lc2, NEW ow, NEW ow2, NEW now, NEW now2,
         NEW at \in Nat \ {0}, NEW e2 \in Nat \ {0}, NEW chg \in BOOLEAN, NEW set \in BOOLEAN,
         Update(sn, sn2, lc, lc2, ow, ow2, now, now2, at, e2, chg, set),
         NEW ht \in Nat \ {0}, NEW e \in Nat \ {0}, DOMAIN sn \subseteq 1 .. ht,
         ht <= at, e <= e2, at = ht => e2 = e,
         NEW op, OptOuts(sn, ht, e, op)
  PROVE  OptOuts(sn2, at, e2, op)
<1>1. DOMAIN sn2 \subseteq DOMAIN sn \cup {at} /\ DOMAIN sn \subseteq DOMAIN sn2
  BY DEF Update
<1>2. \A g \in DOMAIN sn : g # at \/ ~set => sn2[g] = sn[g]
  BY Zenon DEF Update
<1>3. SUFFICES ASSUME NEW o \in Operators, op[o].status = "out"
      PROVE  /\ op[o].outHeight \in 1 .. at /\ op[o].outEpoch \in 1 .. e2
             /\ op[o].outHeight = at => op[o].outEpoch = e2
             /\ op[o].served =>
                  /\ op[o].outEpoch + UnbondingDuration >= e2 =>
                       \E g \in DOMAIN sn2 : KeyFor(sn2, op[o].outHeight, g) /\ sn2[g].epoch = op[o].outEpoch
                  /\ \A g \in DOMAIN sn2 : g <= op[o].outHeight => sn2[g].epoch <= op[o].outEpoch
  BY Zenon DEF OptOuts
<1>4. PICK oh \in 1 .. ht : oh = op[o].outHeight
  BY <1>3, Zenon DEF OptOuts
<1>5. PICK oe \in 1 .. e : oe = op[o].outEpoch
  BY <1>3, Zenon DEF OptOuts
<1>6. oh = ht => oe = e
  BY <1>3, <1>4, <1>5, Zenon DEF OptOuts
<1>7. oh \in 1 .. at /\ oe \in 1 .. e2 /\ (oh = at => oe = e2)
  BY <1>6
<1>8. ASSUME op[o].served
      PROVE  /\ oe + UnbondingDuration >= e2 =>
                  \E g \in DOMAIN sn2 : KeyFor(sn2, oh, g) /\ sn2[g].epoch = oe
             /\ \A g \in DOMAIN sn2 : g <= oh => sn2[g].epoch <= oe
  <2>1. /\ oe + UnbondingDuration >= e =>
             \E g \in DOMAIN sn : KeyFor(sn, oh, g) /\ sn[g].epoch = oe
        /\ \A g \in DOMAIN sn : g <= oh => sn[g].epoch <= oe
    BY <1>3, <1>4, <1>5, <1>8, Zenon DEF OptOuts
  <2>2. CASE oh = at /\ set
    <3>1. oe = e2 /\ at \in DOMAIN sn2 /\ sn2[at].epoch = e2
      BY <1>7, <2>2 DEF Update
    <3>2. KeyFor(sn2, oh, at)
      BY <2>2, <3>1 DEF KeyFor
    <3>3. ASSUME NEW g \in DOMAIN sn2, g <= oh PROVE sn2[g].epoch <= oe
      <4>1. CASE g = at
        BY <3>1, <4>1
      <4>2. CASE g # at
        BY <1>1, <1>2, <2>1, <3>3, <4>2, Zenon
      <4> QED BY <4>1, <4>2
    <3> QED BY <3>1, <3>2, <3>3, Zenon
  <2>3. CASE ~(oh = at /\ set)
    <3>1. \A g \in DOMAIN sn2 : g <= oh => g \in DOMAIN sn /\ sn2[g] = sn[g]
      <4>1. SUFFICES ASSUME NEW g \in DOMAIN sn2, g <= oh PROVE g \in DOMAIN sn /\ sn2[g] = sn[g]
        OBVIOUS
      <4>2. g # at \/ ~set
        BY <1>1, <1>7, <2>3, <4>1
      <4>3. g \in DOMAIN sn
        BY <1>1, <4>2 DEF Update
      <4> QED BY <1>2, <4>2, <4>3
    <3>2. \A g \in DOMAIN sn2 : g <= oh => sn2[g].epoch <= oe
      BY <2>1, <3>1
    <3>3. ASSUME oe + UnbondingDuration >= e2
          PROVE  \E g \in DOMAIN sn2 : KeyFor(sn2, oh, g) /\ sn2[g].epoch = oe
      <4>1. oe + UnbondingDuration >= e
        BY <3>3, VotingPowerAssumption
      <4>2. PICK g \in DOMAIN sn : KeyFor(sn, oh, g) /\ sn[g].epoch = oe
        BY <2>1, <4>1
      <4>3. g <= oh /\ g \in DOMAIN sn2
        BY <1>1, <4>2, Zenon DEF KeyFor
      <4>4. KeyFor(sn2, oh, g)
        BY <3>1, <4>2, <4>3 DEF KeyFor
      <4> QED BY <3>1, <4>2, <4>3, <4>4, Zenon
    <3> QED BY <3>2, <3>3
  <2> QED BY <2>2, <2>3, Zenon
<1> QED BY <1>4, <1>5, <1>7, <1>8, Zenon
-----------------------------------------------------------------------------
(***************************************************************************)
(* Removing old snapshots keeps every predicate.                           *)
(***************************************************************************)
\* What is removed: only snapshots up to epoch n, none that a remaining one
\* refers to, and only ones that refer to the same as the remaining ones
\* before them.
Removed(sn, sn2, n) ==
  /\ DOMAIN sn2 \subseteq DOMAIN sn
  /\ \A g \in DOMAIN sn2 : sn2[g] = sn[g]
  /\ \A g \in DOMAIN sn : sn[g].epoch > n => g \in DOMAIN sn2
  /\ \A g \in DOMAIN sn2 : sn[g].lastChanged \in DOMAIN sn2
  /\ \A c \in DOMAIN sn : (\A g \in DOMAIN sn : c <= g => sn[g].lastChanged = c) => c \in DOMAIN sn2
  /\ \A g \in DOMAIN sn, k \in DOMAIN sn2 :
       g \notin DOMAIN sn2 /\ k <= g => sn[k].lastChanged = sn[g].lastChanged

\* RemoveVotingPowerSnapshot removes no more, though it looks only at the
\* first remaining snapshot to decide whether to retain the last changed one.
LEMMA RemoveEffect ==
  ASSUME NEW sn, NEW N \in Nat, DOMAIN sn \subseteq 1 .. N, Chain(sn),
         \A g \in DOMAIN sn : sn[g].epoch \in Int, NEW n \in Int
  PROVE  Removed(sn, RemoveVotingPowerSnapshot(sn, n), n)
<1> DEFINE D        == DOMAIN sn
           old      == {h \in D : \A g \in D : g <= h => sn[g].epoch <= n}
           changed  == {h \in old : sn[h].lastChanged = h}
           rest     == D \ old
           retained == IF changed = {} \/ (rest # {} /\ sn[Min(rest)].lastChanged = Min(rest))
                       THEN {} ELSE {Max(changed)}
           D2       == rest \cup retained
           R        == RemoveVotingPowerSnapshot(sn, n)
<1>1. R = [g \in D2 |-> sn[g]]
  BY Zenon DEF RemoveVotingPowerSnapshot, Restrict
<1>2. /\ old \subseteq D /\ rest \subseteq D /\ \A g \in D : g \in old \/ g \in rest
      /\ \A g \in rest : g \notin old
  OBVIOUS
<1>3. \A h \in old : sn[h].epoch <= n
  OBVIOUS
<1>4. \A h \in old, g \in D : g <= h => g \in old
  OBVIOUS
<1>5. /\ changed \subseteq old
      /\ \A h \in old : sn[h].lastChanged = h => h \in changed
      /\ \A h \in changed : sn[h].lastChanged = h
  OBVIOUS
<1>6. \A g \in D : /\ sn[g].lastChanged \in D /\ sn[g].lastChanged <= g
                   /\ \A k \in D : sn[g].lastChanged <= k /\ k <= g => sn[k].lastChanged = sn[g].lastChanged
  BY DEF Chain
<1>7. changed # {} => Max(changed) \in changed /\ \A x \in changed : x <= Max(changed)
  BY <1>2, <1>5, MaxMin, ZenonT(60)
<1>8. rest # {} => Min(rest) \in rest /\ \A x \in rest : Min(rest) <= x
  BY <1>2, MaxMin, ZenonT(60)
<1>9. retained = {} \/ (changed # {} /\ retained = {Max(changed)})
  BY Zenon
<1>10. changed # {} /\ retained = {} => rest # {} /\ sn[Min(rest)].lastChanged = Min(rest)
  BY Zenon
<1>11. D \subseteq Int
  OBVIOUS
<1> HIDE DEF old, changed, rest, retained
<1>12. D2 \subseteq D
  BY <1>2, <1>5, <1>7, <1>9
<1>13. \A g \in D : sn[g].epoch > n => g \in D2
  BY <1>2, <1>3
\* A snapshot refers to a changed one, and an old one to an old changed one.
<1>14. \A g \in D : sn[sn[g].lastChanged].lastChanged = sn[g].lastChanged
  BY <1>6, <1>11
<1>15. \A g \in old : sn[g].lastChanged \in changed
  BY <1>2, <1>4, <1>5, <1>6, <1>14
\* Every old snapshot is below every other one.
<1>16. \A g \in old, k \in rest : g < k
  BY <1>2, <1>4, <1>11
\* If a remaining snapshot refers to an old one, that is the last changed.
<1>17. \A g \in rest : sn[g].lastChanged \in old => retained = {sn[g].lastChanged}
  <2>1. SUFFICES ASSUME NEW g \in rest, sn[g].lastChanged \in old
                 PROVE  retained = {sn[g].lastChanged}
    OBVIOUS
  <2>2. PICK c \in old : c = sn[g].lastChanged
    BY <2>1
  <2>3. c \in changed /\ g \in D /\ c \in D
    BY <1>2, <1>5, <1>14, <2>2
  <2>4. Max(changed) \in changed /\ c <= Max(changed) /\ Max(changed) \in D /\ Max(changed) < g
    BY <1>2, <1>5, <1>7, <1>16, <2>3
  <2>5. sn[Max(changed)].lastChanged = c
    BY <1>6, <1>11, <2>2, <2>3, <2>4
  <2>6. Max(changed) = c
    BY <1>5, <2>4, <2>5
  <2>7. Min(rest) \in rest /\ Min(rest) <= g /\ Min(rest) \in D /\ c < Min(rest)
    BY <1>2, <1>8, <1>16
  <2>8. sn[Min(rest)].lastChanged = c
    BY <1>6, <1>11, <2>2, <2>3, <2>7
  <2>9. sn[Min(rest)].lastChanged # Min(rest)
    BY <1>11, <2>3, <2>7, <2>8
  <2> QED BY <1>9, <1>10, <2>2, <2>3, <2>6, <2>9
<1>18. \A g \in D2 : sn[g].lastChanged \in D2
  <2>1. \A g \in rest : sn[g].lastChanged \in D2
    BY <1>2, <1>6, <1>17
  <2>2. \A g \in retained : sn[g].lastChanged = g
    BY <1>5, <1>7, <1>9
  <2> QED BY <2>1, <2>2
<1>19. ASSUME NEW c \in D, \A g \in D : c <= g => sn[g].lastChanged = c
       PROVE  c \in D2
  <2>1. SUFFICES ASSUME c \in old PROVE c \in retained
    BY <1>2
  <2>2. CASE rest # {}
    <3>1. PICK g \in rest : g \in D /\ c < g
      BY <1>2, <1>16, <2>1, <2>2
    <3>2. sn[g].lastChanged = c
      BY <1>11, <1>19, <3>1
    <3> QED BY <1>17, <2>1, <3>2
  <2>3. CASE rest = {}
    <3>1. c \in changed
      BY <1>5, <1>11, <1>19, <2>1
    <3>2. retained = {Max(changed)}
      BY <1>9, <1>10, <2>3, <3>1
    <3>3. Max(changed) \in D /\ c <= Max(changed) /\ sn[Max(changed)].lastChanged = Max(changed)
      BY <1>2, <1>5, <1>7, <3>1
    <3> QED BY <1>19, <3>2, <3>3
  <2> QED BY <2>2, <2>3
<1>20. ASSUME NEW g \in D, NEW k \in D2, g \notin D2, k <= g
       PROVE  sn[k].lastChanged = sn[g].lastChanged
  <2>1. g \in old /\ k \in D
    BY <1>2, <1>12, <1>20
  <2>2. k \in old
    BY <1>4, <1>20, <2>1
  <2>3. k \in retained /\ k = Max(changed) /\ changed # {}
    BY <1>2, <1>9, <2>2
  <2>4. sn[g].lastChanged <= k
    BY <1>7, <1>15, <2>1, <2>3
  <2> QED BY <1>6, <1>20, <2>1, <2>4
<1>21. DOMAIN R = D2 /\ \A g \in D2 : R[g] = sn[g]
  BY <1>1
<1> HIDE DEF R, D2
<1>22. Removed(sn, R, n)
  BY <1>12, <1>13, <1>18, <1>19, <1>20, <1>21, Zenon DEF Removed
<1> QED BY <1>22 DEF R

\* Nothing is lost when all slashable blocks are after epoch n.
LEMMA RemoveKeeps ==
  ASSUME NEW sn, NEW sn2, NEW lc, NEW ow, NEW now, NEW ht, NEW e, NEW pw, NEW eo, NEW op,
         SnapInv(sn, lc, ow, now, ht, e, pw, eo, op),
         NEW n \in Int, n < e - UnbondingDuration, Removed(sn, sn2, n),
         \A h \in DOMAIN eo : eo[h] > n
  PROVE  SnapInv(sn2, lc, ow, now, ht, e, pw, eo, op)
<1> DEFINE D  == DOMAIN sn
           D2 == DOMAIN sn2
<1>1. /\ History(ht, e, now, pw, eo) /\ Stored(sn, ht, e, eo) /\ Chain(sn) /\ Last(sn, lc, ow, now)
      /\ Found(sn, ow, pw) /\ Covered(sn, pw, eo) /\ Steps(sn, pw) /\ OptOuts(sn, ht, e, op)
  BY Zenon DEF SnapInv
<1>2. D2 \subseteq D /\ \A g \in D2 : sn2[g] = sn[g]
  BY Zenon DEF Removed
<1>3. \A g \in D : sn[g].epoch > n => g \in D2
  BY DEF Removed
<1>4. \A g \in D2 : sn[g].lastChanged \in D2
  BY Zenon DEF Removed
<1>5. \A g \in D : g \in Int /\ g >= 1 /\ g <= ht
  <2>1. DOMAIN sn \subseteq 1 .. ht /\ ht \in Nat
    BY <1>1, Zenon DEF Stored, History
  <2> QED BY <2>1
<1>6. Stored(sn2, ht, e, eo)
  BY <1>1, <1>2, Zenon DEF Stored
<1>7. Chain(sn2)
  <2>1. SUFFICES ASSUME NEW g \in D2
        PROVE  /\ sn2[g].lastChanged \in D2 /\ sn2[g].lastChanged <= g
               /\ \A k \in D2 : sn2[g].lastChanged <= k /\ k <= g
                    => sn2[k].lastChanged = sn2[g].lastChanged
    BY Zenon DEF Chain
  <2>2. /\ sn[g].lastChanged <= g
        /\ \A k \in D : sn[g].lastChanged <= k /\ k <= g => sn[k].lastChanged = sn[g].lastChanged
    BY <1>1, <1>2, Zenon DEF Chain
  <2> QED BY <1>2, <1>4, <2>2, Zenon
<1>8. Last(sn2, lc, ow, now)
  <2>1. lc = NoHelper => D2 = {} /\ now = NoPower
    BY <1>1, <1>2, Zenon DEF Last
  <2>2. lc # NoHelper => lc \in D2
    BY <1>1, Zenon DEF Last, Removed
  <2> QED BY <1>1, <1>2, <2>1, <2>2, Zenon DEF Last
<1>9. Found(sn2, ow, pw)
  <2>1. SUFFICES ASSUME NEW h \in DOMAIN pw, NEW k \in D2, KeyFor(sn2, h, k),
                        sn2[k].lastChanged \notin ow
                 PROVE  sn2[sn2[k].lastChanged].powers = pw[h]
    BY Zenon DEF Found
  <2>2. h \in Nat
    BY <1>1 DEF History
  <2>3. PICK g \in D : KeyFor(sn, h, g)
    <3> DEFINE S == {x \in D : x <= h}
    <3>1. S # {}
      BY <1>2, <2>1, Zenon DEF KeyFor
    <3>2. S \in SUBSET (1 .. h)
      BY <1>5, <2>2
    <3>3. Max(S) \in S /\ \A x \in S : x <= Max(S)
      <4> HIDE DEF S
      <4> QED BY <2>2, <3>1, <3>2, MaxMin, Zenon
    <3>4. \A x \in D : x <= h => x <= Max(S)
      BY <3>3
    <3>5. Max(S) \in D /\ Max(S) <= h
      BY <3>3, Zenon
    <3> HIDE DEF S
    <3> QED BY <3>4, <3>5, Zenon DEF KeyFor
  <2>4. k <= g /\ g <= h /\ k \in D
    BY <1>2, <2>1, <2>3, Zenon DEF KeyFor
  <2>5. sn[k].lastChanged = sn[g].lastChanged
    <3>1. CASE g \in D2
      <4>1. g <= k
        BY <2>1, <2>4, <3>1 DEF KeyFor
      <4>2. g = k
        BY <1>5, <2>4, <4>1
      <4> QED BY <4>2, Zenon
    <3>2. CASE g \notin D2
      BY <2>4, <3>2, Zenon DEF Removed
    <3> QED BY <3>1, <3>2
  <2>6. sn2[k].lastChanged = sn[g].lastChanged /\ sn[g].lastChanged \in D2
    BY <1>2, <1>4, <2>5, Zenon
  <2>7. sn[sn[g].lastChanged].powers = pw[h]
    BY <1>1, <2>1, <2>3, <2>6, Zenon DEF Found
  <2> QED BY <1>2, <2>6, <2>7, Zenon
<1>10. \A g \in D : g \in DOMAIN eo => g \in D2
  BY <1>1, <1>3, Zenon DEF Stored
<1>11. Covered(sn2, pw, eo)
  BY <1>1, <1>10 DEF Covered
<1>12. Steps(sn2, pw)
  <2>1. SUFFICES ASSUME NEW h \in DOMAIN pw, NEW k \in DOMAIN pw, k <= h, pw[k] # pw[h]
                 PROVE  \E g \in D2 : k < g /\ g <= h
    BY DEF Steps
  <2>2. PICK g \in D : k < g /\ g <= h
    BY <1>1, <2>1 DEF Steps
  <2>3. k \in DOMAIN eo /\ k \in Int /\ ht \in Int
    BY <1>1 DEF History
  <2>4. g \in k .. ht
    BY <1>5, <2>2, <2>3
  <2>5. g \in DOMAIN eo
    BY <1>1, <2>3, <2>4, Zenon DEF History
  <2> QED BY <1>10, <2>2, <2>5
<1>13. OptOuts(sn2, ht, e, op)
  <2>1. SUFFICES ASSUME NEW o \in Operators, op[o].status = "out"
        PROVE  /\ op[o].outHeight \in 1 .. ht /\ op[o].outEpoch \in 1 .. e
               /\ op[o].outHeight = ht => op[o].outEpoch = e
               /\ op[o].served =>
                    /\ op[o].outEpoch + UnbondingDuration >= e =>
                         \E g \in D2 : KeyFor(sn2, op[o].outHeight, g) /\ sn2[g].epoch = op[o].outEpoch
                    /\ \A g \in D2 : g <= op[o].outHeight => sn2[g].epoch <= op[o].outEpoch
    BY DEF OptOuts
  <2>2. e \in Nat /\ ht \in Nat
    BY <1>1, Zenon DEF History
  <2>3. PICK oh \in 1 .. ht : oh = op[o].outHeight
    BY <1>1, <2>1, Zenon DEF OptOuts
  <2>4. PICK oe \in 1 .. e : oe = op[o].outEpoch
    BY <1>1, <2>1, Zenon DEF OptOuts
  <2>5. op[o].outHeight = ht => op[o].outEpoch = e
    BY <1>1, <2>1, Zenon DEF OptOuts
  <2>6. ASSUME op[o].served
        PROVE  /\ oe + UnbondingDuration >= e =>
                    \E g \in D2 : KeyFor(sn2, oh, g) /\ sn2[g].epoch = oe
               /\ \A g \in D2 : g <= oh => sn2[g].epoch <= oe
    <3>1. /\ oe + UnbondingDuration >= e =>
               \E g \in D : KeyFor(sn, oh, g) /\ sn[g].epoch = oe
          /\ \A g \in D : g <= oh => sn[g].epoch <= oe
      BY <1>1, <2>1, <2>3, <2>4, <2>6, Zenon DEF OptOuts
    <3>2. ASSUME oe + UnbondingDuration >= e
          PROVE  \E g \in D2 : KeyFor(sn2, oh, g) /\ sn2[g].epoch = oe
      <4>1. PICK g \in D : KeyFor(sn, oh, g) /\ sn[g].epoch = oe
        BY <3>1, <3>2, Zenon
      <4>2. oe > n
        BY <2>2, <3>2, VotingPowerAssumption
      <4>3. g \in D2
        BY <1>3, <4>1, <4>2, Zenon
      <4>4. KeyFor(sn2, oh, g)
        BY <1>2, <4>1, <4>3, Zenon DEF KeyFor
      <4> QED BY <1>2, <4>1, <4>3, <4>4, Zenon
    <3> QED BY <1>2, <3>1, <3>2, Zenon
  <2> QED BY <2>3, <2>4, <2>5, <2>6, Zenon
<1> QED BY <1>1, <1>6, <1>7, <1>8, <1>9, <1>11, <1>12, <1>13 DEF SnapInv
-----------------------------------------------------------------------------
(***************************************************************************)
(* Every action keeps the invariant.                                       *)
(***************************************************************************)
\* A slash updates the powers of the current block.
LEMMA SlashUpdate ==
  ASSUME NEW sn, NEW sn2, NEW lc, NEW lc2, NEW ow, NEW ow2, NEW now, NEW now2,
         NEW chg \in BOOLEAN, NEW set \in BOOLEAN,
         NEW ht, NEW e, NEW pw, NEW pw2, NEW eo, NEW op,
         SnapInv(sn, lc, ow, now, ht, e, pw, eo, op),
         Update(sn, sn2, lc, lc2, ow, ow2, now, now2, ht, e, chg, set),
         Extended(ht, now2, pw, eo, pw2, eo)
  PROVE  SnapInv(sn2, lc2, ow2, now2, ht, e, pw2, eo, op)
<1>1. /\ History(ht, e, now, pw, eo) /\ Stored(sn, ht, e, eo) /\ Chain(sn) /\ Last(sn, lc, ow, now)
      /\ Found(sn, ow, pw) /\ Covered(sn, pw, eo) /\ Steps(sn, pw) /\ OptOuts(sn, ht, e, op)
  BY Zenon DEF SnapInv
<1>2. /\ ht \in Nat \ {0} /\ e \in Nat \ {0}
      /\ DOMAIN eo \subseteq 1 .. ht /\ ht \in DOMAIN eo /\ DOMAIN pw = DOMAIN eo
      /\ DOMAIN sn \subseteq 1 .. ht /\ eo[ht] = e
  BY <1>1, Zenon DEF History, Stored
<1>3. History(ht, e, now2, pw2, eo)
  BY <1>1, Zenon DEF History, Extended
<1>4. Stored(sn2, ht, e, eo)
  <2>1. DOMAIN sn2 \subseteq 1 .. ht
    BY <1>2 DEF Update
  <2>2. ASSUME NEW g \in DOMAIN sn2
        PROVE  sn2[g].epoch \in 1 .. e /\ (g \in DOMAIN eo => sn2[g].epoch = eo[g])
    <3>1. CASE g = ht /\ set
      BY <1>2, <3>1 DEF Update
    <3>2. CASE ~(g = ht /\ set)
      <4>1. g \in DOMAIN sn /\ sn2[g] = sn[g]
        BY <3>2 DEF Update
      <4> QED BY <1>1, <4>1, Zenon DEF Stored
    <3> QED BY <3>1, <3>2, Zenon
  <2> QED BY <2>1, <2>2, Zenon DEF Stored
<1>5. Chain(sn2) /\ Last(sn2, lc2, ow2, now2)
  BY <1>1, <1>2, UpdateChain, SMTT(30)
<1>6. Found(sn2, ow2, pw2)
  BY <1>1, <1>2, UpdateFound
<1>7. Covered(sn2, pw2, eo) /\ Steps(sn2, pw2)
  <2>1. /\ ht \in 1 .. ht /\ DOMAIN sn \subseteq 1 .. ht /\ ht \in Nat \ {0}
        /\ History(ht, e, now, pw, eo) /\ Covered(sn, pw, eo) /\ Steps(sn, pw)
    BY <1>1, <1>2, Zenon
  <2>2. /\ DOMAIN sn2 \subseteq DOMAIN sn \cup {ht} /\ DOMAIN sn \subseteq DOMAIN sn2
        /\ ht \notin DOMAIN sn2 => now2 = now /\ now2 = NoPower
    BY Zenon DEF Update
  <2> QED BY <2>1, <2>2, UpdateSteps
<1>8. OptOuts(sn2, ht, e, op)
  <2>1. /\ ht <= ht /\ e <= e /\ DOMAIN sn \subseteq 1 .. ht
        /\ ht \in Nat \ {0} /\ e \in Nat \ {0} /\ OptOuts(sn, ht, e, op)
    BY <1>1, <1>2
  <2> QED BY <2>1, UpdateOptOuts
<1> QED BY <1>3, <1>4, <1>5, <1>6, <1>7, <1>8 DEF SnapInv

\* The start of a block keeps the history.
LEMMA BlocksHistory ==
  ASSUME NEW ht, NEW e, NEW now, NEW pw, NEW eo, History(ht, e, now, pw, eo),
         NEW e2, e2 = e \/ e2 = e + 1, NEW now2, NEW pw2, NEW eo2,
         Blocks(ht, e2, now2, pw, eo, pw2, eo2)
  PROVE  History(ht + 1, e2, now2, pw2, eo2)
<1>1. /\ ht \in Nat \ {0} /\ e \in Nat \ {0} /\ e2 \in Nat \ {0}
      /\ DOMAIN eo \subseteq 1 .. ht
      /\ \A h \in DOMAIN eo : eo[h] \in 1 .. e
      /\ \A h \in DOMAIN eo : \A k \in h .. ht : k \in DOMAIN eo /\ eo[h] <= eo[k]
  BY DEF History
<1>2. /\ DOMAIN eo2 \subseteq 1 .. ht + 1 /\ ht + 1 \in DOMAIN eo2 /\ DOMAIN pw2 = DOMAIN eo2
      /\ eo2[ht + 1] = e2 /\ pw2[ht + 1] = now2
      /\ \A h \in DOMAIN eo : h \in DOMAIN eo2 <=> eo[h] >= e2 - UnbondingDuration
      /\ \A h \in DOMAIN eo2 : h <= ht => h \in DOMAIN eo /\ eo2[h] = eo[h]
  BY DEF Blocks
<1>3. \A h \in DOMAIN eo2 : h = ht + 1 \/ h <= ht
  BY <1>1, <1>2
<1>4. \A h \in DOMAIN eo2 : eo2[h] \in 1 .. e2
  BY <1>1, <1>2, <1>3
<1>5. ASSUME NEW h \in DOMAIN eo2, NEW k \in h .. ht + 1
      PROVE  k \in DOMAIN eo2 /\ eo2[h] <= eo2[k]
  <2>1. CASE k = ht + 1
    BY <1>2, <1>4, <1>1, <2>1
  <2>2. CASE k # ht + 1
    <3>1. k \in h .. ht /\ h <= ht
      BY <1>1, <1>2, <2>2
    <3>2. h \in DOMAIN eo /\ eo2[h] = eo[h] /\ eo[h] >= e2 - UnbondingDuration
      BY <1>2, <3>1
    <3>3. k \in DOMAIN eo /\ eo[h] <= eo[k]
      BY <1>1, <3>1, <3>2
    <3>4. eo[h] \in Int /\ eo[k] \in Int
      BY <1>1, <3>2, <3>3
    <3>5. k \in DOMAIN eo2
      BY <1>1, <1>2, <3>2, <3>3, <3>4, VotingPowerAssumption
    <3> QED BY <1>2, <3>1, <3>2, <3>3, <3>5
  <2> QED BY <2>1, <2>2
<1> QED BY <1>1, <1>2, <1>4, <1>5 DEF History

\* ... and extends the slashable blocks.
LEMMA BlocksExtended ==
  ASSUME NEW ht, NEW e, NEW now, NEW pw, NEW eo, History(ht, e, now, pw, eo),
         NEW e2, NEW now2, NEW pw2, NEW eo2, Blocks(ht, e2, now2, pw, eo, pw2, eo2)
  PROVE  Extended(ht + 1, now2, pw, eo, pw2, eo2)
<1>1. ht \in Nat /\ DOMAIN eo \subseteq 1 .. ht
  BY DEF History
<1>2. /\ DOMAIN eo2 \subseteq 1 .. ht + 1 /\ ht + 1 \in DOMAIN eo2 /\ DOMAIN pw2 = DOMAIN eo2
      /\ pw2[ht + 1] = now2
      /\ \A h \in DOMAIN eo : h \in DOMAIN eo2 <=> eo[h] >= e2 - UnbondingDuration
      /\ \A h \in DOMAIN eo2 : h <= ht => h \in DOMAIN eo /\ eo2[h] = eo[h] /\ pw2[h] = pw[h]
  BY Zenon DEF Blocks
<1>3. \A h \in DOMAIN eo2 : h # ht + 1 => h <= ht
  BY <1>1, <1>2
<1>4. DOMAIN pw = DOMAIN eo
  BY Zenon DEF History
<1>5. ASSUME NEW g \in DOMAIN eo, NEW h \in DOMAIN eo2, h # ht + 1, eo[g] = eo[h]
      PROVE  g \in DOMAIN eo2
  BY <1>2, <1>3, <1>5, Zenon
<1> QED BY <1>2, <1>3, <1>4, <1>5, Zenon DEF Extended

\* The end of an epoch stores the snapshot of the first block of the next.
LEMMA EpochUpdate ==
  ASSUME NEW sn, NEW sn2, NEW lc, NEW lc2, NEW ow, NEW ow2, NEW now, NEW now2,
         NEW chg \in BOOLEAN, NEW set \in BOOLEAN,
         NEW ht, NEW e, NEW pw, NEW pw2, NEW eo, NEW eo2, NEW op,
         SnapInv(sn, lc, ow, now, ht, e, pw, eo, op),
         Update(sn, sn2, lc, lc2, ow, ow2, now, now2, ht + 1, e + 1, chg, set),
         Blocks(ht, e + 1, now2, pw, eo, pw2, eo2)
  PROVE  SnapInv(sn2, lc2, ow2, now2, ht + 1, e + 1, pw2, eo2, op)
<1>1. /\ History(ht, e, now, pw, eo) /\ Stored(sn, ht, e, eo) /\ Chain(sn) /\ Last(sn, lc, ow, now)
      /\ Found(sn, ow, pw) /\ Covered(sn, pw, eo) /\ Steps(sn, pw) /\ OptOuts(sn, ht, e, op)
  BY Zenon DEF SnapInv
<1>2. ht \in Nat \ {0} /\ e \in Nat \ {0} /\ DOMAIN sn \subseteq 1 .. ht
  BY <1>1, Zenon DEF History, Stored
<1>3. PICK at \in Nat \ {0} : at = ht + 1
  BY <1>2
<1>4. PICK e2 \in Nat \ {0} : e2 = e + 1
  BY <1>2
<1>5. Update(sn, sn2, lc, lc2, ow, ow2, now, now2, at, e2, chg, set)
  BY <1>3, <1>4
<1>6. Extended(at, now2, pw, eo, pw2, eo2)
  BY <1>1, <1>3, BlocksExtended
<1>7. History(at, e2, now2, pw2, eo2)
  <2>1. History(ht + 1, e + 1, now2, pw2, eo2)
    BY <1>1, BlocksHistory, Zenon
  <2> QED BY <2>1, <1>3, <1>4, Zenon
<1>8. DOMAIN sn \subseteq 1 .. at /\ ht \in 1 .. at /\ ht <= at /\ e <= e2 /\ at # ht
  BY <1>2, <1>3, <1>4
<1>9. Stored(sn2, at, e2, eo2)
  <2>1. DOMAIN sn2 \subseteq 1 .. at
    BY <1>5, <1>8 DEF Update
  <2>2. ASSUME NEW g \in DOMAIN sn2
        PROVE  sn2[g].epoch \in 1 .. e2 /\ (g \in DOMAIN eo2 => sn2[g].epoch = eo2[g])
    <3>1. CASE g = at
      <4>1. set
        <5>1. at \notin DOMAIN sn
          BY <1>2, <1>3
        <5> QED BY <1>5, <3>1, <5>1, Zenon DEF Update
      <4>2. sn2[g].epoch = e2
        BY <1>5, <3>1, <4>1, Zenon DEF Update
      <4>3. eo2[at] = e2
        BY <1>7, Zenon DEF History
      <4>4. e2 \in 1 .. e2
        OBVIOUS
      <4> QED BY <3>1, <4>2, <4>3, <4>4, Zenon
    <3>2. CASE g # at
      <4>1. g \in DOMAIN sn /\ sn2[g] = sn[g]
        BY <1>5, <3>2, Zenon DEF Update
      <4>2. sn[g].epoch \in 1 .. e /\ (g \in DOMAIN eo => sn[g].epoch = eo[g])
        BY <1>1, <4>1, Zenon DEF Stored
      <4>3. g \in DOMAIN eo2 => g \in DOMAIN eo /\ eo2[g] = eo[g]
        <5>1. DOMAIN pw2 = DOMAIN eo2 /\ DOMAIN pw = DOMAIN eo
          BY <1>1, <1>7, Zenon DEF History
        <5> QED BY <1>6, <3>2, <5>1, Zenon DEF Extended
      <4>4. sn[g].epoch \in 1 .. e2
        <5>1. e \in Nat /\ e2 = e + 1 /\ sn[g].epoch \in 1 .. e
          BY <1>2, <1>4, <4>2, Zenon
        <5> QED BY <5>1
      <4> QED BY <4>1, <4>2, <4>3, <4>4, Zenon
    <3> QED BY <3>1, <3>2, Zenon
  <2> QED BY <2>1, <2>2, Zenon DEF Stored
<1>10. Chain(sn2) /\ Last(sn2, lc2, ow2, now2)
  BY <1>1, <1>5, <1>8, UpdateChain, SMTT(30)
<1>11. Found(sn2, ow2, pw2)
  BY <1>1, <1>5, <1>6, <1>8, UpdateFound
<1>12. Covered(sn2, pw2, eo2) /\ Steps(sn2, pw2)
  <2>1. /\ ht \in 1 .. at /\ DOMAIN sn \subseteq 1 .. ht
        /\ History(ht, e, now, pw, eo) /\ Covered(sn, pw, eo) /\ Steps(sn, pw)
    BY <1>1, <1>2, <1>8, Zenon
  <2>2. /\ DOMAIN sn2 \subseteq DOMAIN sn \cup {at} /\ DOMAIN sn \subseteq DOMAIN sn2
        /\ at \notin DOMAIN sn2 => now2 = now /\ now2 = NoPower
    BY <1>5, Zenon DEF Update
  <2> QED BY <1>6, <2>1, <2>2, UpdateSteps, Zenon
<1>13. OptOuts(sn2, at, e2, op)
  <2>1. /\ ht \in Nat \ {0} /\ e \in Nat \ {0} /\ DOMAIN sn \subseteq 1 .. ht /\ OptOuts(sn, ht, e, op)
        /\ ht <= at /\ e <= e2 /\ at # ht
    BY <1>1, <1>2, <1>8, Zenon
  <2> QED BY <1>5, <2>1, UpdateOptOuts
<1>14. SnapInv(sn2, lc2, ow2, now2, at, e2, pw2, eo2, op)
  BY <1>7, <1>9, <1>10, <1>11, <1>12, <1>13, Zenon DEF SnapInv
<1> QED BY <1>3, <1>4, <1>14

\* A block of the same epoch has the powers of the block before it.
LEMMA BlockUpdate ==
  ASSUME NEW sn, NEW lc, NEW ow, NEW now, NEW ht, NEW e, NEW pw, NEW pw2, NEW eo, NEW eo2, NEW op,
         SnapInv(sn, lc, ow, now, ht, e, pw, eo, op), Blocks(ht, e, now, pw, eo, pw2, eo2)
  PROVE  SnapInv(sn, lc, ow, now, ht + 1, e, pw2, eo2, op)
<1>1. /\ History(ht, e, now, pw, eo) /\ Stored(sn, ht, e, eo) /\ Chain(sn) /\ Last(sn, lc, ow, now)
      /\ Found(sn, ow, pw) /\ Covered(sn, pw, eo) /\ Steps(sn, pw) /\ OptOuts(sn, ht, e, op)
  BY Zenon DEF SnapInv
<1>2. /\ ht \in Nat \ {0} /\ e \in Nat \ {0} /\ DOMAIN sn \subseteq 1 .. ht
      /\ ht \in DOMAIN pw /\ DOMAIN pw = DOMAIN eo /\ DOMAIN eo \subseteq 1 .. ht
      /\ eo[ht] = e /\ pw[ht] = now
  BY <1>1, Zenon DEF History, Stored
<1>3. History(ht + 1, e, now, pw2, eo2)
  BY <1>1, BlocksHistory, Zenon
<1>4. /\ DOMAIN eo2 \subseteq 1 .. ht + 1 /\ ht + 1 \in DOMAIN eo2 /\ DOMAIN pw2 = DOMAIN eo2
      /\ eo2[ht + 1] = e /\ pw2[ht + 1] = now
      /\ \A h \in DOMAIN eo : h \in DOMAIN eo2 <=> eo[h] >= e - UnbondingDuration
      /\ \A h \in DOMAIN eo2 : h <= ht => h \in DOMAIN eo /\ eo2[h] = eo[h] /\ pw2[h] = pw[h]
  BY Zenon DEF Blocks
<1>5. \A h \in DOMAIN eo2 : h = ht + 1 \/ h <= ht
  <2>1. \A h \in 1 .. ht + 1 : h = ht + 1 \/ h <= ht
    BY <1>2
  <2> QED BY <1>4, <2>1, Zenon
<1>6. Stored(sn, ht + 1, e, eo2)
  <2>1. \A g \in DOMAIN sn : g <= ht /\ g \in 1 .. ht + 1
    BY <1>2
  <2> QED BY <1>1, <1>4, <2>1, Zenon DEF Stored
\* The block before, with the same powers and epoch.
<1>7. ASSUME NEW h \in DOMAIN eo2
      PROVE  \E k \in DOMAIN eo :
               /\ k <= h /\ k <= ht /\ pw[k] = pw2[h] /\ eo[k] = eo2[h]
               /\ \A g \in DOMAIN sn : g <= h => g <= k
  <2>1. CASE h <= ht
    <3>1. h \in DOMAIN eo /\ eo2[h] = eo[h] /\ pw2[h] = pw[h] /\ h <= h
      BY <1>2, <1>4, <2>1
    <3> QED BY <2>1, <3>1, Zenon
  <2>2. CASE h = ht + 1
    <3>1. ht \in DOMAIN eo /\ ht <= h /\ ht <= ht /\ pw[ht] = pw2[h] /\ eo[ht] = eo2[h]
      BY <1>2, <1>4, <2>2
    <3>2. \A g \in DOMAIN sn : g <= ht
      BY <1>2, SMTT(30)
    <3> QED BY <3>1, <3>2, Zenon
  <2> QED BY <1>5, <2>1, <2>2, Zenon
<1>8. Found(sn, ow, pw2)
  <2>1. SUFFICES ASSUME NEW h \in DOMAIN pw2, NEW g \in DOMAIN sn, KeyFor(sn, h, g),
                        sn[g].lastChanged \notin ow
                 PROVE  sn[sn[g].lastChanged].powers = pw2[h]
    BY Zenon DEF Found
  <2>2. PICK k \in DOMAIN eo : /\ k <= h /\ k <= ht /\ pw[k] = pw2[h] /\ eo[k] = eo2[h]
                               /\ \A x \in DOMAIN sn : x <= h => x <= k
    BY <1>4, <1>7, Zenon
  <2>3. k \in Int /\ h \in Int /\ \A x \in DOMAIN sn : x \in Int
    BY <1>2, <1>4
  <2>4. \A x \in DOMAIN sn : x <= k => x <= h
    BY <2>2, <2>3
  <2>5. KeyFor(sn, k, g)
    BY <2>1, <2>2, <2>4, Zenon DEF KeyFor
  <2> QED BY <1>1, <1>2, <2>1, <2>2, <2>5, Zenon DEF Found
<1>9. Covered(sn, pw2, eo2)
  <2>1. SUFFICES ASSUME NEW h \in DOMAIN pw2, pw2[h] # NoPower
                 PROVE  \E g \in DOMAIN sn : g \in DOMAIN eo2 /\ g <= h /\ eo2[g] = eo2[h]
    BY Zenon DEF Covered
  <2>2. PICK k \in DOMAIN eo : k <= h /\ k <= ht /\ pw[k] = pw2[h] /\ eo[k] = eo2[h]
    BY <1>4, <1>7, Zenon
  <2>3. PICK g \in DOMAIN sn : g \in DOMAIN eo /\ g <= k /\ eo[g] = eo[k]
    BY <1>1, <1>2, <2>1, <2>2, Zenon DEF Covered
  <2>4. k \in Int /\ h \in Int /\ g \in Int /\ g <= ht
    BY <1>2, <1>4
  <2>5. eo2[h] >= e - UnbondingDuration
    <3>1. CASE h <= ht
      BY <1>4, <3>1, Zenon
    <3>2. CASE h = ht + 1
      BY <1>2, <1>4, <3>2, VotingPowerAssumption
    <3> QED BY <1>4, <1>5, <3>1, <3>2, Zenon
  <2>6. g \in DOMAIN eo2
    BY <1>4, <2>2, <2>3, <2>5, Zenon
  <2>7. eo2[g] = eo[g]
    BY <1>4, <2>4, <2>6, Zenon
  <2> QED BY <2>2, <2>3, <2>4, <2>6, <2>7
<1>10. Steps(sn, pw2)
  <2>1. SUFFICES ASSUME NEW h \in DOMAIN pw2, NEW k \in DOMAIN pw2, k <= h, pw2[k] # pw2[h]
                 PROVE  \E g \in DOMAIN sn : k < g /\ g <= h
    BY Zenon DEF Steps
  <2>2. h \in Int /\ k \in Int /\ h <= ht + 1 /\ k # h
    BY <1>2, <1>4, <2>1
  <2>3. k <= ht /\ k \in DOMAIN pw /\ pw2[k] = pw[k]
    BY <1>2, <1>4, <2>1, <2>2, SMTT(30)
  <2>4. PICK j \in DOMAIN eo : j <= h /\ pw[j] = pw2[h] /\ (j = h \/ j = ht)
    <3>1. CASE h <= ht
      BY <1>4, <2>2, <3>1
    <3>2. CASE h = ht + 1
      BY <1>2, <1>4, <3>2
    <3> QED BY <1>4, <1>5, <3>1, <3>2, Zenon
  <2>5. k <= j
    BY <2>1, <2>3, <2>4, Zenon
  <2>6. PICK g \in DOMAIN sn : k < g /\ g <= j
    BY <1>1, <1>2, <2>1, <2>3, <2>4, <2>5, Zenon DEF Steps
  <2>7. g \in Int /\ j \in Int
    BY <1>2
  <2> QED BY <2>2, <2>4, <2>6, <2>7
<1>11. OptOuts(sn, ht + 1, e, op)
  <2>1. SUFFICES ASSUME NEW o \in Operators, op[o].status = "out"
        PROVE  /\ op[o].outHeight \in 1 .. ht + 1
               /\ op[o].outHeight = ht + 1 => op[o].outEpoch = e
    BY <1>1, ZenonT(60) DEF OptOuts
  <2>2. op[o].outHeight \in 1 .. ht
    BY <1>1, <2>1, Zenon DEF OptOuts
  <2> QED BY <1>2, <2>2, SMTT(30)
<1> QED BY <1>1, <1>3, <1>6, <1>8, <1>9, <1>10, <1>11 DEF SnapInv

\* Nothing is stored in the first block and nobody has power.
LEMMA VotingInit == Init => VotingInv
<1> SUFFICES ASSUME Init PROVE VotingInv
  BY Zenon
<1>1. /\ height = 1 /\ epoch = 1 /\ lastChanged = 0 /\ overwritten = {}
      /\ DOMAIN snapshot = {} /\ PowersIn(usd) = NoPower
      /\ DOMAIN power = {1} /\ DOMAIN epochOf = {1} /\ power[1] = NoPower /\ epochOf[1] = 1
  BY NoPowerInNone, Zenon DEF Init, NoHelper, NoPower
<1>2. DOMAIN opted = Operators /\ \A o \in Operators : opted[o].status # "out"
  BY DEF Init
<1>3. History(height, epoch, PowersIn(usd), power, epochOf)
  BY <1>1 DEF History
<1>4. Last(snapshot, lastChanged, overwritten, PowersIn(usd))
  BY <1>1, Zenon DEF Last, NoHelper
<1>5. /\ Stored(snapshot, height, epoch, epochOf) /\ Chain(snapshot)
      /\ Found(snapshot, overwritten, power)
  BY <1>1, Zenon DEF Stored, Chain, Found
<1>6. Covered(snapshot, power, epochOf) /\ Steps(snapshot, power)
  BY <1>1, Zenon DEF Covered, Steps
<1>7. OptOuts(snapshot, height, epoch, opted)
  BY <1>2 DEF OptOuts
<1> QED BY <1>2, <1>3, <1>4, <1>5, <1>6, <1>7, Zenon DEF VotingInv, SnapInv

\* A step that leaves powers and snapshots alone.
LEMMA QuietStep ==
  ASSUME VotingInv, PowersIn(usd') = PowersIn(usd),
         UNCHANGED <<height, epoch, snapshot, lastChanged, power, epochOf, overwritten>>,
         DOMAIN opted' = Operators, OptOuts(snapshot, height, epoch, opted')
  PROVE  VotingInv'
BY Zenon DEF VotingInv, SnapInv

\* An opt-in gives no power yet.
LEMMA OptInStep == ASSUME VotingInv, NEW o \in Operators, OptIn(o) PROVE VotingInv'
<1>1. /\ usd' = [q \in DOMAIN usd \cup {o} |->
           IF q \in DOMAIN usd THEN usd[q] ELSE [SelfUSDValue |-> 0, ActiveUSDValue |-> 0]]
      /\ opted' = [opted EXCEPT ![o] = [status |-> "in", outHeight |-> 0, outEpoch |-> 0, served |-> FALSE]]
      /\ UNCHANGED <<height, epoch, snapshot, lastChanged, power, epochOf, overwritten>>
  BY Zenon DEF OptIn
<1>2. /\ DOMAIN usd' = DOMAIN usd \cup {o}
      /\ \A q \in DOMAIN usd : usd'[q] = usd[q]
      /\ o \notin DOMAIN usd => usd'[o].ActiveUSDValue = 0
  BY <1>1, Zenon
<1>3. PowersIn(usd') = PowersIn(usd)
  <2>1. \A new : /\ DOMAIN new = DOMAIN usd \cup {o}
                 /\ \A q \in DOMAIN usd : new[q] = usd[q]
                 /\ o \notin DOMAIN usd => new[o].ActiveUSDValue = 0
                 => PowersIn(new) = PowersIn(usd)
    <3>1. SUFFICES ASSUME NEW new, DOMAIN new = DOMAIN usd \cup {o},
                          \A q \in DOMAIN usd : new[q] = usd[q],
                          o \notin DOMAIN usd => new[o].ActiveUSDValue = 0
                   PROVE  PowersIn(new) = PowersIn(usd)
      BY Zenon
    <3>2. {q \in DOMAIN new : new[q].ActiveUSDValue > 0} = {q \in DOMAIN usd : usd[q].ActiveUSDValue > 0}
      BY <3>1
    <3> QED BY <3>1, <3>2, Zenon DEF PowersIn
  <2> QED BY <1>2, <2>1, Zenon
<1>4. DOMAIN opted' = Operators /\ \A q \in Operators : opted'[q].status = "out" => opted'[q] = opted[q]
  <2>1. DOMAIN opted = Operators
    BY Zenon DEF VotingInv
  <2>2. DOMAIN opted' = Operators /\ opted'[o].status = "in" /\ \A q \in Operators : q # o => opted'[q] = opted[q]
    BY <1>1, <2>1, Zenon
  <2> QED BY <2>2
<1>5. OptOuts(snapshot, height, epoch, opted')
  <2>1. OptOuts(snapshot, height, epoch, opted)
    BY DEF VotingInv, SnapInv
  <2> QED BY <1>4, <2>1 DEF OptOuts
<1> QED BY <1>1, <1>3, <1>4, <1>5, QuietStep, Zenon

\* An operator with power opts out: the snapshot found for the block is one of
\* the epoch.
LEMMA OptOutStep == ASSUME VotingInv, NEW o \in Operators, OptOut(o) PROVE VotingInv'
<1> DEFINE new == [status |-> "out", outHeight |-> height, outEpoch |-> epoch,
                   served |-> o \in DOMAIN PowersIn(usd)]
<1>1. /\ opted' = [opted EXCEPT ![o] = new]
      /\ UNCHANGED <<height, epoch, usd, snapshot, lastChanged, power, epochOf, overwritten>>
  BY Zenon DEF OptOut
<1>2. /\ DOMAIN opted = Operators /\ History(height, epoch, PowersIn(usd), power, epochOf)
      /\ Stored(snapshot, height, epoch, epochOf) /\ Covered(snapshot, power, epochOf)
      /\ OptOuts(snapshot, height, epoch, opted)
  BY DEF VotingInv, SnapInv
<1>3. /\ height \in Nat \ {0} /\ epoch \in Nat \ {0} /\ height \in DOMAIN power
      /\ DOMAIN power = DOMAIN epochOf /\ power[height] = PowersIn(usd) /\ epochOf[height] = epoch
  BY <1>2, Zenon DEF History
<1>4. DOMAIN opted' = Operators /\ opted'[o] = new /\ \A q \in Operators : q # o => opted'[q] = opted[q]
  BY <1>1, <1>2, Zenon
<1>5. \A g \in DOMAIN snapshot : g \in 1 .. height /\ snapshot[g].epoch \in 1 .. epoch
  BY <1>2 DEF Stored
<1>6. ASSUME o \in DOMAIN PowersIn(usd)
      PROVE  \E g \in DOMAIN snapshot : KeyFor(snapshot, height, g) /\ snapshot[g].epoch = epoch
  <2>1. power[height] # NoPower
    <3>1. DOMAIN NoPower = {}
      BY DEF NoPower
    <3> QED BY <1>3, <1>6, <3>1
  <2>2. PICK k \in DOMAIN snapshot : k \in DOMAIN epochOf /\ k <= height /\ epochOf[k] = epoch
    BY <1>2, <1>3, <2>1 DEF Covered
  <2>3. DOMAIN snapshot \in SUBSET (1 .. height) /\ DOMAIN snapshot # {}
    BY <1>5
  <2>4. PICK g \in DOMAIN snapshot : \A x \in DOMAIN snapshot : x <= g
    BY <1>3, <2>3, MaxMin, Zenon
  <2>5. KeyFor(snapshot, height, g)
    BY <1>5, <2>4 DEF KeyFor
  <2>6. g \in k .. height
    BY <1>3, <1>5, <2>2, <2>4
  <2>7. g \in DOMAIN epochOf /\ epochOf[k] <= epochOf[g]
    BY <1>2, <2>2, <2>6, Zenon DEF History
  <2>8. snapshot[g].epoch = epochOf[g]
    BY <1>2, <2>7, Zenon DEF Stored
  <2>9. snapshot[g].epoch = epoch
    BY <1>3, <1>5, <2>2, <2>7, <2>8
  <2> QED BY <2>5, <2>9
<1>7. /\ new.status = "out" /\ new.outHeight = height /\ new.outEpoch = epoch
      /\ new.served => o \in DOMAIN PowersIn(usd)
  BY Zenon
<1> HIDE DEF new
<1>8. ASSUME NEW q \in Operators, opted'[q].status = "out"
      PROVE  /\ opted'[q].outHeight \in 1 .. height /\ opted'[q].outEpoch \in 1 .. epoch
             /\ opted'[q].outHeight = height => opted'[q].outEpoch = epoch
             /\ opted'[q].served =>
                  /\ opted'[q].outEpoch + UnbondingDuration >= epoch =>
                       \E g \in DOMAIN snapshot :
                         KeyFor(snapshot, opted'[q].outHeight, g) /\ snapshot[g].epoch = opted'[q].outEpoch
                  /\ \A g \in DOMAIN snapshot :
                       g <= opted'[q].outHeight => snapshot[g].epoch <= opted'[q].outEpoch
  <2>1. CASE q = o
    <3>1. opted'[q] = new
      BY <1>4, <2>1
    <3>2. height \in 1 .. height /\ epoch \in 1 .. epoch
      BY <1>3
    <3>3. \A g \in DOMAIN snapshot : snapshot[g].epoch <= epoch
      BY <1>3, <1>5, SMTT(30)
    <3> QED BY <1>6, <1>7, <3>1, <3>2, <3>3, Zenon
  <2>2. CASE q # o
    <3>1. opted'[q] = opted[q]
      BY <1>4, <2>2, Zenon
    <3> QED BY <1>2, <1>8, <3>1, Zenon DEF OptOuts
  <2> QED BY <2>1, <2>2, Zenon
<1>9. OptOuts(snapshot, height, epoch, opted')
  BY <1>8, Zenon DEF OptOuts
<1> QED BY <1>1, <1>4, <1>9, QuietStep

\* Stakes and freezes count at the next slash or epoch only.
LEMMA OtherSteps ==
  ASSUME VotingInv,
         UNCHANGED <<height, epoch, opted, usd, snapshot, lastChanged, power, epochOf, overwritten>>
  PROVE  VotingInv'
BY DEF VotingInv, SnapInv

\* A slash updates the powers unless the operator no longer serves the AVS.
LEMMA SlashStep == ASSUME VotingInv, NEW o \in Operators, NEW v, SlashTo(o, v) PROVE VotingInv'
<1>1. PICK st : st = [stake EXCEPT ![o] = v]
  BY Zenon
<1>2. UNCHANGED <<height, epoch, opted, epochOf>>
  BY DEF SlashTo
<1>3. CASE IsOptedOutAndEffective(o)
  <2>1. UNCHANGED <<usd, snapshot, lastChanged, power, overwritten>>
    BY <1>3 DEF SlashTo
  <2> QED BY <1>2, <2>1, OtherSteps
<1>4. CASE ~IsOptedOutAndEffective(o)
  <2>1. /\ UpdateVotingPower(st, height)
        /\ snapshot' = SnapshotsAfterUpdate(st, height, epoch)
        /\ power' = [power EXCEPT ![height] = PowersIn(UpdatedUSDValues(st))]
    BY <1>1, <1>4 DEF SlashTo
  <2>2. PICK sn2 : sn2 = SnapshotsAfterUpdate(st, height, epoch)
    OBVIOUS
  <2>3. PICK chg \in BOOLEAN, set \in BOOLEAN :
          Update(snapshot, sn2, lastChanged, lastChanged', overwritten, overwritten',
                 PowersIn(usd), PowersIn(usd'), height, epoch, chg, set)
    BY <2>1, <2>2, UpdateEffect, Zenon
  <2>4. Update(snapshot, snapshot', lastChanged, lastChanged', overwritten, overwritten',
               PowersIn(usd), PowersIn(usd'), height, epoch, chg, set)
    BY <2>1, <2>2, <2>3, Zenon
  <2>5. SnapInv(snapshot, lastChanged, overwritten, PowersIn(usd), height, epoch, power, epochOf, opted)
    BY Zenon DEF VotingInv
  <2>6. Extended(height, PowersIn(usd'), power, epochOf, power', epochOf)
    <3>1. History(height, epoch, PowersIn(usd), power, epochOf)
      BY <2>5 DEF SnapInv
    <3>2. DOMAIN power = DOMAIN epochOf /\ DOMAIN power \subseteq 1 .. height /\ height \in DOMAIN power
      BY <3>1 DEF History
    <3>3. /\ DOMAIN power' = DOMAIN power /\ power'[height] = PowersIn(usd')
          /\ \A h \in DOMAIN power : h # height => power'[h] = power[h]
      BY <2>1, <3>2, Zenon DEF UpdateVotingPower
    <3> QED BY <3>2, <3>3 DEF Extended
  <2>7. SnapInv(snapshot', lastChanged', overwritten', PowersIn(usd'), height, epoch, power', epochOf, opted)
    BY <2>4, <2>5, <2>6, SlashUpdate
  <2> QED BY <1>2, <2>7 DEF VotingInv
<1> QED BY <1>3, <1>4

\* A block without the end of an epoch.
LEMMA BlockStep == ASSUME VotingInv, NextBlock PROVE VotingInv'
<1>1. SnapInv(snapshot, lastChanged, overwritten, PowersIn(usd), height, epoch, power, epochOf, opted)
  BY DEF VotingInv
<1>2. History(height, epoch, PowersIn(usd), power, epochOf)
  BY <1>1 DEF SnapInv
<1>3. StartBlock(epoch, PowersIn(usd))
  BY DEF NextBlock
<1>4. Blocks(height, epoch, PowersIn(usd), power, epochOf, power', epochOf') /\ height' = height + 1
  BY <1>2, <1>3, BlocksEffect
<1>5. SnapInv(snapshot, lastChanged, overwritten, PowersIn(usd), height + 1, epoch, power', epochOf', opted)
  BY <1>1, <1>4, BlockUpdate
<1>6. UNCHANGED <<epoch, opted, usd, snapshot, lastChanged, overwritten>>
  BY DEF NextBlock
<1> QED BY <1>4, <1>5, <1>6 DEF VotingInv

\* The end of an epoch: the snapshot is stored, then old ones are removed.
LEMMA EpochStep == ASSUME VotingInv, AfterEpochEnd PROVE VotingInv'
<1>1. SnapInv(snapshot, lastChanged, overwritten, PowersIn(usd), height, epoch, power, epochOf, opted)
  BY DEF VotingInv
<1>2. History(height, epoch, PowersIn(usd), power, epochOf)
  BY <1>1 DEF SnapInv
<1>3. PICK sn : sn = SnapshotsAfterUpdate(stake, height + 1, epoch + 1)
  OBVIOUS
<1>4. /\ StartBlock(epoch + 1, PowersIn(UpdatedUSDValues(stake)))
      /\ UpdateVotingPower(stake, height + 1)
      /\ snapshot' = ClearVotingPowerSnapshot(sn)
      /\ epoch' = epoch + 1 /\ opted' = opted
  BY <1>3 DEF AfterEpochEnd
<1>5. usd' = UpdatedUSDValues(stake)
  BY <1>4 DEF UpdateVotingPower
<1>6. Blocks(height, epoch + 1, PowersIn(usd'), power, epochOf, power', epochOf') /\ height' = height + 1
  BY <1>2, <1>4, <1>5, BlocksEffect
<1>7. PICK chg \in BOOLEAN, set \in BOOLEAN :
        Update(snapshot, sn, lastChanged, lastChanged', overwritten, overwritten',
               PowersIn(usd), PowersIn(usd'), height + 1, epoch + 1, chg, set)
  BY <1>3, <1>4, UpdateEffect, Zenon
<1>8. SnapInv(sn, lastChanged', overwritten', PowersIn(usd'), height + 1, epoch + 1, power', epochOf', opted)
  BY <1>1, <1>6, <1>7, EpochUpdate, ZenonT(60)
<1>9. SnapInv(snapshot', lastChanged', overwritten', PowersIn(usd'), height', epoch', power', epochOf', opted)
  <2>1. epoch \in Nat /\ height \in Nat /\ UnbondingDuration \in Nat
    BY <1>2, VotingPowerAssumption DEF History
  <2>2. CASE epoch - UnbondingDuration < 0
    <3>1. snapshot' = sn
      BY <1>4, <2>2 DEF ClearVotingPowerSnapshot
    <3> QED BY <1>4, <1>6, <1>8, <3>1
  <2>3. CASE ~(epoch - UnbondingDuration < 0)
    <3>1. PICK n \in Int : n = epoch - UnbondingDuration
      BY <2>1
    <3>2. snapshot' = RemoveVotingPowerSnapshot(sn, n)
      BY <1>4, <2>3, <3>1 DEF ClearVotingPowerSnapshot
    <3>3. Stored(sn, height + 1, epoch + 1, epochOf') /\ Chain(sn)
      BY <1>8, Zenon DEF SnapInv
    <3>4. /\ DOMAIN sn \subseteq 1 .. height + 1 /\ height + 1 \in Nat
          /\ \A g \in DOMAIN sn : sn[g].epoch \in Int
      BY <2>1, <3>3 DEF Stored
    <3>5. Removed(sn, snapshot', n)
      BY <3>2, <3>3, <3>4, RemoveEffect
    <3>6. n < (epoch + 1) - UnbondingDuration
      BY <2>1, <3>1
    <3>7. \A h \in DOMAIN epochOf' : epochOf'[h] > n
      <4>1. SUFFICES ASSUME NEW h \in DOMAIN epochOf' PROVE epochOf'[h] > n
        OBVIOUS
      <4>2. CASE h <= height
        <5>1. h \in DOMAIN epochOf /\ epochOf'[h] = epochOf[h] /\ epochOf[h] >= (epoch + 1) - UnbondingDuration
          BY <1>6, <4>2 DEF Blocks
        <5>2. epochOf[h] \in Int
          BY <1>2, <5>1 DEF History
        <5> QED BY <2>1, <3>1, <5>1, <5>2
      <4>3. CASE ~(h <= height)
        <5>1. h = height + 1 /\ epochOf'[height + 1] = epoch + 1
          BY <1>6, <2>1, <4>3 DEF Blocks
        <5> QED BY <2>1, <3>1, <5>1
      <4> QED BY <4>2, <4>3
    <3>8. SnapInv(snapshot', lastChanged', overwritten', PowersIn(usd'), height + 1, epoch + 1,
                  power', epochOf', opted)
      BY <1>8, <3>5, <3>6, <3>7, RemoveKeeps
    <3> QED BY <1>4, <1>6, <3>8
  <2> QED BY <2>2, <2>3
<1> QED BY <1>4, <1>9 DEF VotingInv

\* Every step keeps the invariant.
LEMMA VotingNext == VotingInv /\ [Next]_vars => VotingInv'
<1> SUFFICES ASSUME VotingInv, [Next]_vars PROVE VotingInv'
  OBVIOUS
<1>1. ASSUME NEW o \in Operators, OptIn(o) PROVE VotingInv'
  BY <1>1, OptInStep
<1>2. ASSUME NEW o \in Operators, OptOut(o) PROVE VotingInv'
  BY <1>2, OptOutStep
<1>3. ASSUME NEW o \in Operators, FreezeOperator(o) \/ UnfreezeOperator(o) PROVE VotingInv'
  BY <1>3, OtherSteps DEF FreezeOperator, UnfreezeOperator
<1>4. ASSUME NEW o \in Operators, NEW v, ChangeStake(o, v) PROVE VotingInv'
  BY <1>4, OtherSteps DEF ChangeStake
<1>5. ASSUME NEW o \in Operators, NEW v, SlashElsewhere(o, v) PROVE VotingInv'
  BY <1>5, SlashStep DEF SlashElsewhere
<1>6. ASSUME NEW o \in Operators, NEW v, NEW h, Slash(o, h, v) PROVE VotingInv'
  BY <1>6, SlashStep DEF Slash
<1>7. CASE UNCHANGED vars
  BY <1>7, OtherSteps DEF vars
<1> QED BY <1>1, <1>2, <1>3, <1>4, <1>5, <1>6, <1>7, BlockStep, EpochStep DEF Next

\* The invariant of the snapshots holds throughout.
LEMMA VotingInvariant == Spec => []VotingInv
BY VotingInit, VotingNext, PTL DEF Spec
-----------------------------------------------------------------------------
(***************************************************************************)
(* The properties.                                                         *)
(***************************************************************************)
\* GetSnapshotHeight finds the last key up to the height, if there is one.
LEMMA SnapshotHeight ==
  ASSUME VotingInv, NEW h \in Int
  PROVE  /\ \A g \in GetSnapshotHeight(h) : KeyFor(snapshot, h, g) /\ GetSnapshotHeight(h) = {g}
         /\ GetSnapshotHeight(h) = {} => \A g \in DOMAIN snapshot : ~(g <= h)
<1> DEFINE upTo == {g \in DOMAIN snapshot : g <= h}
<1>1. height \in Nat /\ DOMAIN snapshot \subseteq 1 .. height
  BY Zenon DEF VotingInv, SnapInv, History, Stored
<1>2. upTo \in SUBSET (1 .. height)
  BY <1>1
<1>3. upTo # {} => Max(upTo) \in upTo /\ \A x \in upTo : x <= Max(upTo)
  <2> HIDE DEF upTo
  <2> QED BY <1>1, <1>2, MaxMin, Zenon
<1>4. GetSnapshotHeight(h) = IF upTo = {} THEN {} ELSE {Max(upTo)}
  BY DEF GetSnapshotHeight
<1>5. ASSUME NEW g \in GetSnapshotHeight(h)
      PROVE  KeyFor(snapshot, h, g) /\ GetSnapshotHeight(h) = {g}
  <2>1. upTo # {} /\ g = Max(upTo) /\ GetSnapshotHeight(h) = {g}
    BY <1>4, <1>5
  <2> QED BY <1>3, <2>1 DEF KeyFor
<1>6. GetSnapshotHeight(h) = {} => \A g \in DOMAIN snapshot : ~(g <= h)
  BY <1>4, Zenon
<1> QED BY <1>5, <1>6, Zenon

\* The smallest element of a singleton.
LEMMA MinOfOne == ASSUME NEW x \in Nat \ {0} PROVE Min({x}) = x
BY MaxMin

\* The key found is the last one, and powers change at keys only.
LEMMA FilterFromInv == VotingInv => FilterHeightCoversInfraction
<1>1. SUFFICES ASSUME VotingInv, NEW h \in Slashable, NEW g \in GetSnapshotHeight(h)
               PROVE  g <= h /\ \A k \in (g .. h) \cap Slashable : power[k] = power[h]
  BY Zenon DEF FilterHeightCoversInfraction
<1>2. /\ height \in Nat /\ DOMAIN power = Slashable /\ Slashable \subseteq 1 .. height
      /\ DOMAIN snapshot \subseteq 1 .. height /\ Steps(snapshot, power)
  BY <1>1, Zenon DEF VotingInv, SnapInv, History, Stored, Slashable
<1>3. h \in Int
  BY <1>2
<1>4. KeyFor(snapshot, h, g)
  BY <1>1, <1>3, SnapshotHeight
<1>5. g \in DOMAIN snapshot /\ g <= h /\ \A x \in DOMAIN snapshot : x <= h => x <= g
  BY <1>4 DEF KeyFor
<1>6. ASSUME NEW k \in (g .. h) \cap Slashable, power[k] # power[h] PROVE FALSE
  <2>1. k <= h /\ g <= k /\ k \in Int /\ g \in Int
    BY <1>2, <1>3, <1>5
  <2>2. PICK x \in DOMAIN snapshot : k < x /\ x <= h
    BY <1>2, <1>6, <2>1 DEF Steps
  <2> QED BY <1>2, <1>5, <2>1, <2>2
<1> QED BY <1>5, <1>6

\* The key found leads to the powers; no key means no powers.
LEMMA GivesFromInv == VotingInv => SnapshotGivesPower
<1>1. SUFFICES ASSUME VotingInv, NEW h \in Slashable,
                      \A g \in GetSnapshotHeight(h) : snapshot[g].lastChanged \notin overwritten
               PROVE  PowersFor(h) = power[h]
  BY Zenon DEF SnapshotGivesPower
<1>2. /\ height \in Nat /\ DOMAIN power = Slashable /\ Slashable \subseteq 1 .. height
      /\ DOMAIN snapshot \subseteq 1 .. height /\ Chain(snapshot)
      /\ Found(snapshot, overwritten, power) /\ Covered(snapshot, power, epochOf)
  BY <1>1, Zenon DEF VotingInv, SnapInv, History, Stored, Slashable
<1>3. h \in Int
  BY <1>2
<1>4. CASE GetSnapshotHeight(h) = {}
  <2>1. LoadVotingPowerSnapshot(h) = {}
    BY <1>4 DEF LoadVotingPowerSnapshot
  <2>2. \A g \in DOMAIN snapshot : ~(g <= h)
    BY <1>1, <1>3, <1>4, SnapshotHeight
  <2>3. power[h] = NoPower
    BY <1>2, <2>2, Zenon DEF Covered
  <2> QED BY <2>1, <2>3, Zenon DEF PowersFor
<1>5. CASE GetSnapshotHeight(h) # {}
  <2>1. PICK g \in GetSnapshotHeight(h) : TRUE
    BY <1>5
  <2>2. KeyFor(snapshot, h, g) /\ GetSnapshotHeight(h) = {g}
    BY <1>1, <1>3, <2>1, SnapshotHeight
  <2>3. g \in DOMAIN snapshot
    BY <2>2 DEF KeyFor
  <2>4. PICK c : c = snapshot[g].lastChanged
    BY Zenon
  <2>5. c \in DOMAIN snapshot /\ c \in Nat \ {0}
    BY <1>2, <2>3, <2>4, SMTT(30) DEF Chain
  <2>6. LoadVotingPowerSnapshot(h) = {c}
    BY <2>2, <2>4, <2>5, Zenon DEF LoadVotingPowerSnapshot
  <2>7. PowersFor(h) = snapshot[c].powers
    BY <2>5, <2>6, MinOfOne, Zenon DEF PowersFor
  <2>8. snapshot[c].powers = power[h]
    BY <1>1, <1>2, <2>1, <2>2, <2>3, <2>4, Zenon DEF Found
  <2> QED BY <2>7, <2>8
<1> QED BY <1>4, <1>5

\* The epoch found is that of the opt-out, or too old.
LEMMA DelaysFromInv == VotingInv => OptOutDelaysUnbonding
<1>1. SUFFICES ASSUME VotingInv, NEW o \in Operators, opted[o].status = "out", opted[o].served
               PROVE  isUnbondingRelated(o) <=> opted[o].outEpoch + UnbondingDuration >= epoch
  BY Zenon DEF OptOutDelaysUnbonding
<1>2. /\ height \in Nat /\ epoch \in Nat /\ DOMAIN snapshot \subseteq 1 .. height
      /\ \A g \in DOMAIN snapshot : snapshot[g].epoch \in 1 .. epoch
      /\ OptOuts(snapshot, height, epoch, opted)
  BY <1>1, Zenon DEF VotingInv, SnapInv, History, Stored
<1>3. PICK oh \in 1 .. height : oh = opted[o].outHeight
  BY <1>1, <1>2, Zenon DEF OptOuts
<1>4. PICK oe \in 1 .. epoch : oe = opted[o].outEpoch
  BY <1>1, <1>2, Zenon DEF OptOuts
<1>5. /\ oe + UnbondingDuration >= epoch =>
           \E g \in DOMAIN snapshot : KeyFor(snapshot, oh, g) /\ snapshot[g].epoch = oe
      /\ \A g \in DOMAIN snapshot : g <= oh => snapshot[g].epoch <= oe
  BY <1>1, <1>2, <1>3, <1>4, Zenon DEF OptOuts
<1>6. PICK found : found = GetEpochNumberByOptOutHeight(oh)
  BY Zenon
<1>7. isUnbondingRelated(o) <=> found > 0 /\ found + UnbondingDuration >= epoch
  BY <1>1, <1>3, <1>6, Zenon DEF isUnbondingRelated, IsOptedIn
<1>8. \A g \in GetSnapshotHeight(oh) : KeyFor(snapshot, oh, g) /\ GetSnapshotHeight(oh) = {g}
  BY <1>1, SnapshotHeight
<1>9. GetSnapshotHeight(oh) = {} => \A g \in DOMAIN snapshot : ~(g <= oh)
  BY <1>1, SnapshotHeight
<1>10. CASE GetSnapshotHeight(oh) = {}
  <2>1. found = 0
    BY <1>6, <1>10 DEF GetEpochNumberByOptOutHeight, NullEpochNumber
  <2>2. ~(oe + UnbondingDuration >= epoch)
    BY <1>5, <1>9, <1>10, Zenon DEF KeyFor
  <2> QED BY <1>4, <1>7, <2>1, <2>2
<1>11. CASE GetSnapshotHeight(oh) # {}
  <2>1. PICK g \in GetSnapshotHeight(oh) : KeyFor(snapshot, oh, g) /\ GetSnapshotHeight(oh) = {g}
    BY <1>8, <1>11
  <2>2. g \in DOMAIN snapshot /\ g <= oh /\ \A x \in DOMAIN snapshot : x <= oh => x <= g
    BY <2>1 DEF KeyFor
  <2>3. g \in Nat \ {0}
    BY <1>2, <2>2
  <2>4. found = snapshot[g].epoch
    BY <1>6, <1>11, <2>1, <2>3, MinOfOne, Zenon DEF GetEpochNumberByOptOutHeight
  <2>5. found \in 1 .. epoch /\ found <= oe
    BY <1>2, <1>5, <2>2, <2>4, Zenon
  <2>6. oe + UnbondingDuration >= epoch => found = oe
    <3>1. SUFFICES ASSUME oe + UnbondingDuration >= epoch PROVE found = oe
      OBVIOUS
    <3>2. PICK x \in DOMAIN snapshot : KeyFor(snapshot, oh, x) /\ snapshot[x].epoch = oe
      BY <1>5, <3>1
    <3>3. x <= g /\ g <= x /\ x \in Nat
      BY <1>2, <2>2, <3>2 DEF KeyFor
    <3>4. x = g
      BY <2>3, <3>3
    <3> QED BY <2>4, <3>2, <3>4
  <2> QED BY <1>2, <1>4, <1>7, <2>5, <2>6, VotingPowerAssumption
<1> QED BY <1>10, <1>11

\* For every block that can still be slashed for, the snapshot found by
\* GetSnapshotHeight and the fallback of LoadVotingPowerSnapshot holds exactly
\* the powers at the end of that block, unless its height was overwritten:
\* no snapshot that is needed was removed.
THEOREM PowersFound == Spec => []SnapshotGivesPower
BY VotingInvariant, GivesFromInv, PTL

\* Between the height that filters the undelegations of a slash and the
\* infraction the powers did not change.
THEOREM FilterCovers == Spec => []FilterHeightCoversInfraction
BY VotingInvariant, FilterFromInv, PTL

\* isUnbondingRelated delays the undelegations of an operator that opted out
\* with power for exactly the unbonding duration, though it looks the epoch
\* of the opt-out up in snapshots that are removed.
THEOREM OptOutsDelay == Spec => []OptOutDelaysUnbonding
BY VotingInvariant, DelaysFromInv, PTL
=============================================================================
