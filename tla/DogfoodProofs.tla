---------------------------- MODULE DogfoodProofs ----------------------------
(***************************************************************************)
(* The invariants of the consensus keys, the validator set and the jail,   *)
(* for every set of operators and keys and every unbonding period.         *)
(*                                                                         *)
(* None of them is inductive by itself.  What they rest on is that a key   *)
(* is scheduled to be pruned at most once, and only while it is nobody's   *)
(* current key or its operator's opt-out ends in the same epoch.           *)
(***************************************************************************)
EXTENDS Dogfood, TLAPS

Slots == 1 .. MaxEpoch + EpochsUntilUnbonded
SigningInfo == [found : BOOLEAN, jailedUntil : Nat, tombstoned : BOOLEAN]

Types ==
  /\ epoch \in 1 .. MaxEpoch
  /\ opted \in [Operators -> {"never", "in", "out"}]
  /\ jailed \subseteq Operators /\ frozen \subseteq Operators /\ removing \subseteq Operators
  /\ key \in [Operators -> Keys \cup {None}]
  /\ prevKey \in [Operators -> Keys \cup {None}]
  /\ operatorOf \in [Keys -> Operators \cup {None}]
  /\ power \in [Operators -> 0 .. MaxPower]
  /\ validators \in [Keys -> Nat]
  /\ optOuts \in [Slots -> SUBSET Operators]
  /\ prunes \in [Slots -> SUBSET Keys]
  /\ pendingOptOuts \subseteq Operators /\ pendingPrunes \subseteq Keys
  /\ updateFlag \in BOOLEAN
  /\ pubkeys \subseteq Keys
  /\ info \in [Keys -> SigningInfo]
  /\ transactions \in Nat
  /\ lastIn \in [Keys -> [epoch : Nat, operator : Operators \cup {None}]]
  /\ unhooked \subseteq Operators
  /\ sentence \in [Operators -> Nat]
  /\ outEpoch \in [Operators -> Nat]

\* Who has a key: whoever is opted in, and whoever is being removed.
Keyed ==
  \A o \in Operators :
    /\ opted[o] = "in" => key[o] # None /\ o \notin removing
    /\ o \in removing => opted[o] = "out" /\ key[o] # None
    /\ key[o] # None => opted[o] # "never"

\* The two schedules: an opt-out and the pruning of the key it ends with are
\* in the same slot, a key is in one slot at most and has an operator as long
\* as it is in one, and nobody but the operators that opt out uses such a key.
Scheduled ==
  /\ \A e \in Slots : \A o \in optOuts[e] : o \in removing /\ key[o] \in prunes[e]
  /\ \A o \in pendingOptOuts : o \in removing /\ key[o] \in pendingPrunes
  /\ \A e \in Slots : \A k \in prunes[e] :
       /\ operatorOf[k] # None /\ k \notin pendingPrunes
       /\ \A f \in Slots : k \in prunes[f] => f = e
  /\ \A k \in pendingPrunes : operatorOf[k] # None
  /\ \A o \in Operators, e \in Slots : key[o] \in prunes[e] => o \in optOuts[e]
  /\ \A o \in Operators : key[o] \in pendingPrunes => o \in pendingOptOuts
  /\ ~updateFlag \/ late => pendingOptOuts = {} /\ pendingPrunes = {}

\* Nothing matures before evidence is too old.
Timely ==
  /\ \A k \in Keys : /\ lastIn[k].epoch <= epoch
                     /\ lastIn[k] # NeverIn => lastIn[k].operator \in Operators
  /\ \A e \in Slots : \A k \in prunes[e] : lastIn[k].epoch + EpochsUntilUnbonded <= e
  /\ \A k \in pendingPrunes : lastIn[k].epoch + EpochsUntilUnbonded < epoch
  /\ \A e \in Slots, k \in Keys :
       lastIn[k].operator \in optOuts[e] => lastIn[k].epoch + EpochsUntilUnbonded <= e
  /\ \A k \in Keys : lastIn[k].operator \in pendingOptOuts => lastIn[k].epoch + EpochsUntilUnbonded < epoch

\* The validators' keys can be looked up.
ValidatorsKnown == \A k \in Keys : validators[k] > 0 => operatorOf[k] # None

\* No opt-out is later than now.
OptOutsPast == \A o \in Operators : outEpoch[o] <= epoch

\* The signing info of a jailed operator's key holds at least its sentence,
\* unless x/oracle wrote the sentence down under a key it had replaced.
SentenceRecorded ==
  \A o \in jailed \ (unhooked \cup misfiled) :
    key[o] # None => info[key[o]].found /\ info[key[o]].jailedUntil >= sentence[o]

\* A tombstone on any key that leads to an operator is the operator's own.
TombstonesOwned ==
  \A k \in Keys :
    info[k].tombstoned /\ operatorOf[k] \in Operators \ unhooked =>
      sentence[operatorOf[k]] = Forever /\ operatorOf[k] \notin misfiled

KeyInv == Types /\ Keyed /\ KeysHaveOneOperator /\ Scheduled
ReachInv == Timely /\ InfractionsReachOperator
PowerInv == ValidatorsKnown /\ OptOutsPast /\ OptOutTakesEffect /\ PunishedHoldNoPower
JailInv == JailTermServed /\ SentenceRecorded /\ TombstonesOwned
-----------------------------------------------------------------------------
(* The inductive invariant of the keys and their schedules.                *)

\* What the provers need of the constants.
LEMMA Constants ==
  /\ EpochsUntilUnbonded \in Nat /\ EpochsUntilUnbonded > 0
  /\ JailDuration \in Nat /\ MissJailDuration \in Nat /\ MaliciousJailDuration \in Nat
  /\ MaxEpoch \in Nat /\ MaxEpoch > 0 /\ MaxPower \in Nat /\ MaxPower > 0
  /\ None \notin Operators /\ None \notin Keys /\ Genesis \subseteq Operators
  /\ Forever \in Nat /\ Forever > MaxEpoch
BY DogfoodAssumption DEF Forever

\* An epoch and what it schedules for are in the tables.
LEMMA SlotsCover ==
  ASSUME Types
  PROVE  /\ epoch \in Slots /\ epoch + 1 \in Slots /\ GetUnbondingCompletionEpoch \in Slots
         /\ epoch \in Nat /\ GetUnbondingCompletionEpoch = epoch + EpochsUntilUnbonded
<1>1. epoch \in 1 .. MaxEpoch
  BY DEF Types
<1> QED
  BY <1>1, Constants DEF Slots, GetUnbondingCompletionEpoch

\* An injection can be inverted.
LEMMA InverseOf ==
  ASSUME NEW f \in Injection(Genesis, Keys), NEW k \in Range(f)
  PROVE  AntiFunction(f)[k] \in Genesis /\ f[AntiFunction(f)[k]] = k
<1>1. f \in [Genesis -> Keys]
  BY DEF Injection
<1>2. PICK o \in Genesis : f[o] = k
  BY <1>1 DEF Range
<1>3. AntiFunction(f)[k] = CHOOSE s \in Genesis : k \in Range(f) => f[s] = k
  BY <1>1 DEF AntiFunction, Inverse
<1> QED
  BY <1>2, <1>3

\* The genesis keys are their operators' own, and nothing is scheduled.
LEMMA InitKeys == Init => KeyInv
<1> SUFFICES ASSUME Init PROVE KeyInv
  OBVIOUS
<1>1. PICK f \in Injection(Genesis, Keys) :
       /\ key = [o \in Operators |-> IF o \in Genesis THEN f[o] ELSE None]
       /\ operatorOf = [k \in Keys |-> IF k \in Range(f) THEN AntiFunction(f)[k] ELSE None]
       /\ validators = [k \in Keys |-> IF k \in Range(f) THEN 1 ELSE 0]
       /\ pubkeys = Range(f)
       /\ info = [k \in Keys |-> IF k \in Range(f) THEN Clean ELSE NoInfo]
       /\ lastIn = [k \in Keys |->
                     IF k \in Range(f) THEN [epoch |-> 1, operator |-> AntiFunction(f)[k]] ELSE NeverIn]
  BY DEF Init
<1>2. f \in [Genesis -> Keys] /\ IsInjective(f)
  BY DEF Injection
<1>3. Range(f) \subseteq Keys /\ \A o \in Genesis : f[o] \in Range(f)
  BY <1>2 DEF Range
<1>4. \A k \in Range(f) : AntiFunction(f)[k] \in Genesis /\ f[AntiFunction(f)[k]] = k
  BY InverseOf
<1>5. Types
  <2>1. NoInfo \in SigningInfo /\ Clean \in SigningInfo
    BY Zenon DEF NoInfo, Clean, SigningInfo
  <2>2. NeverIn \in [epoch : Nat, operator : Operators \cup {None}]
    BY DEF NeverIn
  <2>3. info \in [Keys -> SigningInfo]
    BY <1>1, <2>1
  <2>4. lastIn \in [Keys -> [epoch : Nat, operator : Operators \cup {None}]]
    BY <1>1, <1>4, <2>2, Constants
  <2>5. key \in [Operators -> Keys \cup {None}] /\ operatorOf \in [Keys -> Operators \cup {None}]
    BY <1>1, <1>2, <1>4, Constants
  <2>6. validators \in [Keys -> Nat] /\ pubkeys \subseteq Keys
    BY <1>1, <1>3
  <2>7. power \in [Operators -> 0 .. MaxPower]
    BY Constants DEF Init
  <2>8. opted \in [Operators -> {"never", "in", "out"}] /\ prevKey \in [Operators -> Keys \cup {None}]
    BY DEF Init
  <2>9. optOuts \in [Slots -> SUBSET Operators] /\ prunes \in [Slots -> SUBSET Keys]
    BY DEF Init, Slots
  <2>10. sentence \in [Operators -> Nat] /\ outEpoch \in [Operators -> Nat]
    BY DEF Init
  <2>11. /\ jailed = {} /\ frozen = {} /\ removing = {} /\ unhooked = {} /\ updateFlag \in BOOLEAN
         /\ pendingOptOuts = {} /\ pendingPrunes = {}
    BY Zenon DEF Init
  <2>12. epoch \in 1 .. MaxEpoch /\ transactions \in Nat
    BY Constants DEF Init
  <2> QED
    BY <2>3, <2>4, <2>5, <2>6, <2>7, <2>8, <2>9, <2>10, <2>11, <2>12 DEF Types
<1>6. KeysHaveOneOperator
  <2> SUFFICES ASSUME NEW o \in Operators, key[o] # None PROVE operatorOf[key[o]] = o
    BY DEF KeysHaveOneOperator
  <2>1. o \in Genesis /\ key[o] = f[o]
    BY <1>1
  <2>2. operatorOf[key[o]] = AntiFunction(f)[f[o]]
    BY <1>1, <1>3, <2>1
  <2> QED
    BY <1>2, <1>3, <1>4, <2>1, <2>2 DEF IsInjective
<1>7. Keyed
  <2>1. \A o \in Genesis : key[o] \in Keys
    BY <1>1, <1>2, Constants
  <2>2. \A o \in Operators \ Genesis : key[o] = None
    BY <1>1
  <2> QED
    BY <2>1, <2>2, Constants, ZenonT(60) DEF Init, Keyed
<1>8. Scheduled
  BY DEF Init, Scheduled, Slots
<1> QED
  BY <1>5, <1>6, <1>7, <1>8 DEF KeyInv

\* What setting a key changes: the operator had no removal under way, the key
\* was nobody's, and at most the key it replaces becomes scheduled.
LEMMA SetKeyFacts ==
  ASSUME Types, NEW o \in Operators, NEW k \in Keys, SetOperatorConsKey(o, k)
  PROVE  /\ o \notin removing /\ o \notin frozen /\ operatorOf[k] = None
         /\ key' \in [Operators -> Keys \cup {None}] /\ key'[o] = k
         /\ \A p \in Operators \ {o} : key'[p] = key[p]
         /\ operatorOf' \in [Keys -> Operators \cup {None}] /\ operatorOf'[k] = o
         /\ \A x \in Keys \ {k} : operatorOf'[x] = operatorOf[x]
         /\ prevKey' \in [Operators -> Keys \cup {None}]
         /\ prunes' \in [Slots -> SUBSET Keys]
         /\ \A e \in Slots : prunes[e] \subseteq prunes'[e]
         /\ \A e \in Slots : \A x \in prunes'[e] :
              x \in prunes[e] \/ (x = key[o] /\ e = epoch + EpochsUntilUnbonded)
         /\ pubkeys' \subseteq Keys /\ unhooked' \subseteq Operators
<1> DEFINE found == key[o] # None
           recorded == found /\ prevKey[o] # None
<1>1. /\ key \in [Operators -> Keys \cup {None}] /\ operatorOf \in [Keys -> Operators \cup {None}]
      /\ prevKey \in [Operators -> Keys \cup {None}] /\ prunes \in [Slots -> SUBSET Keys]
      /\ pubkeys \subseteq Keys /\ unhooked \subseteq Operators
  BY DEF Types
<1>2. /\ o \notin removing /\ o \notin frozen /\ operatorOf[k] = None
      /\ key' = [key EXCEPT ![o] = k] /\ operatorOf' = [operatorOf EXCEPT ![k] = o]
      /\ prevKey' = IF found /\ ~recorded THEN [prevKey EXCEPT ![o] = key[o]] ELSE prevKey
      /\ pubkeys' = IF recorded THEN pubkeys ELSE pubkeys \cup {k}
      /\ unhooked' = IF recorded THEN unhooked \cup {o} ELSE unhooked
  BY Zenon DEF SetOperatorConsKey, KeyInUse, AfterValidatorCreated
<1>3. \/ prunes' = prunes
      \/ key[o] \in Keys /\ prunes' = [prunes EXCEPT ![GetUnbondingCompletionEpoch] = @ \cup {key[o]}]
  BY <1>1 DEF SetOperatorConsKey, AppendConsensusAddrToPrune
<1>4. GetUnbondingCompletionEpoch \in Slots /\ GetUnbondingCompletionEpoch = epoch + EpochsUntilUnbonded
  BY SlotsCover
<1>5. /\ prunes' \in [Slots -> SUBSET Keys]
      /\ \A e \in Slots : prunes[e] \subseteq prunes'[e]
      /\ \A e \in Slots : \A x \in prunes'[e] :
           x \in prunes[e] \/ (x = key[o] /\ e = epoch + EpochsUntilUnbonded)
  BY <1>1, <1>3, <1>4
<1>6. pubkeys' \subseteq Keys /\ unhooked' \subseteq Operators
  BY <1>1, <1>2
<1>7. prevKey' \in [Operators -> Keys \cup {None}]
  BY <1>1, <1>2
<1> HIDE DEF found, recorded
<1> QED
  BY <1>1, <1>2, <1>5, <1>6, <1>7

\* The schedules are sound after a key is set.
LEMMA SetKeySchedules ==
  ASSUME KeyInv, NEW o \in Operators, NEW k \in Keys, SetOperatorConsKey(o, k),
         late' = FALSE, UNCHANGED <<removing, optOuts, pendingOptOuts, pendingPrunes, updateFlag>>
  PROVE  KeysHaveOneOperator' /\ Scheduled'
<1> USE DEF KeyInv
<1>1. /\ o \notin removing /\ operatorOf[k] = None /\ key'[o] = k
      /\ \A p \in Operators \ {o} : key'[p] = key[p]
      /\ operatorOf'[k] = o
      /\ \A x \in Keys \ {k} : operatorOf'[x] = operatorOf[x]
      /\ \A e \in Slots : prunes[e] \subseteq prunes'[e]
      /\ \A e \in Slots : \A x \in prunes'[e] :
           x \in prunes[e] \/ (x = key[o] /\ e = epoch + EpochsUntilUnbonded)
  BY SetKeyFacts
<1>2. /\ key \in [Operators -> Keys \cup {None}] /\ operatorOf \in [Keys -> Operators \cup {None}]
      /\ optOuts \in [Slots -> SUBSET Operators] /\ prunes \in [Slots -> SUBSET Keys]
      /\ pendingOptOuts \subseteq Operators /\ pendingPrunes \subseteq Keys
      /\ prunes' \in [Slots -> SUBSET Keys]
  BY SetKeyFacts DEF Types
<1>3. \A e \in Slots : o \notin optOuts[e] /\ key[o] \notin prunes[e]
  BY <1>1 DEF Scheduled
<1>4. o \notin pendingOptOuts /\ key[o] \notin pendingPrunes
  BY <1>1 DEF Scheduled
<1>5. \A e \in Slots : k \notin prunes[e] /\ k \notin prunes'[e]
  BY <1>1, <1>2, Constants DEF Scheduled, KeysHaveOneOperator
<1>6. k \notin pendingPrunes
  BY <1>1 DEF Scheduled
<1>7. KeysHaveOneOperator'
  BY <1>1, <1>2, Constants DEF KeysHaveOneOperator
<1>8. \A e \in Slots : \A p \in optOuts'[e] : p \in removing' /\ key'[p] \in prunes'[e]
  BY <1>1, <1>2, <1>3 DEF Scheduled
<1>9. \A p \in pendingOptOuts' : p \in removing' /\ key'[p] \in pendingPrunes'
  BY <1>1, <1>2, <1>4 DEF Scheduled
<1>10. \A e \in Slots : \A x \in prunes'[e] :
         /\ operatorOf'[x] # None /\ x \notin pendingPrunes'
         /\ \A f \in Slots : x \in prunes'[f] => f = e
  <2> SUFFICES ASSUME NEW e \in Slots, NEW x \in prunes'[e]
               PROVE  /\ operatorOf'[x] # None /\ x \notin pendingPrunes'
                      /\ \A f \in Slots : x \in prunes'[f] => f = e
    OBVIOUS
  <2>1. x \in Keys \ {k} /\ operatorOf'[x] = operatorOf[x]
    BY <1>1, <1>2, <1>5
  <2>2. CASE x \in prunes[e]
    BY <1>1, <1>3, <2>1, <2>2 DEF Scheduled
  <2>3. CASE x = key[o] /\ e = epoch + EpochsUntilUnbonded
    <3>1. operatorOf[x] = o
      BY <1>2, <2>1, <2>3, Constants DEF KeysHaveOneOperator
    <3> QED
      BY <1>1, <1>3, <1>4, <2>1, <2>3, <3>1, Constants
  <2> QED
    BY <1>1, <2>2, <2>3
<1>11. \A x \in pendingPrunes' : operatorOf'[x] # None
  BY <1>1, <1>2, <1>6 DEF Scheduled
<1>12. \A p \in Operators, e \in Slots : key'[p] \in prunes'[e] => p \in optOuts'[e]
  <2> SUFFICES ASSUME NEW p \in Operators, NEW e \in Slots, key'[p] \in prunes'[e]
               PROVE  p \in optOuts[e]
    OBVIOUS
  <2>1. p # o /\ key'[p] = key[p] /\ key[p] \in Keys
    BY <1>1, <1>2, <1>5
  <2>2. key[p] # key[o]
    BY <2>1, Constants DEF KeysHaveOneOperator
  <2> QED
    BY <1>1, <2>1, <2>2 DEF Scheduled
<1>13. \A p \in Operators : key'[p] \in pendingPrunes' => p \in pendingOptOuts'
  BY <1>1, <1>6 DEF Scheduled
<1>14. ~updateFlag' \/ late' => pendingOptOuts' = {} /\ pendingPrunes' = {}
  BY Zenon DEF Scheduled
<1> QED
  BY <1>7, <1>8, <1>9, <1>10, <1>11, <1>12, <1>13, <1>14, Zenon DEF Scheduled

\* An opt-out schedules its own end and the pruning of the operator's key.
LEMMA OptOutSchedules ==
  ASSUME KeyInv, NEW o \in Operators, OptOut(o)
  PROVE  /\ KeysHaveOneOperator' /\ Scheduled' /\ Keyed'
         /\ optOuts' \in [Slots -> SUBSET Operators] /\ prunes' \in [Slots -> SUBSET Keys]
<1> USE DEF KeyInv
<1> DEFINE c == epoch + EpochsUntilUnbonded
<1>1. /\ key \in [Operators -> Keys \cup {None}] /\ operatorOf \in [Keys -> Operators \cup {None}]
      /\ optOuts \in [Slots -> SUBSET Operators] /\ prunes \in [Slots -> SUBSET Keys]
      /\ opted \in [Operators -> {"never", "in", "out"}] /\ removing \subseteq Operators
  BY DEF Types
<1>2. c \in Slots /\ GetUnbondingCompletionEpoch = c
  BY SlotsCover
<1> HIDE DEF c
<1>3. /\ opted[o] = "in" /\ opted' = [opted EXCEPT ![o] = "out"]
      /\ removing' = removing \cup {o}
      /\ optOuts' = [optOuts EXCEPT ![c] = @ \cup {o}]
      /\ prunes' = [prunes EXCEPT ![c] = @ \cup {key[o]}]
      /\ key' = key /\ operatorOf' = operatorOf
      /\ pendingOptOuts' = pendingOptOuts /\ pendingPrunes' = pendingPrunes /\ updateFlag' = updateFlag
      /\ late' = FALSE
  BY <1>2 DEF OptOut, AppendConsensusAddrToPrune, Transaction
<1>4. key[o] \in Keys /\ o \notin removing /\ operatorOf[key[o]] = o
  BY <1>1, <1>3 DEF Keyed, KeysHaveOneOperator
<1>5. /\ \A e \in Slots : o \notin optOuts[e] /\ key[o] \notin prunes[e]
      /\ o \notin pendingOptOuts /\ key[o] \notin pendingPrunes
  BY <1>4 DEF Scheduled
<1>6. /\ optOuts' \in [Slots -> SUBSET Operators] /\ prunes' \in [Slots -> SUBSET Keys]
      /\ optOuts'[c] = optOuts[c] \cup {o} /\ prunes'[c] = prunes[c] \cup {key[o]}
      /\ \A e \in Slots \ {c} : optOuts'[e] = optOuts[e] /\ prunes'[e] = prunes[e]
  BY <1>1, <1>2, <1>3, <1>4
<1>7. Keyed'
  BY <1>1, <1>3, <1>4 DEF Keyed
<1>8. KeysHaveOneOperator'
  BY <1>3 DEF KeysHaveOneOperator
<1>9. \A e \in Slots : \A p \in optOuts'[e] : p \in removing' /\ key'[p] \in prunes'[e]
  BY <1>2, <1>3, <1>6 DEF Scheduled
<1>10. \A p \in pendingOptOuts' : p \in removing' /\ key'[p] \in pendingPrunes'
  BY <1>3 DEF Scheduled
<1>11. \A e \in Slots : \A x \in prunes'[e] :
         /\ operatorOf'[x] # None /\ x \notin pendingPrunes'
         /\ \A f \in Slots : x \in prunes'[f] => f = e
  <2> SUFFICES ASSUME NEW e \in Slots, NEW x \in prunes'[e]
               PROVE  /\ operatorOf[x] # None /\ x \notin pendingPrunes
                      /\ \A f \in Slots : x \in prunes'[f] => f = e
    BY <1>3
  <2>1. CASE x = key[o]
    BY <1>2, <1>4, <1>5, <1>6, <2>1, Constants
  <2>2. CASE x # key[o]
    <3>1. \A f \in Slots : x \in prunes'[f] => x \in prunes[f]
      BY <1>6, <2>2
    <3> QED
      BY <3>1 DEF Scheduled
  <2> QED
    BY <2>1, <2>2
<1>12. \A x \in pendingPrunes' : operatorOf'[x] # None
  BY <1>3 DEF Scheduled
<1>13. \A p \in Operators, e \in Slots : key'[p] \in prunes'[e] => p \in optOuts'[e]
  <2> SUFFICES ASSUME NEW p \in Operators, NEW e \in Slots, key[p] \in prunes'[e]
               PROVE  p \in optOuts'[e]
    BY <1>3
  <2>1. CASE p = o
    BY <1>5, <1>6, <2>1
  <2>2. CASE p # o
    <3>1. key[p] # key[o]
      BY <1>4, <2>2, Constants, Zenon DEF KeysHaveOneOperator
    <3> QED
      BY <1>6, <3>1 DEF Scheduled
  <2> QED
    BY <2>1, <2>2
<1>14. \A p \in Operators : key'[p] \in pendingPrunes' => p \in pendingOptOuts'
  BY <1>3 DEF Scheduled
<1>15. ~updateFlag' \/ late' => pendingOptOuts' = {} /\ pendingPrunes' = {}
  BY <1>3, Zenon DEF Scheduled
<1> QED
  BY <1>6, <1>7, <1>8, <1>9, <1>10, <1>11, <1>12, <1>13, <1>14, <1>15, Zenon DEF Scheduled

\* What the end of an epoch matures leaves the tables for this block.
LEMMA AfterEpochEndSchedules ==
  ASSUME KeyInv, AfterEpochEnd
  PROVE  /\ KeysHaveOneOperator' /\ Scheduled' /\ Keyed'
         /\ optOuts' \in [Slots -> SUBSET Operators] /\ prunes' \in [Slots -> SUBSET Keys]
         /\ pendingOptOuts' \subseteq Operators /\ pendingPrunes' \subseteq Keys
<1> USE DEF KeyInv
<1>1. /\ optOuts \in [Slots -> SUBSET Operators] /\ prunes \in [Slots -> SUBSET Keys]
      /\ epoch \in Slots
  BY SlotsCover DEF Types
<1>2. /\ updateFlag' = TRUE /\ late' = FALSE
      /\ pendingOptOuts' = optOuts[epoch] /\ optOuts' = [optOuts EXCEPT ![epoch] = {}]
      /\ pendingPrunes' = prunes[epoch] /\ prunes' = [prunes EXCEPT ![epoch] = {}]
      /\ opted' = opted /\ removing' = removing /\ key' = key /\ operatorOf' = operatorOf
  BY Zenon DEF AfterEpochEnd
<1>3. /\ optOuts' \in [Slots -> SUBSET Operators] /\ prunes' \in [Slots -> SUBSET Keys]
      /\ optOuts'[epoch] = {} /\ prunes'[epoch] = {}
      /\ \A e \in Slots \ {epoch} : optOuts'[e] = optOuts[e] /\ prunes'[e] = prunes[e]
      /\ pendingOptOuts' \subseteq Operators /\ pendingPrunes' \subseteq Keys
  BY <1>1, <1>2
<1>4. KeysHaveOneOperator' /\ Keyed'
  BY <1>2 DEF KeysHaveOneOperator, Keyed
<1>5. \A e \in Slots : \A o \in optOuts'[e] : o \in removing' /\ key'[o] \in prunes'[e]
  BY <1>1, <1>2, <1>3 DEF Scheduled
<1>6. \A o \in pendingOptOuts' : o \in removing' /\ key'[o] \in pendingPrunes'
  BY <1>1, <1>2 DEF Scheduled
<1>7. \A e \in Slots : \A k \in prunes'[e] :
        /\ operatorOf'[k] # None /\ k \notin pendingPrunes'
        /\ \A f \in Slots : k \in prunes'[f] => f = e
  <2> SUFFICES ASSUME NEW e \in Slots, NEW k \in prunes'[e]
               PROVE  /\ operatorOf[k] # None /\ k \notin prunes[epoch]
                      /\ \A f \in Slots : k \in prunes'[f] => f = e
    BY <1>2
  <2>1. e # epoch /\ k \in prunes[e]
    BY <1>3
  <2>2. \A f \in Slots : k \in prunes'[f] => k \in prunes[f]
    BY <1>3, Zenon
  <2> QED
    BY <1>1, <2>1, <2>2 DEF Scheduled
<1>8. \A k \in pendingPrunes' : operatorOf'[k] # None
  BY <1>1, <1>2 DEF Scheduled
<1>9. \A o \in Operators, e \in Slots : key'[o] \in prunes'[e] => o \in optOuts'[e]
  <2> SUFFICES ASSUME NEW o \in Operators, NEW e \in Slots, key[o] \in prunes'[e]
               PROVE  o \in optOuts'[e]
    BY <1>2
  <2>1. e # epoch
    BY <1>3
  <2> QED
    BY <1>3, <2>1 DEF Scheduled
<1>10. \A o \in Operators : key'[o] \in pendingPrunes' => o \in pendingOptOuts'
  BY <1>1, <1>2 DEF Scheduled
<1> QED
  BY <1>2, <1>3, <1>4, <1>5, <1>6, <1>7, <1>8, <1>9, <1>10, Zenon DEF Scheduled

\* What EndBlock does to the keys: it completes every matured opt-out, so that
\* none is put off, and forgets exactly the keys that were to be pruned.
LEMMA EndBlockKeys ==
  ASSUME KeyInv, EndBlock
  PROVE  /\ key' \in [Operators -> Keys \cup {None}]
         /\ \A o \in Operators : key'[o] = IF o \in pendingOptOuts THEN None ELSE key[o]
         /\ removing' = removing \ pendingOptOuts
         /\ optOuts' = optOuts /\ prunes' = prunes /\ pendingOptOuts' = {} /\ pendingPrunes' = {}
         /\ operatorOf' \in [Keys -> Operators \cup {None}]
         /\ \A k \in Keys : operatorOf'[k] = IF k \in pendingPrunes THEN None ELSE operatorOf[k]
<1> USE DEF KeyInv
<1> DEFINE completed == {o \in pendingOptOuts : Completes(o)}
           forgotten == pendingPrunes \cup {key[o] : o \in completed}
<1>1. /\ key \in [Operators -> Keys \cup {None}] /\ operatorOf \in [Keys -> Operators \cup {None}]
      /\ optOuts \in [Slots -> SUBSET Operators] /\ pendingOptOuts \subseteq Operators
      /\ pendingPrunes \subseteq Keys
  BY DEF Types
<1>2. completed = pendingOptOuts
  BY <1>1, Constants DEF Scheduled, Completes
<1>3. forgotten = pendingPrunes
  BY <1>2 DEF Scheduled
<1>4. /\ removing' = removing \ completed
      /\ key' = [o \in Operators |-> IF o \in completed THEN None ELSE key[o]]
      /\ optOuts' = [optOuts EXCEPT ![epoch + 1] = @ \cup (pendingOptOuts \ completed)]
      /\ pendingOptOuts' = {} /\ pendingPrunes' = {}
      /\ operatorOf' = [k \in Keys |-> IF k \in forgotten THEN None ELSE operatorOf[k]]
      /\ prunes' = prunes
  BY Zenon DEF EndBlock
<1> HIDE DEF completed, forgotten
<1>5. optOuts' = optOuts
  BY <1>1, <1>2, <1>4
<1> QED
  BY <1>1, <1>2, <1>3, <1>4, <1>5

\* Whom EndBlock makes validators: the keys of operators that are opted in and
\* neither jailed nor frozen.  Those keys are the ones it dates.
LEMMA EndBlockValidators ==
  ASSUME KeyInv, EndBlock
  PROVE  /\ validators' \in [Keys -> Nat]
         /\ lastIn' \in [Keys -> [epoch : Nat, operator : Operators \cup {None}]]
         /\ \A k \in Keys : validators'[k] > 0 =>
              \E o \in Operators : key[o] = k /\ IsOptedInAndNotJailed(o)
         /\ \A k \in Keys :
              \/ lastIn'[k] = lastIn[k]
              \/ \E o \in Operators : /\ key[o] = k /\ IsOptedInAndNotJailed(o)
                                      /\ lastIn'[k] = [epoch |-> epoch, operator |-> o]
<1> USE DEF KeyInv
<1> DEFINE completed == {o \in pendingOptOuts : Completes(o)}
           chosen == Chosen({o \in Operators \ completed : key[o] # None})
           bonded(k) == \E o \in chosen : key[o] = k
           of(k) == CHOOSE o \in chosen : key[o] = k
<1>1. /\ power \in [Operators -> 0 .. MaxPower] /\ epoch \in Nat
      /\ lastIn \in [Keys -> [epoch : Nat, operator : Operators \cup {None}]]
  BY SlotsCover DEF Types
<1>2. \A o \in chosen : o \in Operators /\ IsOptedInAndNotJailed(o)
  BY DEF Chosen
<1>3. /\ validators' = UpdatedValidators(chosen)
      /\ lastIn' = [k \in Keys |-> IF bonded(k)
                                   THEN [epoch |-> epoch, operator |-> of(k)]
                                   ELSE lastIn[k]]
  BY Zenon DEF EndBlock
<1> HIDE DEF chosen
<1>4. validators' = [k \in Keys |-> IF bonded(k) THEN power[of(k)] ELSE 0]
  BY <1>3 DEF UpdatedValidators
<1>5. \A k \in Keys : bonded(k) => of(k) \in Operators /\ key[of(k)] = k /\ IsOptedInAndNotJailed(of(k))
  BY <1>2
<1> HIDE DEF bonded, of
<1>6. \A k \in Keys : bonded(k) => power[of(k)] \in Nat
  BY <1>1, <1>5, Constants
<1>7. validators' \in [Keys -> Nat]
  BY <1>4, <1>6
<1>8. \A k \in Keys : validators'[k] > 0 =>
        \E o \in Operators : key[o] = k /\ IsOptedInAndNotJailed(o)
  BY <1>4, <1>5
<1>9. lastIn' \in [Keys -> [epoch : Nat, operator : Operators \cup {None}]]
  BY <1>1, <1>3, <1>5, Zenon
<1>10. \A k \in Keys :
         \/ lastIn'[k] = lastIn[k]
         \/ \E o \in Operators : /\ key[o] = k /\ IsOptedInAndNotJailed(o)
                                 /\ lastIn'[k] = [epoch |-> epoch, operator |-> o]
  BY <1>3, <1>5
<1> QED
  BY <1>7, <1>8, <1>9, <1>10

\* What EndBlock does to the signing infos: it prunes those of the forgotten
\* keys that are not tombstoned and creates missing ones.
LEMMA EndBlockInfos ==
  ASSUME KeyInv, EndBlock
  PROVE  /\ info' \in [Keys -> SigningInfo]
         /\ \A k \in Keys \ pendingPrunes : info[k].found => info'[k] = info[k]
         /\ \A k \in Keys : info'[k].tombstoned => info[k].tombstoned
<1> USE DEF KeyInv
<1> DEFINE completed == {o \in pendingOptOuts : Completes(o)}
           chosen == Chosen({o \in Operators \ completed : key[o] # None})
           bonded(k) == \E o \in chosen : key[o] = k
           pruned(k) == IF k \in pendingPrunes /\ ~info[k].tombstoned THEN NoInfo ELSE info[k]
<1>1. info \in [Keys -> SigningInfo]
  BY DEF Types
<1>2. /\ NoInfo \in SigningInfo /\ Clean \in SigningInfo
      /\ NoInfo.tombstoned = FALSE /\ Clean.tombstoned = FALSE
  BY Zenon DEF NoInfo, Clean, SigningInfo
<1>3. info' = [k \in Keys |-> IF bonded(k) /\ ~pruned(k).found THEN Clean ELSE pruned(k)]
  BY Zenon DEF EndBlock
<1> HIDE DEF chosen
<1>4. \A k \in Keys : info'[k] = info[k] \/ info'[k] = NoInfo \/ info'[k] = Clean
  BY <1>3
<1>5. \A k \in Keys \ pendingPrunes : info[k].found => info'[k] = info[k]
  BY <1>3
<1>6. info' \in [Keys -> SigningInfo]
  BY <1>1, <1>2, <1>3
<1>7. \A k \in Keys : info'[k].tombstoned => info[k].tombstoned
  BY <1>2, <1>4, Zenon
<1> QED
  BY <1>5, <1>6, <1>7

\* EndBlock, which finishes what is due, keeps keys and schedules consistent.
LEMMA EndBlockSchedules ==
  ASSUME KeyInv, EndBlock
  PROVE  KeysHaveOneOperator' /\ Scheduled' /\ Keyed'
<1> USE DEF KeyInv
<1>1. /\ key' \in [Operators -> Keys \cup {None}]
      /\ \A o \in Operators : key'[o] = IF o \in pendingOptOuts THEN None ELSE key[o]
      /\ removing' = removing \ pendingOptOuts
      /\ optOuts' = optOuts /\ prunes' = prunes /\ pendingOptOuts' = {} /\ pendingPrunes' = {}
      /\ operatorOf' \in [Keys -> Operators \cup {None}]
      /\ \A k \in Keys : operatorOf'[k] = IF k \in pendingPrunes THEN None ELSE operatorOf[k]
  BY EndBlockKeys
<1>2. /\ key \in [Operators -> Keys \cup {None}]
      /\ optOuts \in [Slots -> SUBSET Operators] /\ prunes \in [Slots -> SUBSET Keys]
      /\ removing \subseteq Operators
  BY Zenon DEF Types
<1>3. opted' = opted
  BY Zenon DEF EndBlock
<1>4. Keyed'
  <2> SUFFICES ASSUME NEW o \in Operators
               PROVE  /\ opted[o] = "in" => key'[o] # None /\ o \notin removing'
                      /\ o \in removing' => opted[o] = "out" /\ key'[o] # None
                      /\ key'[o] # None => opted[o] # "never"
    BY <1>3 DEF Keyed
  <2>1. opted[o] = "in" => o \notin pendingOptOuts
    BY DEF Keyed, Scheduled
  <2> QED
    BY <1>1, <2>1 DEF Keyed
<1>5. KeysHaveOneOperator'
  <2> SUFFICES ASSUME NEW o \in Operators, key'[o] # None PROVE operatorOf'[key'[o]] = o
    BY DEF KeysHaveOneOperator
  <2>1. o \notin pendingOptOuts /\ key'[o] = key[o] /\ key[o] \in Keys
    BY <1>1, <1>2
  <2>2. key[o] \notin pendingPrunes
    BY <2>1 DEF Scheduled
  <2> QED
    BY <1>1, <2>1, <2>2, Constants DEF KeysHaveOneOperator
<1>6. \A e \in Slots : \A o \in optOuts[e] : o \in Operators /\ o \notin pendingOptOuts
  <2> SUFFICES ASSUME NEW e \in Slots, NEW o \in optOuts[e], o \in pendingOptOuts PROVE FALSE
    BY <1>2, Zenon
  <2> QED
    BY DEF Scheduled
<1>7. \A e \in Slots : \A o \in optOuts'[e] : o \in removing' /\ key'[o] \in prunes'[e]
  BY <1>1, <1>6 DEF Scheduled
<1>8. \A e \in Slots : \A k \in prunes'[e] :
        /\ operatorOf'[k] # None /\ k \notin pendingPrunes'
        /\ \A f \in Slots : k \in prunes'[f] => f = e
  BY <1>1, <1>2 DEF Scheduled
<1>9. \A o \in Operators, e \in Slots : key'[o] \in prunes'[e] => o \in optOuts'[e]
  <2> SUFFICES ASSUME NEW o \in Operators, NEW e \in Slots, key'[o] \in prunes[e]
               PROVE  o \in optOuts[e]
    BY <1>1
  <2>1. key'[o] \in Keys
    BY <1>2
  <2>2. key'[o] = key[o]
    BY <1>1, <2>1, Constants
  <2> QED
    BY <2>2 DEF Scheduled
<1> QED
  BY <1>1, <1>4, <1>5, <1>7, <1>8, <1>9, Zenon DEF Scheduled

\* Punishments, decisions of the governance and stuttering leave the keys and
\* their schedules alone.
LEMMA KeysUntouched ==
  ASSUME KeyInv, ~updateFlag' \/ late' => ~updateFlag \/ late,
         UNCHANGED <<opted, removing, key, operatorOf, optOuts, prunes, pendingOptOuts, pendingPrunes>>
  PROVE  KeysHaveOneOperator' /\ Scheduled' /\ Keyed'
<1>1. KeysHaveOneOperator' /\ Keyed'
  BY DEF KeyInv, KeysHaveOneOperator, Keyed
<1>2. Scheduled'
  BY Zenon DEF KeyInv, Scheduled
<1> QED
  BY <1>1, <1>2

\* The powers stay whole numbers within the bound.
LEMMA PowerType ==
  ASSUME UpdateVotingPower
  PROVE  power' \in [Operators -> 0 .. MaxPower]
<1>1. PICK p \in [Operators -> 0 .. MaxPower] :
        power' = [o \in Operators |-> IF opted[o] = "in" /\ o \notin frozen THEN p[o] ELSE 0]
  BY DEF UpdateVotingPower
<1>2. 0 \in 0 .. MaxPower
  BY Constants
<1> QED
  BY <1>1, <1>2

\* Setting a key migrates the signing info of the one it replaces, or leaves
\* the infos alone.
LEMMA SetKeyInfos ==
  ASSUME Types, NEW o \in Operators, NEW k \in Keys, SetOperatorConsKey(o, k)
  PROVE  /\ info' \in [Keys -> SigningInfo]
         /\ \A x \in Keys \ {k} : info'[x] = info[x]
         /\ \/ o \in unhooked'
            \/ /\ unhooked' = unhooked /\ key[o] # None /\ ~info[k].tombstoned
               /\ info'[k] = IF info[key[o]].found THEN info[key[o]] ELSE Clean
            \/ unhooked' = unhooked /\ key[o] = None /\ ~info[k].tombstoned /\ info' = info
         /\ unhooked \subseteq unhooked' /\ \A p \in Operators \ {o} : p \in unhooked' => p \in unhooked
<1> DEFINE found == key[o] # None
           recorded == found /\ prevKey[o] # None
<1>1. info \in [Keys -> SigningInfo] /\ key \in [Operators -> Keys \cup {None}]
  BY DEF Types
<1>2. Clean \in SigningInfo
  BY Zenon DEF NoInfo, Clean, SigningInfo
<1>3. /\ ~recorded => ~info[k].tombstoned
      /\ IF found /\ ~recorded THEN info' = [info EXCEPT ![k] = MigratedInfo(key[o])] ELSE info' = info
      /\ unhooked' = IF recorded THEN unhooked \cup {o} ELSE unhooked
  BY Zenon DEF SetOperatorConsKey, IsTombstoned
<1>4. found => key[o] \in Keys /\ MigratedInfo(key[o]) \in SigningInfo
  BY <1>1, <1>2 DEF MigratedInfo
<1>5. info' \in [Keys -> SigningInfo] /\ \A x \in Keys \ {k} : info'[x] = info[x]
  BY <1>1, <1>3, <1>4
<1>6. CASE recorded
  BY <1>3, <1>5, <1>6, Zenon
<1>7. CASE ~recorded /\ found
  <2>1. info'[k] = IF info[key[o]].found THEN info[key[o]] ELSE Clean
    BY <1>1, <1>3, <1>7, Zenon DEF MigratedInfo
  <2> QED
    BY <1>3, <1>5, <1>7, <2>1, Zenon
<1>8. CASE ~recorded /\ ~found
  BY <1>3, <1>5, <1>8, Zenon
<1> QED
  BY <1>6, <1>7, <1>8, Zenon

\* A punishment writes the same info under two keys.
LEMMA PunishedInfos ==
  ASSUME Types, NEW k \in Keys, NEW l \in Keys, NEW punished \in SigningInfo,
         info' = [x \in Keys |-> IF x \in {k, l} THEN punished ELSE info[x]]
  PROVE  /\ info' \in [Keys -> SigningInfo]
         /\ info'[k] = punished /\ info'[l] = punished
         /\ \A x \in Keys \ {k, l} : info'[x] = info[x]
<1>1. info \in [Keys -> SigningInfo]
  BY Zenon DEF Types
<1> QED
  BY <1>1, Zenon

\* What being found down does.
LEMMA DowntimeFacts ==
  ASSUME Types, NEW k \in Keys, Downtime(k)
  PROVE  LET o == operatorOf[k]
         IN  /\ o \in Operators /\ o \notin jailed /\ key[o] \in Keys
             /\ info[k].found /\ info' \in [Keys -> SigningInfo]
             /\ info'[key[o]].found /\ info'[key[o]].jailedUntil = epoch + JailDuration
             /\ \A x \in {k, key[o]} : info'[x].tombstoned = info[k].tombstoned
             /\ \A x \in Keys \ {k, key[o]} : info'[x] = info[x]
             /\ sentence' \in [Operators -> Nat] /\ sentence'[o] = epoch + JailDuration
             /\ \A p \in Operators \ {o} : sentence'[p] = sentence[p]
             /\ jailed' = jailed \cup {o} /\ power' \in [Operators -> 0 .. MaxPower]
             /\ updateFlag' = (updateFlag \/ ChangesSet(o))
<1> DEFINE o == operatorOf[k]
           punished == [info[k] EXCEPT !.jailedUntil = epoch + JailDuration]
<1>1. /\ info \in [Keys -> SigningInfo] /\ key \in [Operators -> Keys \cup {None}]
      /\ operatorOf \in [Keys -> Operators \cup {None}] /\ sentence \in [Operators -> Nat]
      /\ power \in [Operators -> 0 .. MaxPower] /\ epoch \in Nat
  BY SlotsCover, Zenon DEF Types
<1>2. o \in Operators /\ o \notin jailed /\ key[o] \in Keys /\ info[k].found
  BY <1>1 DEF Downtime
<1>3. /\ info' = [x \in Keys |-> IF x \in {k, key[o]} THEN punished ELSE info[x]]
      /\ jailed' = jailed \cup {o} /\ updateFlag' = (updateFlag \/ ChangesSet(o))
      /\ sentence' = [sentence EXCEPT ![o] = epoch + JailDuration]
      /\ UpdateVotingPower \/ power' = power
  BY Zenon DEF Downtime
<1>4. /\ punished \in SigningInfo /\ punished.found = info[k].found
      /\ punished.jailedUntil = epoch + JailDuration /\ punished.tombstoned = info[k].tombstoned
  BY <1>1, Constants DEF SigningInfo
<1>5. power' \in [Operators -> 0 .. MaxPower]
  BY <1>1, <1>3, PowerType
<1>6. /\ sentence' \in [Operators -> Nat] /\ sentence'[o] = epoch + JailDuration
      /\ \A p \in Operators \ {o} : sentence'[p] = sentence[p]
  BY <1>1, <1>2, <1>3, Constants
<1> HIDE DEF o, punished
<1>7. /\ info' \in [Keys -> SigningInfo]
      /\ info'[k] = punished /\ info'[key[o]] = punished
      /\ \A x \in Keys \ {k, key[o]} : info'[x] = info[x]
  BY <1>2, <1>3, <1>4, PunishedInfos, ZenonT(60)
<1>8. /\ info'[key[o]].found /\ info'[key[o]].jailedUntil = epoch + JailDuration
      /\ \A x \in {k, key[o]} : info'[x].tombstoned = info[k].tombstoned
  BY <1>2, <1>4, <1>7, Zenon
<1> QED
  BY <1>2, <1>3, <1>5, <1>6, <1>7, <1>8, Zenon DEF o

\* What double signing does.
LEMMA DoubleSignFacts ==
  ASSUME Types, NEW k \in Keys, DoubleSign(k)
  PROVE  LET o == operatorOf[k]
         IN  /\ o \in Operators /\ key[o] \in Keys
             /\ info' \in [Keys -> SigningInfo]
             /\ info'[key[o]].found /\ info'[key[o]].jailedUntil = Forever
             /\ \A x \in Keys \ {k, key[o]} : info'[x] = info[x]
             /\ sentence' \in [Operators -> Nat] /\ sentence'[o] = Forever
             /\ \A p \in Operators \ {o} : sentence'[p] = sentence[p]
             /\ jailed' = jailed \cup {o} /\ frozen' = frozen \cup {o}
             /\ power' \in [Operators -> 0 .. MaxPower]
             /\ \/ updateFlag' = (updateFlag \/ ChangesSet(o))
                \/ updateFlag' = (updateFlag \/ (o \notin jailed /\ ChangesSet(o)))
<1> DEFINE o == operatorOf[k]
           punished == [info[k] EXCEPT !.jailedUntil = Forever, !.tombstoned = TRUE]
<1>1. /\ info \in [Keys -> SigningInfo] /\ key \in [Operators -> Keys \cup {None}]
      /\ operatorOf \in [Keys -> Operators \cup {None}] /\ sentence \in [Operators -> Nat]
      /\ power \in [Operators -> 0 .. MaxPower] /\ epoch \in Nat
  BY SlotsCover DEF Types
<1>2. o \in Operators /\ key[o] \in Keys /\ info[k].found
  BY <1>1 DEF DoubleSign
<1>3. /\ info' = [x \in Keys |-> IF x \in {k, key[o]} THEN punished ELSE info[x]]
      /\ jailed' = jailed \cup {o} /\ frozen' = frozen \cup {o}
      /\ sentence' = [sentence EXCEPT ![o] = Forever]
      /\ \/ UpdateVotingPower /\ updateFlag' = (updateFlag \/ ChangesSet(o))
         \/ power' = power /\ updateFlag' = (updateFlag \/ (o \notin jailed /\ ChangesSet(o)))
  BY Zenon DEF DoubleSign
<1>4. punished \in SigningInfo /\ punished.found = info[k].found /\ punished.jailedUntil = Forever
  BY <1>1, Constants, Zenon DEF SigningInfo
<1>5. power' \in [Operators -> 0 .. MaxPower]
  BY <1>1, <1>3, PowerType
<1>6. /\ sentence' \in [Operators -> Nat] /\ sentence'[o] = Forever
      /\ \A p \in Operators \ {o} : sentence'[p] = sentence[p]
  BY <1>1, <1>2, <1>3, Constants
<1> HIDE DEF o, punished
<1>7. /\ info' \in [Keys -> SigningInfo]
      /\ info'[k] = punished /\ info'[key[o]] = punished
      /\ \A x \in Keys \ {k, key[o]} : info'[x] = info[x]
  BY <1>2, <1>3, <1>4, PunishedInfos, Zenon
<1>8. info'[key[o]].found /\ info'[key[o]].jailedUntil = Forever
  BY <1>2, <1>4, <1>7, Zenon
<1> QED
  BY <1>2, <1>3, <1>5, <1>6, <1>7, <1>8, Zenon DEF o

\* What a punishment by x/oracle does: the term is written down under k alone.
LEMMA OracleJailFacts ==
  ASSUME Types, NEW k \in Keys, NEW malicious \in BOOLEAN, OracleJail(k, malicious)
  PROVE  LET o == operatorOf[k]
         IN  /\ o \in Operators /\ o \notin jailed /\ key[o] \in Keys
             /\ info' \in [Keys -> SigningInfo]
             /\ info'[k].found /\ info'[k].jailedUntil = sentence'[o]
             /\ \A x \in {k, key[o]} : info'[x].tombstoned => info[k].tombstoned \/ info[key[o]].tombstoned
             /\ \A x \in Keys \ {k, key[o]} : info'[x] = info[x]
             /\ sentence' \in [Operators -> Nat]
             /\ \A p \in Operators \ {o} : sentence'[p] = sentence[p]
             /\ jailed' = jailed \cup {o} /\ power' \in [Operators -> 0 .. MaxPower]
             /\ updateFlag' = (updateFlag \/ ChangesSet(o))
             /\ misfiled' = IF key[o] = k THEN misfiled \ {o} ELSE misfiled \cup {o}
<1> DEFINE o == operatorOf[k]
           until == epoch + (IF malicious THEN MaliciousJailDuration ELSE MissJailDuration)
           copied == IF malicious /\ key[o] # k THEN [info EXCEPT ![key[o]] = MigratedInfo(k)] ELSE info
<1>1. /\ info \in [Keys -> SigningInfo] /\ key \in [Operators -> Keys \cup {None}]
      /\ operatorOf \in [Keys -> Operators \cup {None}] /\ sentence \in [Operators -> Nat]
      /\ power \in [Operators -> 0 .. MaxPower] /\ epoch \in Nat
  BY SlotsCover, Zenon DEF Types
<1>2. o \in Operators /\ o \notin jailed /\ key[o] \in Keys /\ info[k].found
  BY <1>1 DEF OracleJail
<1>3. /\ info' = [copied EXCEPT ![k].jailedUntil = until]
      /\ jailed' = jailed \cup {o} /\ updateFlag' = (updateFlag \/ ChangesSet(o))
      /\ sentence' = [sentence EXCEPT ![o] = until]
      /\ UpdateVotingPower \/ power' = power
      /\ misfiled' = IF key[o] = k THEN misfiled \ {o} ELSE misfiled \cup {o}
  BY Zenon DEF OracleJail
<1>4. until \in Nat
  BY <1>1, Constants
<1>5. power' \in [Operators -> 0 .. MaxPower]
  BY <1>1, <1>3, PowerType
<1> HIDE DEF until
<1>6. /\ sentence' \in [Operators -> Nat] /\ sentence'[o] = until
      /\ \A p \in Operators \ {o} : sentence'[p] = sentence[p]
  BY <1>1, <1>2, <1>3, <1>4
<1>7. MigratedInfo(k) = info[k]
  BY <1>2, Zenon DEF MigratedInfo
<1>8. /\ copied \in [Keys -> SigningInfo] /\ copied[k] = info[k]
      /\ copied[key[o]] = info[key[o]] \/ copied[key[o]] = info[k]
      /\ \A x \in Keys \ {k, key[o]} : copied[x] = info[x]
  BY <1>1, <1>2, <1>7
<1> HIDE DEF o, copied
<1>9. /\ info' \in [Keys -> SigningInfo]
      /\ info'[k].found = copied[k].found /\ info'[k].jailedUntil = until
      /\ info'[k].tombstoned = copied[k].tombstoned
      /\ \A x \in Keys \ {k} : info'[x] = copied[x]
  BY <1>3, <1>4, <1>8 DEF SigningInfo
<1>10. \A x \in {k, key[o]} : info'[x].tombstoned => info[k].tombstoned \/ info[key[o]].tombstoned
  BY <1>2, <1>8, <1>9, Zenon
<1>11. \A x \in Keys \ {k, key[o]} : info'[x] = info[x]
  BY <1>8, <1>9, Zenon
<1> QED
  BY <1>2, <1>3, <1>5, <1>6, <1>8, <1>9, <1>10, <1>11, Zenon DEF o

\* The keys' invariant is inductive.
LEMMA NextKeys == KeyInv /\ [Next]_vars => KeyInv'
<1> SUFFICES ASSUME KeyInv, [Next]_vars PROVE KeyInv'
  OBVIOUS
<1>1. Types
  BY DEF KeyInv
<1>2. ASSUME NEW o \in Operators, NEW k \in Keys, OptInWithConsKey(o, k)
      PROVE  KeyInv'
  <2>1. SetOperatorConsKey(o, k)
    BY <1>2 DEF OptInWithConsKey
  <2>2. /\ opted' = [opted EXCEPT ![o] = "in"] /\ power' = [power EXCEPT ![o] = 0]
        /\ transactions' = transactions + 1 /\ late' = FALSE
        /\ UNCHANGED <<epoch, jailed, frozen, removing, validators, optOuts, pendingOptOuts, pendingPrunes,
                       updateFlag, lastIn, sentence, outEpoch>>
    BY <1>2, Zenon DEF OptInWithConsKey, Transaction
  <2>3. KeysHaveOneOperator' /\ Scheduled'
    BY <2>1, <2>2, SetKeySchedules, Zenon
  <2>4. opted \in [Operators -> {"never", "in", "out"}] /\ power \in [Operators -> 0 .. MaxPower]
        /\ transactions \in Nat
    BY <1>1 DEF Types
  <2>5. opted' \in [Operators -> {"never", "in", "out"}] /\ power' \in [Operators -> 0 .. MaxPower]
        /\ transactions' \in Nat
    BY <2>2, <2>4, Constants
  <2>6. Types'
    BY <1>1, <2>1, <2>2, <2>5, SetKeyFacts, SetKeyInfos, Zenon DEF Types
  <2>7. Keyed'
    <3>1. o \notin removing /\ key'[o] = k /\ \A p \in Operators \ {o} : key'[p] = key[p]
      BY <1>1, <2>1, SetKeyFacts
    <3> QED
      BY <2>2, <2>4, <3>1, Constants DEF Keyed, KeyInv
  <2> QED
    BY <2>3, <2>6, <2>7 DEF KeyInv
<1>3. ASSUME NEW o \in Operators, NEW k \in Keys, SetConsKey(o, k)
      PROVE  KeyInv'
  <2>1. SetOperatorConsKey(o, k) /\ opted[o] = "in"
    BY <1>3 DEF SetConsKey
  <2>2. /\ transactions' = transactions + 1 /\ late' = FALSE
        /\ UNCHANGED <<epoch, opted, jailed, frozen, removing, power, validators, optOuts, pendingOptOuts,
                       pendingPrunes, updateFlag, lastIn, sentence, outEpoch>>
    BY <1>3, Zenon DEF SetConsKey, Transaction
  <2>3. KeysHaveOneOperator' /\ Scheduled'
    BY <2>1, <2>2, SetKeySchedules, Zenon
  <2>4. transactions' \in Nat
    BY <1>1, <2>2 DEF Types
  <2>5. Types'
    BY <1>1, <2>1, <2>2, <2>4, SetKeyFacts, SetKeyInfos, Zenon DEF Types
  <2>6. Keyed'
    <3>1. o \notin removing /\ key'[o] = k /\ \A p \in Operators \ {o} : key'[p] = key[p]
      BY <1>1, <2>1, SetKeyFacts
    <3> QED
      BY <2>1, <2>2, <3>1, Constants, Zenon DEF Keyed, KeyInv
  <2> QED
    BY <2>3, <2>5, <2>6 DEF KeyInv
<1>4. ASSUME NEW o \in Operators, OptOut(o)
      PROVE  KeyInv'
  <2>1. /\ opted' = [opted EXCEPT ![o] = "out"] /\ removing' = removing \cup {o}
        /\ outEpoch' = [outEpoch EXCEPT ![o] = epoch] /\ transactions' = transactions + 1 /\ late' = FALSE
        /\ UNCHANGED <<epoch, jailed, frozen, key, prevKey, operatorOf, power, validators, pendingOptOuts,
                       pendingPrunes, updateFlag, pubkeys, info, lastIn, unhooked, sentence>>
    BY <1>4, Zenon DEF OptOut, Transaction, slashingVars
  <2>2. /\ opted \in [Operators -> {"never", "in", "out"}] /\ outEpoch \in [Operators -> Nat]
        /\ transactions \in Nat /\ epoch \in Nat /\ removing \subseteq Operators
    BY <1>1, SlotsCover DEF Types
  <2>3. /\ opted' \in [Operators -> {"never", "in", "out"}] /\ outEpoch' \in [Operators -> Nat]
        /\ transactions' \in Nat /\ removing' \subseteq Operators
    BY <2>1, <2>2
  <2>4. /\ KeysHaveOneOperator' /\ Scheduled' /\ Keyed'
        /\ optOuts' \in [Slots -> SUBSET Operators] /\ prunes' \in [Slots -> SUBSET Keys]
    BY <1>4, OptOutSchedules
  <2>5. Types'
    BY <1>1, <2>1, <2>3, <2>4, Zenon DEF Types
  <2> QED
    BY <2>4, <2>5 DEF KeyInv
<1>5. ASSUME NEW k \in Keys, Downtime(k)
      PROVE  KeyInv'
  <2>1. /\ transactions' = transactions + 1 /\ late' = FALSE
        /\ UNCHANGED <<epoch, opted, frozen, removing, key, prevKey, operatorOf, validators, optOuts, prunes,
                       pendingOptOuts, pendingPrunes, pubkeys, lastIn, unhooked, outEpoch>>
    BY <1>5, Zenon DEF Downtime, Transaction, scheduleVars
  <2>2. /\ info' \in [Keys -> SigningInfo] /\ sentence' \in [Operators -> Nat]
        /\ power' \in [Operators -> 0 .. MaxPower]
        /\ updateFlag' = (updateFlag \/ ChangesSet(operatorOf[k]))
    BY <1>1, <1>5, DowntimeFacts, Zenon
  <2>3. transactions' \in Nat /\ jailed' \subseteq Operators
    BY <1>1, <1>5, <2>1, DowntimeFacts DEF Types
  <2>4. KeysHaveOneOperator' /\ Scheduled' /\ Keyed'
    BY <2>1, <2>2, KeysUntouched, Zenon
  <2>5. updateFlag' \in BOOLEAN
    BY <2>2
  <2>6. Types'
    BY <1>1, <2>1, <2>2, <2>3, <2>5, Zenon DEF Types
  <2> QED
    BY <2>4, <2>6 DEF KeyInv
<1>6. ASSUME NEW k \in Keys, DoubleSign(k)
      PROVE  KeyInv'
  <2>1. /\ transactions' = transactions + 1 /\ late' = FALSE
        /\ UNCHANGED <<epoch, opted, removing, key, prevKey, operatorOf, validators, optOuts, prunes,
                       pendingOptOuts, pendingPrunes, pubkeys, lastIn, unhooked, outEpoch>>
    BY <1>6, Zenon DEF DoubleSign, Transaction, scheduleVars
  <2>2. /\ info' \in [Keys -> SigningInfo] /\ sentence' \in [Operators -> Nat]
        /\ power' \in [Operators -> 0 .. MaxPower]
        /\ \/ updateFlag' = (updateFlag \/ ChangesSet(operatorOf[k]))
           \/ updateFlag' = (updateFlag \/ (operatorOf[k] \notin jailed /\ ChangesSet(operatorOf[k])))
    BY <1>1, <1>6, DoubleSignFacts, Zenon
  <2>3. transactions' \in Nat /\ jailed' \subseteq Operators /\ frozen' \subseteq Operators
    BY <1>1, <1>6, <2>1, DoubleSignFacts DEF Types
  <2>4. KeysHaveOneOperator' /\ Scheduled' /\ Keyed'
    BY <2>1, <2>2, KeysUntouched, Zenon
  <2>5. updateFlag' \in BOOLEAN
    BY <2>2, Zenon
  <2>6. Types'
    BY <1>1, <2>1, <2>2, <2>3, <2>5, Zenon DEF Types
  <2> QED
    BY <2>4, <2>6 DEF KeyInv
<1>7. ASSUME NEW o \in Operators, SlashElsewhere(o)
      PROVE  KeyInv'
  <2>1. /\ updateFlag' = (updateFlag \/ ChangesSet(o)) /\ transactions' = transactions + 1 /\ late' = FALSE
        /\ UNCHANGED <<epoch, opted, jailed, frozen, removing, key, prevKey, operatorOf, validators, optOuts,
                       prunes, pendingOptOuts, pendingPrunes, pubkeys, info, lastIn, unhooked, sentence, outEpoch>>
    BY <1>7, Zenon DEF SlashElsewhere, Transaction, scheduleVars, slashingVars, history
  <2>2. power' \in [Operators -> 0 .. MaxPower]
    BY <1>7, PowerType DEF SlashElsewhere
  <2>3. transactions' \in Nat
    BY <1>1, <2>1 DEF Types
  <2>4. KeysHaveOneOperator' /\ Scheduled' /\ Keyed'
    BY <2>1, KeysUntouched, Zenon
  <2>5. updateFlag' \in BOOLEAN
    BY <2>1
  <2>6. Types'
    BY <1>1, <2>1, <2>2, <2>3, <2>5, Zenon DEF Types
  <2> QED
    BY <2>4, <2>6 DEF KeyInv
<1>8. ASSUME NEW o \in Operators, Unjail(o)
      PROVE  KeyInv'
  <2>1. /\ updateFlag' = (updateFlag \/ IsImpactful(o)) /\ transactions' = transactions + 1 /\ late' = FALSE
        /\ jailed' = jailed \ {o}
        /\ UNCHANGED <<epoch, opted, frozen, removing, key, prevKey, operatorOf, power, validators, optOuts,
                       prunes, pendingOptOuts, pendingPrunes, pubkeys, info, lastIn, unhooked, sentence, outEpoch>>
    BY <1>8, Zenon DEF Unjail, Transaction, scheduleVars, slashingVars, history
  <2>2. transactions' \in Nat /\ jailed' \subseteq Operators
    BY <1>1, <2>1 DEF Types
  <2>3. KeysHaveOneOperator' /\ Scheduled' /\ Keyed'
    BY <2>1, KeysUntouched, Zenon
  <2>4. updateFlag' \in BOOLEAN
    BY <2>1
  <2>5. Types'
    BY <1>1, <2>1, <2>2, <2>4, Zenon DEF Types
  <2> QED
    BY <2>3, <2>5 DEF KeyInv
<1>9. ASSUME NEW o \in Operators, UnfreezeOperator(o)
      PROVE  KeyInv'
  <2>1. /\ transactions' = transactions + 1 /\ late' = FALSE /\ frozen' = frozen \ {o}
        /\ UNCHANGED <<epoch, opted, jailed, removing, key, prevKey, operatorOf, power, validators, optOuts,
                       prunes, pendingOptOuts, pendingPrunes, updateFlag, pubkeys, info, lastIn, unhooked,
                       sentence, outEpoch>>
    BY <1>9, Zenon DEF UnfreezeOperator, Transaction, scheduleVars, slashingVars, history
  <2>2. transactions' \in Nat /\ frozen' \subseteq Operators
    BY <1>1, <2>1 DEF Types
  <2>3. KeysHaveOneOperator' /\ Scheduled' /\ Keyed'
    BY <2>1, KeysUntouched, Zenon
  <2>4. Types'
    BY <1>1, <2>1, <2>2, Zenon DEF Types
  <2> QED
    BY <2>3, <2>4 DEF KeyInv
<1>10. ASSUME AfterEpochEnd
       PROVE  KeyInv'
  <2>1. /\ epoch < MaxEpoch /\ epoch' = epoch + 1 /\ updateFlag' = TRUE
        /\ UNCHANGED <<opted, jailed, frozen, removing, key, prevKey, operatorOf, validators, pubkeys, info,
                       transactions, lastIn, unhooked, sentence, outEpoch>>
    BY <1>10, Zenon DEF AfterEpochEnd, slashingVars, history
  <2>2. power' \in [Operators -> 0 .. MaxPower]
    BY <1>10, PowerType, Zenon DEF AfterEpochEnd
  <2>3. epoch' \in 1 .. MaxEpoch
    BY <1>1, <2>1, Constants DEF Types
  <2>4. /\ KeysHaveOneOperator' /\ Scheduled' /\ Keyed'
        /\ optOuts' \in [Slots -> SUBSET Operators] /\ prunes' \in [Slots -> SUBSET Keys]
        /\ pendingOptOuts' \subseteq Operators /\ pendingPrunes' \subseteq Keys
    BY <1>10, AfterEpochEndSchedules
  <2>5. Types'
    BY <1>1, <2>1, <2>2, <2>3, <2>4, Zenon DEF Types
  <2> QED
    BY <2>4, <2>5 DEF KeyInv
<1>11. ASSUME EndBlock
       PROVE  KeyInv'
  <2>1. /\ updateFlag' = FALSE /\ prevKey' = [o \in Operators |-> None] /\ pubkeys' = pubkeys \ pendingPrunes
        /\ UNCHANGED <<epoch, opted, jailed, frozen, power, transactions, unhooked, sentence, outEpoch>>
    BY <1>11, Zenon DEF EndBlock
  <2>2. KeysHaveOneOperator' /\ Scheduled' /\ Keyed'
    BY <1>11, EndBlockSchedules
  <2>3. /\ prevKey' \in [Operators -> Keys \cup {None}]
        /\ pubkeys' \subseteq Keys
    BY <1>1, <2>1, Zenon DEF Types
  <2>4. /\ key' \in [Operators -> Keys \cup {None}] /\ operatorOf' \in [Keys -> Operators \cup {None}]
        /\ removing' = removing \ pendingOptOuts
        /\ optOuts' = optOuts /\ prunes' = prunes /\ pendingOptOuts' = {} /\ pendingPrunes' = {}
    BY <1>11, EndBlockKeys
  <2>5. removing' \subseteq Operators
    BY <1>1, <2>4, Zenon DEF Types
  <2>6. /\ validators' \in [Keys -> Nat] /\ info' \in [Keys -> SigningInfo]
        /\ lastIn' \in [Keys -> [epoch : Nat, operator : Operators \cup {None}]]
    BY <1>11, EndBlockValidators, EndBlockInfos, Zenon
  <2>7. Types'
    BY <1>1, <2>1, <2>3, <2>4, <2>5, <2>6, Zenon DEF Types
  <2> QED
    BY <2>2, <2>7 DEF KeyInv
<1>12. CASE UNCHANGED vars
  <2>1. UNCHANGED <<epoch, opted, jailed, frozen, removing, key, prevKey, operatorOf, power, validators, optOuts,
                    prunes, pendingOptOuts, pendingPrunes, updateFlag, late, pubkeys, info, transactions,
                    lastIn, unhooked, sentence, outEpoch>>
    BY <1>12, Zenon DEF vars, operatorVars, scheduleVars, slashingVars, history
  <2>2. KeysHaveOneOperator' /\ Scheduled' /\ Keyed'
    BY <2>1, KeysUntouched, Zenon
  <2>3. Types'
    BY <1>1, <2>1, Zenon DEF Types
  <2> QED
    BY <2>2, <2>3 DEF KeyInv
<1>13. ASSUME NEW k \in Keys, NEW malicious \in BOOLEAN, OracleJail(k, malicious)
       PROVE  KeyInv'
  <2>1. /\ transactions' = transactions + 1 /\ (~updateFlag \/ late)
        /\ UNCHANGED <<epoch, opted, frozen, removing, key, prevKey, operatorOf, validators, optOuts, prunes,
                       pendingOptOuts, pendingPrunes, pubkeys, lastIn, unhooked, outEpoch>>
    BY <1>13, Zenon DEF OracleJail, scheduleVars
  <2>2. /\ info' \in [Keys -> SigningInfo] /\ sentence' \in [Operators -> Nat]
        /\ power' \in [Operators -> 0 .. MaxPower]
        /\ updateFlag' = (updateFlag \/ ChangesSet(operatorOf[k]))
    BY <1>1, <1>13, OracleJailFacts, Zenon
  <2>3. operatorOf[k] \in Operators /\ jailed' = jailed \cup {operatorOf[k]}
    BY <1>1, <1>13, OracleJailFacts, Zenon
  <2>4. transactions \in Nat /\ jailed \subseteq Operators
    BY <1>1, Zenon DEF Types
  <2>5. transactions' \in Nat /\ jailed' \subseteq Operators
    BY <2>1, <2>3, <2>4
  <2>6. KeysHaveOneOperator' /\ Scheduled' /\ Keyed'
    BY <2>1, KeysUntouched, Zenon
  <2>7. updateFlag' \in BOOLEAN
    BY <2>2
  <2>8. Types'
    BY <1>1, <2>1, <2>2, <2>5, <2>7, Zenon DEF Types
  <2> QED
    BY <2>6, <2>8 DEF KeyInv
<1> QED
  BY <1>2, <1>3, <1>4, <1>5, <1>6, <1>7, <1>8, <1>9, <1>10, <1>11, <1>12, <1>13, Zenon DEF Next

\* The invariant of the keys holds throughout.
LEMMA KeysInvariant == Spec => []KeyInv
<1>1. Init => KeyInv
  BY InitKeys
<1>2. KeyInv /\ [Next]_vars => KeyInv'
  BY NextKeys
<1> QED
  BY <1>1, <1>2, PTL DEF Spec

\* The lookup leads from the key of an operator to that operator: neither the
\* pruning of an earlier use of the key nor another operator's opt-out takes it
\* away (SetOperatorConsKeyForChainID, CompleteOperatorKeyRemovalForChainID).
THEOREM KeysOwned == Spec => []KeysHaveOneOperator
<1>1. KeyInv => KeysHaveOneOperator
  BY DEF KeyInv
<1> QED
  BY <1>1, KeysInvariant, PTL
-----------------------------------------------------------------------------
(* Evidence reaches the operator.                                          *)

\* The genesis validators are in the set now, under their own keys.
LEMMA InitReach == Init => ReachInv
<1> SUFFICES ASSUME Init PROVE ReachInv
  OBVIOUS
<1>1. PICK f \in Injection(Genesis, Keys) :
       /\ key = [o \in Operators |-> IF o \in Genesis THEN f[o] ELSE None]
       /\ operatorOf = [k \in Keys |-> IF k \in Range(f) THEN AntiFunction(f)[k] ELSE None]
       /\ lastIn = [k \in Keys |->
                     IF k \in Range(f) THEN [epoch |-> 1, operator |-> AntiFunction(f)[k]] ELSE NeverIn]
  BY Zenon DEF Init
<1>2. f \in [Genesis -> Keys]
  BY Zenon DEF Injection
<1>3. \A k \in Range(f) : AntiFunction(f)[k] \in Genesis /\ f[AntiFunction(f)[k]] = k
  BY InverseOf
<1>4. \A k \in Keys : /\ lastIn[k].epoch \in {0, 1}
                      /\ lastIn[k] # NeverIn => k \in Range(f) /\ lastIn[k].operator = AntiFunction(f)[k]
  BY <1>1, Zenon DEF NeverIn
<1>5. Timely
  <2>1. \A k \in Keys : /\ lastIn[k].epoch <= epoch
                        /\ lastIn[k] # NeverIn => lastIn[k].operator \in Operators
    <3>1. epoch = 1
      BY Zenon DEF Init
    <3> QED
      BY <1>3, <1>4, <3>1, Constants
  <2> QED
    BY <2>1, Zenon DEF Init, Timely, Slots
<1>6. InfractionsReachOperator
  BY <1>1, <1>2, <1>3, <1>4, Constants DEF InfractionsReachOperator
<1> QED
  BY <1>5, <1>6, Zenon DEF ReachInv

\* What the invariant says of a key, with the types it needs.
LEMMA ReachTypes ==
  ASSUME KeyInv
  PROVE  /\ epoch \in Nat
         /\ \A k \in Keys : lastIn[k].epoch \in Nat /\ lastIn[k].operator \in Operators \cup {None}
         /\ \A e \in Slots : e \in Nat /\ optOuts[e] \subseteq Operators /\ prunes[e] \subseteq Keys
         /\ pendingOptOuts \subseteq Operators /\ pendingPrunes \subseteq Keys
<1>1. Types
  BY DEF KeyInv
<1>2. epoch \in Nat
  BY <1>1, SlotsCover
<1>3. /\ lastIn \in [Keys -> [epoch : Nat, operator : Operators \cup {None}]]
      /\ optOuts \in [Slots -> SUBSET Operators] /\ prunes \in [Slots -> SUBSET Keys]
      /\ pendingOptOuts \subseteq Operators /\ pendingPrunes \subseteq Keys
  BY <1>1 DEF Types
<1> QED
  BY <1>2, <1>3, Constants DEF Slots

\* A replaced key is pruned only an unbonding period later.
LEMMA SetKeyReach ==
  ASSUME KeyInv, ReachInv, NEW o \in Operators, NEW k \in Keys, SetOperatorConsKey(o, k),
         UNCHANGED <<epoch, optOuts, pendingOptOuts, pendingPrunes, lastIn>>
  PROVE  ReachInv'
<1>1. /\ operatorOf[k] = None /\ key'[o] = k
      /\ \A p \in Operators \ {o} : key'[p] = key[p]
      /\ \A x \in Keys \ {k} : operatorOf'[x] = operatorOf[x]
      /\ prunes' \in [Slots -> SUBSET Keys]
      /\ \A e \in Slots : \A x \in prunes'[e] :
           x \in prunes[e] \/ (x = key[o] /\ e = epoch + EpochsUntilUnbonded)
  BY SetKeyFacts, Zenon DEF KeyInv
<1>2. \A e \in Slots : \A x \in prunes'[e] : lastIn[x].epoch + EpochsUntilUnbonded <= e
  <2> SUFFICES ASSUME NEW e \in Slots, NEW x \in prunes'[e], x = key[o], e = epoch + EpochsUntilUnbonded
               PROVE  lastIn[x].epoch + EpochsUntilUnbonded <= e
    BY <1>1, Zenon DEF ReachInv, Timely
  <2>1. x \in Keys
    BY <1>1, Zenon
  <2>2. lastIn[x].epoch <= epoch /\ lastIn[x].epoch \in Nat /\ epoch \in Nat
    BY <2>1, ReachTypes, Zenon DEF ReachInv, Timely
  <2> QED
    BY <2>2, Constants
<1>3. Timely'
  BY <1>2, Zenon DEF ReachInv, Timely
<1>4. InfractionsReachOperator'
  <2> SUFFICES ASSUME NEW x \in Keys, lastIn[x] # NeverIn, lastIn[x].epoch + EpochsUntilUnbonded >= epoch
               PROVE  operatorOf'[x] = lastIn[x].operator /\ key'[operatorOf'[x]] # None
    BY Zenon DEF InfractionsReachOperator
  <2>1. operatorOf[x] = lastIn[x].operator /\ key[operatorOf[x]] # None /\ operatorOf[x] \in Operators
    BY Zenon DEF ReachInv, Timely, InfractionsReachOperator
  <2>2. operatorOf'[x] = operatorOf[x]
    BY <1>1, <2>1, Constants, Zenon
  <2> QED
    BY <1>1, <2>1, <2>2, Constants, Zenon
<1> QED
  BY <1>3, <1>4 DEF ReachInv

\* An opt-out finishes only an unbonding period later.
LEMMA OptOutReach ==
  ASSUME KeyInv, ReachInv, NEW o \in Operators, OptOut(o)
  PROVE  ReachInv'
<1> DEFINE c == epoch + EpochsUntilUnbonded
<1>1. /\ optOuts \in [Slots -> SUBSET Operators] /\ prunes \in [Slots -> SUBSET Keys]
      /\ key \in [Operators -> Keys \cup {None}]
  BY DEF KeyInv, Types
<1>2. c \in Slots /\ GetUnbondingCompletionEpoch = c
  BY SlotsCover DEF KeyInv
<1>3. /\ optOuts' = [optOuts EXCEPT ![c] = @ \cup {o}]
      /\ prunes' = [prunes EXCEPT ![c] = @ \cup {key[o]}]
      /\ UNCHANGED <<epoch, key, operatorOf, pendingOptOuts, pendingPrunes, lastIn>>
  BY <1>2, Zenon DEF OptOut, AppendConsensusAddrToPrune
<1>4. key[o] \in Keys
  BY <1>1 DEF OptOut, KeyInv, Keyed
<1>5. \A e \in Slots : \A x \in prunes'[e] : x \in prunes[e] \/ (e = c /\ x = key[o])
  BY <1>1, <1>2, <1>3
<1>6. \A e \in Slots : \A p \in optOuts'[e] : p \in optOuts[e] \/ e = c
  BY <1>1, <1>2, <1>3, Zenon
<1>7. \A e \in Slots : \A x \in prunes'[e] : lastIn[x].epoch + EpochsUntilUnbonded <= e
  BY <1>4, <1>5, ReachTypes, Constants DEF ReachInv, Timely
<1>8. \A e \in Slots, x \in Keys :
        lastIn[x].operator \in optOuts'[e] => lastIn[x].epoch + EpochsUntilUnbonded <= e
  BY <1>6, ReachTypes, Constants DEF ReachInv, Timely
<1>9. Timely'
  BY <1>3, <1>7, <1>8, Zenon DEF ReachInv, Timely
<1>10. InfractionsReachOperator'
  BY <1>3, Zenon DEF ReachInv, InfractionsReachOperator
<1> QED
  BY <1>9, <1>10 DEF ReachInv

\* What the epoch hook makes due was scheduled an unbonding period ago.
LEMMA AfterEpochEndReach ==
  ASSUME KeyInv, ReachInv, AfterEpochEnd
  PROVE  ReachInv'
<1>1. /\ optOuts \in [Slots -> SUBSET Operators] /\ prunes \in [Slots -> SUBSET Keys]
      /\ epoch \in Slots
  BY SlotsCover DEF KeyInv, Types
<1>2. /\ epoch' = epoch + 1
      /\ pendingOptOuts' = optOuts[epoch] /\ optOuts' = [optOuts EXCEPT ![epoch] = {}]
      /\ pendingPrunes' = prunes[epoch] /\ prunes' = [prunes EXCEPT ![epoch] = {}]
      /\ lastIn' = lastIn /\ key' = key /\ operatorOf' = operatorOf
  BY Zenon DEF AfterEpochEnd, history
<1>3. \A e \in Slots : optOuts'[e] \subseteq optOuts[e] /\ prunes'[e] \subseteq prunes[e]
  BY <1>1, <1>2, Zenon
<1>4. \A k \in Keys : /\ lastIn'[k].epoch <= epoch'
                      /\ lastIn'[k] # NeverIn => lastIn'[k].operator \in Operators
  <2>1. \A m, n \in Nat : m <= n => m <= n + 1
    OBVIOUS
  <2> QED
    BY <1>2, <2>1, ReachTypes, Zenon DEF ReachInv, Timely
<1>5. \A e \in Slots : \A k \in prunes'[e] : lastIn'[k].epoch + EpochsUntilUnbonded <= e
  BY <1>2, <1>3, Zenon DEF ReachInv, Timely
<1>6. \A k \in pendingPrunes' : lastIn'[k].epoch + EpochsUntilUnbonded < epoch'
  <2> SUFFICES ASSUME NEW k \in prunes[epoch] PROVE lastIn[k].epoch + EpochsUntilUnbonded < epoch + 1
    BY <1>2, Zenon
  <2>1. lastIn[k].epoch + EpochsUntilUnbonded <= epoch /\ k \in Keys
    BY <1>1, Zenon DEF ReachInv, Timely
  <2> QED
    <3>1. lastIn[k].epoch \in Nat /\ epoch \in Nat /\ EpochsUntilUnbonded \in Nat
      BY <2>1, ReachTypes, Constants, Zenon
    <3>2. \A l, u, e \in Nat : l + u <= e => l + u < e + 1
      OBVIOUS
    <3> QED
      BY <2>1, <3>1, <3>2, Zenon
<1>7. \A e \in Slots, k \in Keys :
        lastIn'[k].operator \in optOuts'[e] => lastIn'[k].epoch + EpochsUntilUnbonded <= e
  BY <1>2, <1>3, Zenon DEF ReachInv, Timely
<1>8. \A k \in Keys :
        lastIn'[k].operator \in pendingOptOuts' => lastIn'[k].epoch + EpochsUntilUnbonded < epoch'
  <2> SUFFICES ASSUME NEW k \in Keys, lastIn[k].operator \in optOuts[epoch]
               PROVE  lastIn[k].epoch + EpochsUntilUnbonded < epoch + 1
    BY <1>2
  <2>1. lastIn[k].epoch + EpochsUntilUnbonded <= epoch
    BY <1>1, Zenon DEF ReachInv, Timely
  <2> QED
    BY <2>1, ReachTypes, Constants
<1>9. Timely'
  BY <1>4, <1>5, <1>6, <1>7, <1>8, Zenon DEF Timely
<1>10. InfractionsReachOperator'
  <2> SUFFICES ASSUME NEW k \in Keys, lastIn[k] # NeverIn,
                      lastIn[k].epoch + EpochsUntilUnbonded >= epoch + 1
               PROVE  operatorOf[k] = lastIn[k].operator /\ key[operatorOf[k]] # None
    BY <1>2 DEF InfractionsReachOperator
  <2>1. lastIn[k].epoch + EpochsUntilUnbonded >= epoch
    BY ReachTypes, Constants
  <2> QED
    BY <2>1, Zenon DEF ReachInv, InfractionsReachOperator
<1> QED
  BY <1>9, <1>10, Zenon DEF ReachInv

\* EndBlock forgets only keys that have been out for the unbonding period.
LEMMA EndBlockReach ==
  ASSUME KeyInv, ReachInv, EndBlock
  PROVE  ReachInv'
<1>1. /\ \A o \in Operators : key'[o] = IF o \in pendingOptOuts THEN None ELSE key[o]
      /\ optOuts' = optOuts /\ prunes' = prunes /\ pendingOptOuts' = {} /\ pendingPrunes' = {}
      /\ \A k \in Keys : operatorOf'[k] = IF k \in pendingPrunes THEN None ELSE operatorOf[k]
  BY EndBlockKeys, Zenon
<1>2. \A k \in Keys :
        \/ lastIn'[k] = lastIn[k]
        \/ \E o \in Operators : /\ key[o] = k /\ IsOptedInAndNotJailed(o)
                                /\ lastIn'[k] = [epoch |-> epoch, operator |-> o]
  BY EndBlockValidators, Zenon
<1>3. epoch' = epoch
  BY Zenon DEF EndBlock
<1>4. ASSUME NEW o \in Operators, IsOptedInAndNotJailed(o)
      PROVE  /\ key[o] # None /\ o \notin pendingOptOuts /\ key[o] \notin pendingPrunes
             /\ \A e \in Slots : o \notin optOuts[e] /\ key[o] \notin prunes[e]
  <2>1. key[o] # None /\ o \notin removing
    BY <1>4 DEF IsOptedInAndNotJailed, KeyInv, Keyed
  <2> QED
    BY <2>1, Zenon DEF KeyInv, Scheduled
<1>5. \A k \in Keys : /\ lastIn'[k].epoch <= epoch
                      /\ lastIn'[k] # NeverIn => lastIn'[k].operator \in Operators
  <2> SUFFICES ASSUME NEW k \in Keys
               PROVE  /\ lastIn'[k].epoch <= epoch
                      /\ lastIn'[k] # NeverIn => lastIn'[k].operator \in Operators
    OBVIOUS
  <2>1. CASE lastIn'[k] = lastIn[k]
    BY <2>1 DEF ReachInv, Timely
  <2>2. ASSUME NEW o \in Operators, lastIn'[k] = [epoch |-> epoch, operator |-> o]
        PROVE  lastIn'[k].epoch <= epoch /\ lastIn'[k].operator \in Operators
    BY <2>2, ReachTypes
  <2> QED
    BY <1>2, <2>1, <2>2, Zenon
<1>6. \A e \in Slots : \A k \in prunes[e] : lastIn'[k].epoch + EpochsUntilUnbonded <= e
  <2> SUFFICES ASSUME NEW e \in Slots, NEW k \in prunes[e]
               PROVE  lastIn'[k].epoch + EpochsUntilUnbonded <= e
    OBVIOUS
  <2>1. k \in Keys
    BY ReachTypes
  <2>2. ASSUME NEW o \in Operators, key[o] = k, IsOptedInAndNotJailed(o) PROVE FALSE
    BY <1>4, <2>2
  <2>3. lastIn'[k] = lastIn[k]
    BY <1>2, <2>1, <2>2, Zenon
  <2> QED
    BY <2>3, Zenon DEF ReachInv, Timely
<1>7. \A e \in Slots, k \in Keys :
        lastIn'[k].operator \in optOuts[e] => lastIn'[k].epoch + EpochsUntilUnbonded <= e
  <2> SUFFICES ASSUME NEW e \in Slots, NEW k \in Keys, lastIn'[k].operator \in optOuts[e]
               PROVE  lastIn'[k].epoch + EpochsUntilUnbonded <= e
    BY Zenon
  <2>1. ASSUME NEW o \in Operators, IsOptedInAndNotJailed(o),
               lastIn'[k] = [epoch |-> epoch, operator |-> o]
        PROVE  FALSE
    <3>1. lastIn'[k].operator = o
      BY <2>1
    <3> QED
      BY <1>4, <2>1, <3>1, Zenon
  <2>2. lastIn'[k] = lastIn[k]
    BY <1>2, <2>1, Zenon
  <2> QED
    BY <2>2, Zenon DEF ReachInv, Timely
<1>8. Timely'
  BY <1>1, <1>3, <1>5, <1>6, <1>7, Zenon DEF Timely
<1>9. InfractionsReachOperator'
  <2> SUFFICES ASSUME NEW k \in Keys, lastIn'[k] # NeverIn, lastIn'[k].epoch + EpochsUntilUnbonded >= epoch
               PROVE  operatorOf'[k] = lastIn'[k].operator /\ key'[operatorOf'[k]] # None
    BY <1>3, Zenon DEF InfractionsReachOperator
  <2>1. CASE lastIn'[k] = lastIn[k]
    <3>1. operatorOf[k] = lastIn[k].operator /\ key[operatorOf[k]] # None /\ operatorOf[k] \in Operators
      BY <2>1, Zenon DEF ReachInv, Timely, InfractionsReachOperator
    <3>2. k \notin pendingPrunes /\ operatorOf[k] \notin pendingOptOuts
      BY <2>1, <3>1, ReachTypes, Constants DEF ReachInv, Timely
    <3> QED
      BY <1>1, <2>1, <3>1, <3>2, Zenon
  <2>2. ASSUME NEW o \in Operators, key[o] = k, IsOptedInAndNotJailed(o),
               lastIn'[k] = [epoch |-> epoch, operator |-> o]
        PROVE  operatorOf'[k] = lastIn'[k].operator /\ key'[operatorOf'[k]] # None
    <3>1. key[o] # None /\ o \notin pendingOptOuts /\ k \notin pendingPrunes
      BY <1>4, <2>2, Zenon
    <3>2. operatorOf[k] = o
      BY <2>2, <3>1, Zenon DEF KeyInv, KeysHaveOneOperator
    <3> QED
      BY <1>1, <2>2, <3>1, <3>2
  <2> QED
    BY <1>2, <2>1, <2>2, Zenon
<1> QED
  BY <1>8, <1>9 DEF ReachInv

\* Every action keeps the invariant of the keys' reach.
LEMMA NextReach == KeyInv /\ ReachInv /\ [Next]_vars => ReachInv'
<1> SUFFICES ASSUME KeyInv, ReachInv, [Next]_vars PROVE ReachInv'
  OBVIOUS
<1>1. ASSUME UNCHANGED <<epoch, prunes, pendingPrunes, optOuts, pendingOptOuts, lastIn, operatorOf, key>>
      PROVE  ReachInv'
  BY <1>1, Zenon DEF ReachInv, Timely, InfractionsReachOperator
<1>2. ASSUME NEW o \in Operators, NEW k \in Keys, OptInWithConsKey(o, k) PROVE ReachInv'
  BY <1>2, SetKeyReach, Zenon DEF OptInWithConsKey
<1>3. ASSUME NEW o \in Operators, NEW k \in Keys, SetConsKey(o, k) PROVE ReachInv'
  BY <1>3, SetKeyReach, Zenon DEF SetConsKey
<1>4. ASSUME NEW o \in Operators, OptOut(o) PROVE ReachInv'
  BY <1>4, OptOutReach
<1>5. ASSUME NEW k \in Keys, Downtime(k) PROVE ReachInv'
  BY <1>1, <1>5, Zenon DEF Downtime, scheduleVars
<1>6. ASSUME NEW k \in Keys, DoubleSign(k) PROVE ReachInv'
  BY <1>1, <1>6, Zenon DEF DoubleSign, scheduleVars
<1>7. ASSUME NEW o \in Operators, SlashElsewhere(o) PROVE ReachInv'
  BY <1>1, <1>7, Zenon DEF SlashElsewhere, scheduleVars, history
<1>8. ASSUME NEW o \in Operators, Unjail(o) PROVE ReachInv'
  BY <1>1, <1>8, Zenon DEF Unjail, scheduleVars, history
<1>9. ASSUME NEW o \in Operators, UnfreezeOperator(o) PROVE ReachInv'
  BY <1>1, <1>9, Zenon DEF UnfreezeOperator, scheduleVars, history
<1>10. ASSUME AfterEpochEnd PROVE ReachInv'
  BY <1>10, AfterEpochEndReach
<1>11. ASSUME EndBlock PROVE ReachInv'
  BY <1>11, EndBlockReach
<1>12. CASE UNCHANGED vars
  BY <1>1, <1>12, Zenon DEF vars, operatorVars, scheduleVars, history
<1>13. ASSUME NEW k \in Keys, NEW malicious \in BOOLEAN, OracleJail(k, malicious) PROVE ReachInv'
  BY <1>1, <1>13, Zenon DEF OracleJail, scheduleVars
<1> QED
  BY <1>2, <1>3, <1>4, <1>5, <1>6, <1>7, <1>8, <1>9, <1>10, <1>11, <1>12, <1>13, Zenon DEF Next

\* Evidence that is not older than the unbonding period reaches the operator
\* whose key it names, for every unbonding period and whatever keys were
\* replaced, dropped and taken again since (GetOperatorAddressForChainIDAndConsAddr
\* as x/evidence uses it).
THEOREM EvidenceReaches == Spec => []InfractionsReachOperator
<1>1. Init => ReachInv
  BY InitReach
<1>2. KeyInv /\ ReachInv /\ [Next]_vars => ReachInv'
  BY NextReach
<1>3. ReachInv => InfractionsReachOperator
  BY DEF ReachInv
<1> QED
  BY <1>1, <1>2, <1>3, KeysInvariant, PTL DEF Spec
-----------------------------------------------------------------------------
(* Whoever is punished or has left holds no power.                         *)

\* The genesis validators are in, unpunished and known.
LEMMA InitPower == Init => PowerInv
<1> SUFFICES ASSUME Init PROVE PowerInv
  OBVIOUS
<1>1. PICK f \in Injection(Genesis, Keys) :
       /\ operatorOf = [k \in Keys |-> IF k \in Range(f) THEN AntiFunction(f)[k] ELSE None]
       /\ validators = [k \in Keys |-> IF k \in Range(f) THEN 1 ELSE 0]
  BY Zenon DEF Init
<1>2. \A k \in Range(f) : AntiFunction(f)[k] \in Genesis
  BY InverseOf, Zenon
<1>3. ValidatorsKnown
  BY <1>1, <1>2, Constants DEF ValidatorsKnown
<1>4. OptOutTakesEffect
  BY Zenon DEF Init, OptOutTakesEffect
<1>5. PunishedHoldNoPower
  BY Zenon DEF Init, PunishedHoldNoPower
<1>6. OptOutsPast
  <2>1. 0 <= 1
    OBVIOUS
  <2> QED
    BY <2>1, Zenon DEF Init, OptOutsPast
<1> QED
  BY <1>3, <1>4, <1>5, <1>6 DEF PowerInv

\* A new key is no validator's yet.
LEMMA SetKeyPower ==
  ASSUME KeyInv, PowerInv, NEW o \in Operators, NEW k \in Keys, SetOperatorConsKey(o, k),
         UNCHANGED <<epoch, validators, updateFlag, jailed, frozen, outEpoch>>,
         opted' \in [Operators -> {"never", "in", "out"}], opted'[o] = "in",
         \A p \in Operators \ {o} : opted'[p] = opted[p]
  PROVE  PowerInv'
<1>1. /\ operatorOf[k] = None /\ operatorOf'[k] = o /\ key'[o] = k
      /\ \A p \in Operators \ {o} : key'[p] = key[p]
      /\ \A x \in Keys \ {k} : operatorOf'[x] = operatorOf[x]
  BY SetKeyFacts, ZenonT(60) DEF KeyInv
<1>2. validators \in [Keys -> Nat] /\ key \in [Operators -> Keys \cup {None}]
  BY DEF KeyInv, Types
<1>3. validators[k] = 0
  <2>1. ~(validators[k] > 0) /\ validators[k] \in Nat
    BY <1>1, <1>2, Zenon DEF PowerInv, ValidatorsKnown
  <2> QED
    BY <2>1
<1>4. ValidatorsKnown'
  <2> SUFFICES ASSUME NEW x \in Keys, validators[x] > 0 PROVE operatorOf'[x] # None
    BY Zenon DEF ValidatorsKnown
  <2>1. operatorOf[x] # None
    BY Zenon DEF PowerInv, ValidatorsKnown
  <2> QED
    BY <1>1, <2>1, Constants, Zenon
<1>5. OptOutTakesEffect'
  <2> SUFFICES ASSUME ~updateFlag, NEW p \in Operators, opted'[p] = "out", outEpoch[p] < epoch,
                      NEW x \in Keys, operatorOf'[x] = p
               PROVE  validators[x] = 0
    BY Zenon DEF OptOutTakesEffect
  <2>1. p # o /\ opted[p] = "out" /\ x # k
    BY <1>1, Zenon
  <2> QED
    BY <1>1, <2>1, Zenon DEF PowerInv, OptOutTakesEffect
<1>6. PunishedHoldNoPower'
  <2> SUFFICES ASSUME ~updateFlag, NEW p \in Operators, key'[p] # None, validators[key'[p]] > 0
               PROVE  p \notin jailed \cup frozen
    BY Zenon DEF PunishedHoldNoPower
  <2>1. ~(0 > 0)
    OBVIOUS
  <2>2. p # o
    BY <1>1, <1>3, <2>1, Zenon
  <2> QED
    BY <1>1, <2>2, Zenon DEF PowerInv, PunishedHoldNoPower
<1>7. OptOutsPast'
  BY Zenon DEF PowerInv, OptOutsPast
<1> QED
  BY <1>4, <1>5, <1>6, <1>7, Zenon DEF PowerInv

\* Jailing or freezing an operator asks for an update, unless its current key
\* is no validator's.
LEMMA PunishPower ==
  ASSUME KeyInv, PowerInv, NEW o \in Operators,
         UNCHANGED <<epoch, opted, key, operatorOf, validators, outEpoch>>,
         jailed' \cup frozen' \subseteq jailed \cup frozen \cup {o}, updateFlag => updateFlag',
         ChangesSet(o) /\ o \notin jailed \cup frozen => updateFlag'
  PROVE  PowerInv'
<1>1. /\ opted \in [Operators -> {"never", "in", "out"}] /\ outEpoch \in [Operators -> Nat]
      /\ key \in [Operators -> Keys \cup {None}] /\ epoch \in Nat
      /\ validators \in [Keys -> Nat]
  BY SlotsCover, Zenon DEF KeyInv, Types
<1>2. ValidatorsKnown'
  BY DEF PowerInv, ValidatorsKnown
<1>3. OptOutTakesEffect'
  BY Zenon DEF PowerInv, OptOutTakesEffect
<1>4. PunishedHoldNoPower'
  <2> SUFFICES ASSUME ~updateFlag', NEW p \in Operators, key[p] # None, validators[key[p]] > 0,
                      p \in jailed' \cup frozen'
               PROVE  FALSE
    BY Zenon DEF PunishedHoldNoPower
  <2>1. ~updateFlag
    BY Zenon
  <2>2. p \notin jailed \cup frozen
    BY <2>1, Zenon DEF PowerInv, PunishedHoldNoPower
  <2>3. p = o
    BY <2>2
  <2>4. ~ChangesSet(o)
    BY <2>2, <2>3, Zenon
  <2>5. ~IsImpactful(o)
    BY <2>3, <2>4, Zenon DEF ChangesSet
  <2>6. opted[o] = "out" /\ outEpoch[o] # epoch
    BY <1>1, <2>3, <2>5, Zenon DEF IsImpactful, KeyInv, Keyed
  <2>7. key[o] \in Keys /\ operatorOf[key[o]] = o
    BY <1>1, <2>3 DEF KeyInv, KeysHaveOneOperator
  <2>8. outEpoch[o] < epoch
    BY <1>1, <2>6 DEF PowerInv, OptOutsPast
  <2> QED
    BY <2>1, <2>3, <2>6, <2>7, <2>8 DEF PowerInv, OptOutTakesEffect
<1>5. OptOutsPast'
  BY DEF PowerInv, OptOutsPast
<1> QED
  BY <1>2, <1>3, <1>4, <1>5, Zenon DEF PowerInv

\* An operator that opts out has the rest of the epoch.
LEMMA OptOutPower ==
  ASSUME KeyInv, PowerInv, NEW o \in Operators, OptOut(o)
  PROVE  PowerInv'
<1>1. /\ opted' = [opted EXCEPT ![o] = "out"] /\ outEpoch' = [outEpoch EXCEPT ![o] = epoch]
      /\ UNCHANGED <<epoch, key, operatorOf, validators, jailed, frozen, updateFlag>>
  BY Zenon DEF OptOut
<1>2. /\ opted \in [Operators -> {"never", "in", "out"}] /\ outEpoch \in [Operators -> Nat] /\ epoch \in Nat
  BY SlotsCover, Zenon DEF KeyInv, Types
<1>3. OptOutsPast'
  BY <1>1, <1>2 DEF PowerInv, OptOutsPast
<1>4. OptOutTakesEffect'
  <2> SUFFICES ASSUME ~updateFlag, NEW p \in Operators, opted'[p] = "out", outEpoch'[p] < epoch
               PROVE  \A x \in Keys : operatorOf[x] = p => validators[x] = 0
    BY <1>1, Zenon DEF OptOutTakesEffect
  <2>1. p # o /\ opted[p] = "out" /\ outEpoch[p] < epoch
    BY <1>1, <1>2
  <2> QED
    BY <2>1, Zenon DEF PowerInv, OptOutTakesEffect
<1>5. ValidatorsKnown'
  BY <1>1 DEF PowerInv, ValidatorsKnown
<1>6. PunishedHoldNoPower'
  BY <1>1, Zenon DEF PowerInv, PunishedHoldNoPower
<1> QED
  BY <1>3, <1>4, <1>5, <1>6 DEF PowerInv

\* EndBlock gives power to operators that are in and not punished.
LEMMA EndBlockPower ==
  ASSUME KeyInv, PowerInv, EndBlock
  PROVE  PowerInv'
<1>1. UNCHANGED <<epoch, opted, jailed, frozen, outEpoch>>
  BY Zenon DEF EndBlock
<1>2. ASSUME NEW k \in Keys, validators'[k] > 0
      PROVE  \E o \in Operators : key[o] = k /\ IsOptedInAndNotJailed(o) /\ operatorOf'[k] = o
  <2>1. PICK o \in Operators : key[o] = k /\ IsOptedInAndNotJailed(o)
    BY <1>2, EndBlockValidators, Zenon
  <2>2. key[o] # None /\ o \notin removing
    BY <2>1, Zenon DEF IsOptedInAndNotJailed, KeyInv, Keyed
  <2>3. operatorOf[k] = o /\ k \notin pendingPrunes
    BY <2>1, <2>2, Zenon DEF KeyInv, KeysHaveOneOperator, Scheduled
  <2>4. operatorOf'[k] = o
    BY <2>3, EndBlockKeys, Zenon
  <2> QED
    BY <2>1, <2>4, Zenon
<1>3. validators' \in [Keys -> Nat] /\ key' \in [Operators -> Keys \cup {None}]
  BY EndBlockValidators, EndBlockKeys, Zenon
<1>4. ValidatorsKnown'
  BY <1>2, Constants DEF ValidatorsKnown
<1>5. OptOutsPast'
  BY <1>1, Zenon DEF PowerInv, OptOutsPast
<1>6. OptOutTakesEffect'
  <2> SUFFICES ASSUME NEW p \in Operators, opted[p] = "out", NEW k \in Keys, operatorOf'[k] = p,
                      validators'[k] # 0
               PROVE  FALSE
    BY <1>1 DEF OptOutTakesEffect
  <2>1. validators'[k] > 0
    BY <1>3
  <2> QED
    BY <1>2, <2>1, Zenon DEF IsOptedInAndNotJailed
<1>7. PunishedHoldNoPower'
  <2> SUFFICES ASSUME NEW p \in Operators, key'[p] # None, validators'[key'[p]] > 0
               PROVE  p \notin jailed \cup frozen
    BY <1>1 DEF PunishedHoldNoPower
  <2>1. key'[p] \in Keys
    BY <1>3
  <2>2. operatorOf'[key'[p]] = p
    BY EndBlockSchedules DEF KeysHaveOneOperator
  <2> QED
    BY <1>2, <2>1, <2>2 DEF IsOptedInAndNotJailed
<1> QED
  BY <1>4, <1>5, <1>6, <1>7 DEF PowerInv

\* Every action keeps the invariant of the powers.
LEMMA NextPower == KeyInv /\ PowerInv /\ [Next]_vars => PowerInv'
<1> SUFFICES ASSUME KeyInv, PowerInv, [Next]_vars PROVE PowerInv'
  OBVIOUS
<1>1. ASSUME UNCHANGED <<epoch, opted, key, operatorOf, validators, jailed, frozen, outEpoch>>,
             updateFlag => updateFlag'
      PROVE  PowerInv'
  <2>1. ValidatorsKnown' /\ OptOutsPast'
    BY <1>1 DEF PowerInv, ValidatorsKnown, OptOutsPast
  <2>2. OptOutTakesEffect'
    BY <1>1, Zenon DEF PowerInv, OptOutTakesEffect
  <2>3. PunishedHoldNoPower'
    BY <1>1, Zenon DEF PowerInv, PunishedHoldNoPower
  <2> QED
    BY <2>1, <2>2, <2>3 DEF PowerInv
<1>2. ASSUME NEW o \in Operators, NEW k \in Keys, OptInWithConsKey(o, k) PROVE PowerInv'
  <2>1. /\ SetOperatorConsKey(o, k) /\ opted' = [opted EXCEPT ![o] = "in"]
        /\ UNCHANGED <<epoch, validators, updateFlag, jailed, frozen, outEpoch>>
    BY <1>2, Zenon DEF OptInWithConsKey
  <2>2. opted \in [Operators -> {"never", "in", "out"}]
    BY DEF KeyInv, Types
  <2>3. /\ opted' \in [Operators -> {"never", "in", "out"}] /\ opted'[o] = "in"
        /\ \A p \in Operators \ {o} : opted'[p] = opted[p]
    BY <2>1, <2>2
  <2> QED
    BY <2>1, <2>3, SetKeyPower
<1>3. ASSUME NEW o \in Operators, NEW k \in Keys, SetConsKey(o, k) PROVE PowerInv'
  <2>1. /\ SetOperatorConsKey(o, k) /\ opted[o] = "in" /\ opted' = opted
        /\ UNCHANGED <<epoch, validators, updateFlag, jailed, frozen, outEpoch>>
    BY <1>3, Zenon DEF SetConsKey
  <2>2. opted \in [Operators -> {"never", "in", "out"}]
    BY DEF KeyInv, Types
  <2> QED
    BY <2>1, <2>2, SetKeyPower
<1>4. ASSUME NEW o \in Operators, OptOut(o) PROVE PowerInv'
  BY <1>4, OptOutPower
<1>5. ASSUME NEW k \in Keys, Downtime(k) PROVE PowerInv'
  <2>1. UNCHANGED <<epoch, opted, frozen, key, operatorOf, validators, outEpoch>>
    BY <1>5, Zenon DEF Downtime
  <2>2. /\ operatorOf[k] \in Operators /\ jailed' = jailed \cup {operatorOf[k]}
        /\ updateFlag' = (updateFlag \/ ChangesSet(operatorOf[k]))
    BY <1>5, DowntimeFacts, Zenon DEF KeyInv
  <2>3. jailed' \cup frozen' \subseteq jailed \cup frozen \cup {operatorOf[k]}
    BY <2>1, <2>2
  <2> QED
    BY <2>1, <2>2, <2>3, PunishPower, Zenon
<1>6. ASSUME NEW k \in Keys, DoubleSign(k) PROVE PowerInv'
  <2>1. UNCHANGED <<epoch, opted, key, operatorOf, validators, outEpoch>>
    BY <1>6, Zenon DEF DoubleSign
  <2>2. /\ operatorOf[k] \in Operators
        /\ jailed' = jailed \cup {operatorOf[k]} /\ frozen' = frozen \cup {operatorOf[k]}
        /\ \/ updateFlag' = (updateFlag \/ ChangesSet(operatorOf[k]))
           \/ updateFlag' = (updateFlag \/ (operatorOf[k] \notin jailed /\ ChangesSet(operatorOf[k])))
    BY <1>6, DoubleSignFacts, Zenon DEF KeyInv
  <2>3. jailed' \cup frozen' \subseteq jailed \cup frozen \cup {operatorOf[k]}
    BY <2>2
  <2>4. /\ updateFlag => updateFlag'
        /\ ChangesSet(operatorOf[k]) /\ operatorOf[k] \notin jailed \cup frozen => updateFlag'
    BY <2>2, Zenon
  <2> QED
    BY <2>1, <2>2, <2>3, <2>4, PunishPower, Zenon
<1>7. ASSUME NEW o \in Operators, SlashElsewhere(o) PROVE PowerInv'
  BY <1>1, <1>7, Zenon DEF SlashElsewhere, history
<1>8. ASSUME NEW o \in Operators, Unjail(o) PROVE PowerInv'
  <2>1. /\ UNCHANGED <<epoch, opted, frozen, key, operatorOf, validators, outEpoch>>
        /\ jailed' = jailed \ {o} /\ updateFlag' = (updateFlag \/ IsImpactful(o))
        /\ o \in jailed
    BY <1>8, Zenon DEF Unjail, history
  <2>2. jailed' \cup frozen' \subseteq jailed \cup frozen \cup {o}
    BY <2>1
  <2> QED
    BY <2>1, <2>2, PunishPower, Zenon
<1>9. ASSUME NEW o \in Operators, UnfreezeOperator(o) PROVE PowerInv'
  <2>1. /\ UNCHANGED <<epoch, opted, jailed, key, operatorOf, validators, outEpoch, updateFlag>>
        /\ frozen' = frozen \ {o} /\ o \in frozen
    BY <1>9, Zenon DEF UnfreezeOperator, history
  <2>2. jailed' \cup frozen' \subseteq jailed \cup frozen \cup {o}
    BY <2>1
  <2> QED
    BY <2>1, <2>2, PunishPower, Zenon
<1>10. ASSUME AfterEpochEnd PROVE PowerInv'
  <2>1. /\ epoch' = epoch + 1 /\ updateFlag' = TRUE
        /\ UNCHANGED <<opted, key, operatorOf, validators, outEpoch>>
    BY <1>10, Zenon DEF AfterEpochEnd, history
  <2>2. OptOutsPast'
    <3>1. outEpoch \in [Operators -> Nat] /\ epoch \in Nat
      BY SlotsCover DEF KeyInv, Types
    <3> QED
      BY <2>1, <3>1 DEF PowerInv, OptOutsPast
  <2>3. ValidatorsKnown'
    BY <2>1 DEF PowerInv, ValidatorsKnown
  <2>4. OptOutTakesEffect' /\ PunishedHoldNoPower'
    BY <2>1, Zenon DEF OptOutTakesEffect, PunishedHoldNoPower
  <2> QED
    BY <2>2, <2>3, <2>4 DEF PowerInv
<1>11. ASSUME EndBlock PROVE PowerInv'
  BY <1>11, EndBlockPower
<1>12. CASE UNCHANGED vars
  BY <1>1, <1>12, Zenon DEF vars, operatorVars, history
<1>13. ASSUME NEW k \in Keys, NEW malicious \in BOOLEAN, OracleJail(k, malicious) PROVE PowerInv'
  <2>1. UNCHANGED <<epoch, opted, frozen, key, operatorOf, validators, outEpoch>>
    BY <1>13, Zenon DEF OracleJail
  <2>2. /\ operatorOf[k] \in Operators /\ jailed' = jailed \cup {operatorOf[k]}
        /\ updateFlag' = (updateFlag \/ ChangesSet(operatorOf[k]))
    BY <1>13, OracleJailFacts, Zenon DEF KeyInv
  <2>3. jailed' \cup frozen' \subseteq jailed \cup frozen \cup {operatorOf[k]}
    BY <2>1, <2>2
  <2> QED
    BY <2>1, <2>2, <2>3, PunishPower, Zenon
<1> QED
  BY <1>2, <1>3, <1>4, <1>5, <1>6, <1>7, <1>8, <1>9, <1>10, <1>11, <1>12, <1>13, Zenon DEF Next

\* The invariant of the powers holds throughout.
LEMMA PowerInvariant == Spec => []PowerInv
<1>1. Init => PowerInv
  BY InitPower
<1>2. KeyInv /\ PowerInv /\ [Next]_vars => PowerInv'
  BY NextPower
<1> QED
  BY <1>1, <1>2, KeysInvariant, PTL DEF Spec

\* Once a block has ended without a change left for the next one, no jailed or
\* frozen operator has voting power with the key it now uses:
\* afterStakingOrJailChange skips no operator it should not.
THEOREM NoPowerForPunished == Spec => []PunishedHoldNoPower
<1>1. PowerInv => PunishedHoldNoPower
  BY DEF PowerInv
<1> QED
  BY <1>1, PowerInvariant, PTL

\* An operator that opted out has no power with any key that leads to it from
\* the next epoch on (OptOut, EndBlock).
THEOREM NoPowerAfterOptOut == Spec => []OptOutTakesEffect
<1>1. PowerInv => OptOutTakesEffect
  BY DEF PowerInv
<1> QED
  BY <1>1, PowerInvariant, PTL
-----------------------------------------------------------------------------
(* The jail and the tombstones.                                            *)

\* Nobody is jailed at genesis.
LEMMA InitJail == Init => JailInv
<1> SUFFICES ASSUME Init PROVE JailInv
  OBVIOUS
<1>1. \A k \in Keys : info[k] = Clean \/ info[k] = NoInfo
  BY Zenon DEF Init
<1>2. TombstonesOwned
  <2>1. ~NoInfo.tombstoned /\ ~Clean.tombstoned
    BY Zenon DEF NoInfo, Clean
  <2> QED
    BY <1>1, <2>1, Zenon DEF TombstonesOwned
<1>3. JailTermServed
  <2>1. epoch = 1 /\ \A o \in Operators : sentence[o] = 0
    BY Zenon DEF Init
  <2> QED
    BY <2>1 DEF JailTermServed
<1>4. SentenceRecorded
  BY ZenonT(30) DEF Init, SentenceRecorded
<1> QED
  BY <1>2, <1>3, <1>4, Zenon DEF JailInv

\* A new key takes over the signing info of the replaced one.
LEMMA SetKeyJail ==
  ASSUME KeyInv, JailInv, NEW o \in Operators, NEW k \in Keys, SetOperatorConsKey(o, k),
         o \notin jailed \/ key[o] # None, UNCHANGED <<epoch, jailed, sentence, misfiled>>
  PROVE  JailInv'
<1>1. /\ operatorOf[k] = None /\ operatorOf'[k] = o /\ key'[o] = k
      /\ \A p \in Operators \ {o} : key'[p] = key[p]
      /\ \A x \in Keys \ {k} : operatorOf'[x] = operatorOf[x]
  BY SetKeyFacts, Zenon DEF KeyInv
<1>2. /\ \A x \in Keys \ {k} : info'[x] = info[x]
      /\ \/ o \in unhooked'
         \/ /\ unhooked' = unhooked /\ key[o] # None /\ ~info[k].tombstoned
            /\ info'[k] = IF info[key[o]].found THEN info[key[o]] ELSE Clean
         \/ unhooked' = unhooked /\ key[o] = None /\ ~info[k].tombstoned /\ info' = info
      /\ unhooked \subseteq unhooked'
  BY SetKeyInfos, Zenon DEF KeyInv
<1>3. key \in [Operators -> Keys \cup {None}] /\ jailed \subseteq Operators
  BY Zenon DEF KeyInv, Types
<1>4. JailTermServed'
  BY <1>2, Zenon DEF JailInv, JailTermServed
<1>5. SentenceRecorded'
  <2> SUFFICES ASSUME NEW p \in jailed, p \notin unhooked', p \notin misfiled, key'[p] # None
               PROVE  info'[key'[p]].found /\ info'[key'[p]].jailedUntil >= sentence[p]
    BY Zenon DEF SentenceRecorded
  <2>1. p \in Operators /\ p \notin unhooked
    BY <1>2, <1>3, Zenon
  <2>2. CASE p # o
    <3>1. key'[p] = key[p] /\ key[p] \in Keys /\ key[p] # k
      <4>1. key'[p] = key[p] /\ key[p] \in Keys
        BY <1>1, <1>3, <2>1, <2>2, ZenonT(60)
      <4>2. operatorOf[key[p]] = p /\ p # None
        BY <2>1, <4>1, Constants, Zenon DEF KeyInv, KeysHaveOneOperator
      <4> QED
        BY <1>1, <4>1, <4>2, Zenon
    <3> QED
      BY <1>2, <2>1, <3>1, Zenon DEF JailInv, SentenceRecorded
  <2>3. CASE p = o
    <3>1. info[key[o]].found /\ info[key[o]].jailedUntil >= sentence[o]
      BY <2>1, <2>3, Zenon DEF JailInv, SentenceRecorded
    <3>2. info'[k] = info[key[o]]
      BY <1>2, <2>3, <3>1, Zenon
    <3> QED
      BY <1>1, <2>3, <3>1, <3>2, Zenon
  <2> QED
    BY <2>2, <2>3, Zenon
<1>6. TombstonesOwned'
  <2> SUFFICES ASSUME NEW x \in Keys, info'[x].tombstoned, operatorOf'[x] \in Operators \ unhooked'
               PROVE  sentence[operatorOf'[x]] = Forever /\ operatorOf'[x] \notin misfiled
    BY Zenon DEF TombstonesOwned
  <2>1. CASE x # k
    <3>1. info[x].tombstoned /\ operatorOf'[x] = operatorOf[x] /\ operatorOf[x] \in Operators \ unhooked
      BY <1>1, <1>2, <2>1, Zenon
    <3> QED
      BY <3>1, Zenon DEF JailInv, TombstonesOwned
  <2>2. CASE x = k
    <3>1. o \notin unhooked /\ key[o] # None /\ info'[k] = IF info[key[o]].found THEN info[key[o]] ELSE Clean
      BY <1>1, <1>2, <2>2, Zenon
    <3>2. info[key[o]].tombstoned
      BY <2>2, <3>1, Zenon DEF Clean, NoInfo
    <3>3. key[o] \in Keys /\ operatorOf[key[o]] = o
      BY <1>3, <3>1, Zenon DEF KeyInv, KeysHaveOneOperator
    <3> QED
      BY <1>1, <2>2, <3>1, <3>2, <3>3, Zenon DEF JailInv, TombstonesOwned
  <2> QED
    BY <2>1, <2>2, Zenon
<1> QED
  BY <1>4, <1>5, <1>6, Zenon DEF JailInv

\* A double signer never leaves jail, so it is not found down again, which
\* would shorten its sentence.
LEMMA DowntimeJail ==
  ASSUME KeyInv, JailInv, NEW k \in Keys, Downtime(k)
  PROVE  JailInv'
<1> DEFINE o == operatorOf[k]
<1>1. /\ o \in Operators /\ o \notin jailed /\ key[o] \in Keys
      /\ info'[key[o]].found /\ info'[key[o]].jailedUntil = epoch + JailDuration
      /\ \A x \in {k, key[o]} : info'[x].tombstoned = info[k].tombstoned
      /\ \A x \in Keys \ {k, key[o]} : info'[x] = info[x]
      /\ sentence'[o] = epoch + JailDuration
      /\ \A p \in Operators \ {o} : sentence'[p] = sentence[p]
      /\ jailed' = jailed \cup {o}
  BY DowntimeFacts, Zenon DEF KeyInv
<1>2. misfiled' = misfiled \ {o} /\ UNCHANGED <<epoch, key, operatorOf, unhooked>>
  BY Zenon DEF Downtime
<1>3. /\ key \in [Operators -> Keys \cup {None}] /\ jailed \subseteq Operators
      /\ epoch \in 1 .. MaxEpoch
  BY Zenon DEF KeyInv, Types
<1>4. operatorOf[key[o]] = o /\ key[o] # None
  BY <1>1, Constants, Zenon DEF KeyInv, KeysHaveOneOperator
<1>5. ASSUME NEW x \in Keys, operatorOf[x] = o, o \notin unhooked
      PROVE  ~info[x].tombstoned
  <2> SUFFICES ASSUME info[x].tombstoned PROVE FALSE
    OBVIOUS
  <2>1. sentence[o] = Forever /\ o \notin misfiled
    BY <1>1, <1>5, Zenon DEF JailInv, TombstonesOwned
  <2>2. epoch >= sentence[o]
    BY <1>1, <1>5, <2>1, Zenon DEF JailInv, JailTermServed
  <2>3. \A e, n, f \in Nat : e \in 1 .. n /\ f > n => ~(e >= f)
    OBVIOUS
  <2>4. epoch \in Nat
    BY <1>3
  <2> QED
    BY <1>3, <2>1, <2>2, <2>3, <2>4, Constants, Zenon
<1>6. JailTermServed'
  BY <1>1, <1>2, Zenon DEF JailInv, JailTermServed
<1>7. SentenceRecorded'
  <2> SUFFICES ASSUME NEW p \in jailed', p \notin unhooked, p \notin misfiled', key[p] # None
               PROVE  info'[key[p]].found /\ info'[key[p]].jailedUntil >= sentence'[p]
    BY <1>2, Zenon DEF SentenceRecorded
  <2>1. CASE p = o
    BY <1>1, <1>3, <2>1, Constants
  <2>2. CASE p # o
    <3>1. p \in jailed /\ p \in Operators /\ key[p] \in Keys
      BY <1>1, <1>3, <2>2, Zenon
    <3>2. key[p] # k /\ key[p] # key[o]
      BY <1>4, <2>2, <3>1, Zenon DEF KeyInv, KeysHaveOneOperator
    <3>3. info'[key[p]] = info[key[p]] /\ sentence'[p] = sentence[p] /\ p \notin misfiled
      BY <1>1, <1>2, <2>2, <3>1, <3>2, Zenon
    <3>4. info[key[p]].found /\ info[key[p]].jailedUntil >= sentence[p]
      BY <3>1, <3>3, Zenon DEF JailInv, SentenceRecorded
    <3> QED
      BY <3>3, <3>4, Zenon
  <2> QED
    BY <2>1, <2>2, Zenon
<1>8. TombstonesOwned'
  <2> SUFFICES ASSUME NEW x \in Keys, info'[x].tombstoned, operatorOf[x] \in Operators \ unhooked
               PROVE  sentence'[operatorOf[x]] = Forever /\ operatorOf[x] \notin misfiled'
    BY <1>2, Zenon DEF TombstonesOwned
  <2>1. CASE operatorOf[x] = o
    <3>1. ~info[x].tombstoned /\ ~info[k].tombstoned
      BY <1>5, <2>1, Zenon
    <3> QED
      BY <1>1, <3>1, Zenon
  <2>2. CASE operatorOf[x] # o
    <3>1. x # k /\ x # key[o]
      BY <1>4, <2>2, Zenon
    <3>2. info'[x] = info[x] /\ sentence'[operatorOf[x]] = sentence[operatorOf[x]]
      BY <1>1, <2>2, <3>1, Zenon
    <3>3. sentence[operatorOf[x]] = Forever /\ operatorOf[x] \notin misfiled
      BY <3>2, Zenon DEF JailInv, TombstonesOwned
    <3> QED
      BY <1>1, <1>2, <2>2, <3>2, <3>3, Zenon
  <2> QED
    BY <2>1, <2>2
<1> QED
  BY <1>6, <1>7, <1>8, Zenon DEF JailInv

\* Nor is it punished by x/oracle.  Whoever is and had replaced the key is
\* exempt from the invariant until it is jailed again.
LEMMA OracleJailJail ==
  ASSUME KeyInv, JailInv, NEW k \in Keys, NEW malicious \in BOOLEAN, OracleJail(k, malicious)
  PROVE  JailInv'
<1> DEFINE o == operatorOf[k]
<1>1. /\ o \in Operators /\ o \notin jailed /\ key[o] \in Keys
      /\ info'[k].found /\ info'[k].jailedUntil = sentence'[o] /\ sentence' \in [Operators -> Nat]
      /\ \A x \in {k, key[o]} : info'[x].tombstoned => info[k].tombstoned \/ info[key[o]].tombstoned
      /\ \A x \in Keys \ {k, key[o]} : info'[x] = info[x]
      /\ \A p \in Operators \ {o} : sentence'[p] = sentence[p]
      /\ jailed' = jailed \cup {o}
      /\ misfiled' = IF key[o] = k THEN misfiled \ {o} ELSE misfiled \cup {o}
  BY OracleJailFacts, ZenonT(60) DEF KeyInv
<1>2. UNCHANGED <<epoch, key, operatorOf, unhooked>>
  BY Zenon DEF OracleJail
<1>3. /\ key \in [Operators -> Keys \cup {None}] /\ jailed \subseteq Operators
      /\ epoch \in 1 .. MaxEpoch
  BY Zenon DEF KeyInv, Types
<1>4. operatorOf[key[o]] = o /\ key[o] # None
  BY <1>1, Constants, Zenon DEF KeyInv, KeysHaveOneOperator
<1>5. ASSUME NEW x \in Keys, operatorOf[x] = o, o \notin unhooked
      PROVE  ~info[x].tombstoned
  <2> SUFFICES ASSUME info[x].tombstoned PROVE FALSE
    OBVIOUS
  <2>1. sentence[o] = Forever /\ o \notin misfiled
    BY <1>1, <1>5, Zenon DEF JailInv, TombstonesOwned
  <2>2. epoch >= sentence[o]
    BY <1>1, <1>5, <2>1, Zenon DEF JailInv, JailTermServed
  <2>3. \A e, n, f \in Nat : e \in 1 .. n /\ f > n => ~(e >= f)
    OBVIOUS
  <2>4. epoch \in Nat
    BY <1>3
  <2> QED
    BY <1>3, <2>1, <2>2, <2>3, <2>4, Constants, Zenon
<1>6. JailTermServed'
  BY <1>1, <1>2, Zenon DEF JailInv, JailTermServed
<1>7. SentenceRecorded'
  <2> SUFFICES ASSUME NEW p \in jailed', p \notin unhooked, p \notin misfiled', key[p] # None
               PROVE  info'[key[p]].found /\ info'[key[p]].jailedUntil >= sentence'[p]
    BY <1>2, Zenon DEF SentenceRecorded
  <2>1. CASE p = o
    <3>1. key[o] = k
      BY <1>1, <2>1
    <3> QED
      BY <1>1, <2>1, <3>1
  <2>2. CASE p # o
    <3>1. p \in jailed /\ p \in Operators /\ key[p] \in Keys
      BY <1>1, <1>3, <2>2, Zenon
    <3>2. key[p] # k /\ key[p] # key[o]
      BY <1>4, <2>2, <3>1, Zenon DEF KeyInv, KeysHaveOneOperator
    <3>3. info'[key[p]] = info[key[p]] /\ sentence'[p] = sentence[p] /\ p \notin misfiled
      BY <1>1, <1>2, <2>2, <3>1, <3>2, Zenon
    <3>4. info[key[p]].found /\ info[key[p]].jailedUntil >= sentence[p]
      BY <3>1, <3>3, Zenon DEF JailInv, SentenceRecorded
    <3> QED
      BY <3>3, <3>4, Zenon
  <2> QED
    BY <2>1, <2>2, Zenon
<1>8. TombstonesOwned'
  <2> SUFFICES ASSUME NEW x \in Keys, info'[x].tombstoned, operatorOf[x] \in Operators \ unhooked
               PROVE  sentence'[operatorOf[x]] = Forever /\ operatorOf[x] \notin misfiled'
    BY <1>2, Zenon DEF TombstonesOwned
  <2>1. CASE operatorOf[x] = o
    <3>1. ~info[x].tombstoned /\ ~info[k].tombstoned /\ ~info[key[o]].tombstoned
      BY <1>1, <1>4, <1>5, <2>1, Zenon
    <3> QED
      BY <1>1, <3>1, Zenon
  <2>2. CASE operatorOf[x] # o
    <3>1. x # k /\ x # key[o]
      BY <1>4, <2>2, Zenon
    <3>2. info'[x] = info[x] /\ sentence'[operatorOf[x]] = sentence[operatorOf[x]]
      BY <1>1, <2>2, <3>1, Zenon
    <3>3. sentence[operatorOf[x]] = Forever /\ operatorOf[x] \notin misfiled
      BY <3>2, Zenon DEF JailInv, TombstonesOwned
    <3> QED
      BY <1>1, <1>2, <2>2, <3>2, <3>3, Zenon
  <2> QED
    BY <2>1, <2>2
<1> QED
  BY <1>6, <1>7, <1>8, Zenon DEF JailInv

\* A double signer is jailed for good and its keys are tombstoned.
LEMMA DoubleSignJail ==
  ASSUME KeyInv, JailInv, NEW k \in Keys, DoubleSign(k)
  PROVE  JailInv'
<1> DEFINE o == operatorOf[k]
<1>1. /\ o \in Operators /\ key[o] \in Keys
      /\ info'[key[o]].found /\ info'[key[o]].jailedUntil = Forever
      /\ \A x \in Keys \ {k, key[o]} : info'[x] = info[x]
      /\ sentence'[o] = Forever
      /\ \A p \in Operators \ {o} : sentence'[p] = sentence[p]
      /\ jailed' = jailed \cup {o}
  BY DoubleSignFacts, Zenon DEF KeyInv
<1>2. misfiled' = misfiled \ {o} /\ UNCHANGED <<epoch, key, operatorOf, unhooked>>
  BY Zenon DEF DoubleSign
<1>3. key \in [Operators -> Keys \cup {None}] /\ jailed \subseteq Operators
  BY Zenon DEF KeyInv, Types
<1>4. operatorOf[key[o]] = o /\ key[o] # None
  BY <1>1, Constants, Zenon DEF KeyInv, KeysHaveOneOperator
<1>5. JailTermServed'
  BY <1>1, <1>2, Zenon DEF JailInv, JailTermServed
<1>6. SentenceRecorded'
  <2> SUFFICES ASSUME NEW p \in jailed', p \notin unhooked, p \notin misfiled', key[p] # None
               PROVE  info'[key[p]].found /\ info'[key[p]].jailedUntil >= sentence'[p]
    BY <1>2, Zenon DEF SentenceRecorded
  <2>1. CASE p = o
    BY <1>1, <2>1, Constants
  <2>2. CASE p # o
    <3>1. p \in jailed /\ p \in Operators /\ key[p] \in Keys
      BY <1>1, <1>3, <2>2, Zenon
    <3>2. key[p] # k /\ key[p] # key[o]
      BY <1>4, <2>2, <3>1 DEF KeyInv, KeysHaveOneOperator
    <3>3. info'[key[p]] = info[key[p]] /\ sentence'[p] = sentence[p] /\ p \notin misfiled
      BY <1>1, <1>2, <2>2, <3>1, <3>2, Zenon
    <3>4. info[key[p]].found /\ info[key[p]].jailedUntil >= sentence[p]
      BY <3>1, <3>3, Zenon DEF JailInv, SentenceRecorded
    <3> QED
      BY <3>3, <3>4, Zenon
  <2> QED
    BY <2>1, <2>2
<1>7. TombstonesOwned'
  <2> SUFFICES ASSUME NEW x \in Keys, info'[x].tombstoned, operatorOf[x] \in Operators \ unhooked,
                      operatorOf[x] # o
               PROVE  sentence'[operatorOf[x]] = Forever /\ operatorOf[x] \notin misfiled'
    BY <1>1, <1>2, Zenon DEF TombstonesOwned
  <2>1. x # k /\ x # key[o]
    BY <1>4
  <2>2. info'[x] = info[x] /\ sentence'[operatorOf[x]] = sentence[operatorOf[x]]
    BY <1>1, <2>1, Zenon
  <2>3. sentence[operatorOf[x]] = Forever /\ operatorOf[x] \notin misfiled
    BY <2>2, Zenon DEF JailInv, TombstonesOwned
  <2> QED
    BY <1>2, <2>2, <2>3, Zenon
<1> QED
  BY <1>5, <1>6, <1>7, Zenon DEF JailInv

\* Unjail releases an operator after its sentence only.
LEMMA UnjailJail ==
  ASSUME KeyInv, JailInv, NEW o \in Operators, Unjail(o)
  PROVE  JailInv'
<1>1. /\ o \in jailed /\ jailed' = jailed \ {o} /\ key[o] # None
      /\ info[key[o]].found => epoch >= info[key[o]].jailedUntil
      /\ UNCHANGED <<epoch, key, operatorOf, unhooked, misfiled, info, sentence>>
  BY Zenon DEF Unjail, slashingVars, history
<1>2. /\ info \in [Keys -> SigningInfo] /\ key \in [Operators -> Keys \cup {None}]
      /\ sentence \in [Operators -> Nat] /\ epoch \in Nat
  BY SlotsCover, Zenon DEF KeyInv, Types
<1>3. ASSUME o \notin unhooked, o \notin misfiled PROVE epoch >= sentence[o]
  <2>1. info[key[o]].found /\ info[key[o]].jailedUntil >= sentence[o]
    BY <1>1, <1>3, Zenon DEF JailInv, SentenceRecorded
  <2>2. info[key[o]].jailedUntil \in Nat
    BY <1>1, <1>2, Zenon DEF SigningInfo
  <2> QED
    BY <1>1, <1>2, <2>1, <2>2
<1>4. JailTermServed'
  BY <1>1, <1>3, Zenon DEF JailInv, JailTermServed
<1>5. SentenceRecorded'
  BY <1>1, Zenon DEF JailInv, SentenceRecorded
<1>6. TombstonesOwned'
  BY <1>1, Zenon DEF JailInv, TombstonesOwned
<1> QED
  BY <1>4, <1>5, <1>6 DEF JailInv

\* EndBlock keeps the signing info of the keys it does not prune.
LEMMA EndBlockJail ==
  ASSUME KeyInv, JailInv, EndBlock
  PROVE  JailInv'
<1>1. UNCHANGED <<epoch, jailed, unhooked, misfiled, sentence>>
  BY Zenon DEF EndBlock
<1>2. /\ \A o \in Operators : key'[o] = IF o \in pendingOptOuts THEN None ELSE key[o]
      /\ \A k \in Keys : operatorOf'[k] = IF k \in pendingPrunes THEN None ELSE operatorOf[k]
  BY EndBlockKeys
<1>3. /\ \A k \in Keys \ pendingPrunes : info[k].found => info'[k] = info[k]
      /\ \A k \in Keys : info'[k].tombstoned => info[k].tombstoned
  BY EndBlockInfos
<1>4. key \in [Operators -> Keys \cup {None}] /\ jailed \subseteq Operators
  BY DEF KeyInv, Types
<1>5. JailTermServed'
  BY <1>1, Zenon DEF JailInv, JailTermServed
<1>6. SentenceRecorded'
  <2> SUFFICES ASSUME NEW p \in jailed, p \notin unhooked, p \notin misfiled, key'[p] # None
               PROVE  info'[key'[p]].found /\ info'[key'[p]].jailedUntil >= sentence[p]
    BY <1>1, Zenon DEF SentenceRecorded
  <2>1. p \in Operators /\ p \notin pendingOptOuts /\ key'[p] = key[p] /\ key[p] \in Keys
    BY <1>2, <1>4, Zenon
  <2>2. key[p] \notin pendingPrunes
    BY <2>1, Zenon DEF KeyInv, Scheduled
  <2>3. info[key[p]].found /\ info[key[p]].jailedUntil >= sentence[p]
    BY <2>1, Zenon DEF JailInv, SentenceRecorded
  <2> QED
    BY <1>3, <2>1, <2>2, <2>3, Zenon
<1>7. TombstonesOwned'
  <2> SUFFICES ASSUME NEW x \in Keys, info'[x].tombstoned, operatorOf'[x] \in Operators \ unhooked
               PROVE  sentence[operatorOf'[x]] = Forever /\ operatorOf'[x] \notin misfiled
    BY <1>1, Zenon DEF TombstonesOwned
  <2>1. operatorOf'[x] = operatorOf[x] /\ info[x].tombstoned
    BY <1>2, <1>3, Constants
  <2> QED
    BY <2>1 DEF JailInv, TombstonesOwned
<1> QED
  BY <1>5, <1>6, <1>7 DEF JailInv

\* Every action keeps the invariant of the sentences.
LEMMA NextJail == KeyInv /\ JailInv /\ [Next]_vars => JailInv'
<1> SUFFICES ASSUME KeyInv, JailInv, [Next]_vars PROVE JailInv'
  OBVIOUS
<1>1. ASSUME UNCHANGED <<epoch, key, operatorOf, jailed, info, sentence, unhooked, misfiled>> PROVE JailInv'
  BY <1>1, Zenon DEF JailInv, JailTermServed, SentenceRecorded, TombstonesOwned
<1>2. ASSUME NEW o \in Operators, NEW k \in Keys, OptInWithConsKey(o, k) PROVE JailInv'
  BY <1>2, SetKeyJail, Zenon DEF OptInWithConsKey
<1>3. ASSUME NEW o \in Operators, NEW k \in Keys, SetConsKey(o, k) PROVE JailInv'
  <2>1. key[o] # None
    BY <1>3 DEF SetConsKey, KeyInv, Keyed
  <2> QED
    BY <1>3, <2>1, SetKeyJail, Zenon DEF SetConsKey
<1>4. ASSUME NEW o \in Operators, OptOut(o) PROVE JailInv'
  BY <1>1, <1>4, Zenon DEF OptOut, slashingVars
<1>5. ASSUME NEW k \in Keys, Downtime(k) PROVE JailInv'
  BY <1>5, DowntimeJail
<1>6. ASSUME NEW k \in Keys, DoubleSign(k) PROVE JailInv'
  BY <1>6, DoubleSignJail
<1>7. ASSUME NEW o \in Operators, SlashElsewhere(o) PROVE JailInv'
  BY <1>1, <1>7, Zenon DEF SlashElsewhere, slashingVars, history
<1>8. ASSUME NEW o \in Operators, Unjail(o) PROVE JailInv'
  BY <1>8, UnjailJail
<1>9. ASSUME NEW o \in Operators, UnfreezeOperator(o) PROVE JailInv'
  BY <1>1, <1>9, Zenon DEF UnfreezeOperator, slashingVars, history
<1>10. ASSUME AfterEpochEnd PROVE JailInv'
  <2>1. epoch' = epoch + 1 /\ UNCHANGED <<key, operatorOf, jailed, info, sentence, unhooked, misfiled>>
    BY <1>10, Zenon DEF AfterEpochEnd, slashingVars, history
  <2>2. sentence \in [Operators -> Nat] /\ epoch \in Nat
    BY SlotsCover, Zenon DEF KeyInv, Types
  <2>3. JailTermServed'
    BY <2>1, <2>2 DEF JailInv, JailTermServed
  <2>4. SentenceRecorded' /\ TombstonesOwned'
    BY <2>1, Zenon DEF JailInv, SentenceRecorded, TombstonesOwned
  <2> QED
    BY <2>3, <2>4 DEF JailInv
<1>11. ASSUME EndBlock PROVE JailInv'
  BY <1>11, EndBlockJail
<1>12. CASE UNCHANGED vars
  BY <1>1, <1>12, Zenon DEF vars, operatorVars, slashingVars, history
<1>13. ASSUME NEW k \in Keys, NEW malicious \in BOOLEAN, OracleJail(k, malicious) PROVE JailInv'
  BY <1>13, OracleJailJail
<1> QED
  BY <1>2, <1>3, <1>4, <1>5, <1>6, <1>7, <1>8, <1>9, <1>10, <1>11, <1>12, <1>13, Zenon DEF Next

\* The invariant of the sentences holds throughout.
LEMMA JailInvariant == Spec => []JailInv
<1>1. Init => JailInv
  BY InitJail
<1>2. KeyInv /\ JailInv /\ [Next]_vars => JailInv'
  BY NextJail
<1> QED
  BY <1>1, <1>2, KeysInvariant, PTL DEF Spec

\* For every jail duration no operator leaves jail before its term is over:
\* replacing the key, before the infraction is found or in jail, or opting out
\* and in again does not shorten a term for downtime or double signing (Unjail
\* looks at the signing info of the current key).  Exempt are the operators of
\* whose last replacement x/dogfood was not told, and those whose term x/oracle
\* wrote down under a key they had replaced.
THEOREM TermServed == Spec => []JailTermServed
<1>1. JailInv => JailTermServed
  BY DEF JailInv
<1> QED
  BY <1>1, JailInvariant, PTL

\* A tombstoned key is used by nobody but operators that double signed.
THEOREM TombstonesRespected == Spec => []TombstonedKeyNotReused
<1>1. KeyInv /\ JailInv => TombstonedKeyNotReused
  <2> SUFFICES ASSUME KeyInv, JailInv, NEW o \in Operators, o \notin unhooked,
                      key[o] # None, info[key[o]].tombstoned
               PROVE  sentence[o] = Forever
    BY DEF TombstonedKeyNotReused
  <2>1. key[o] \in Keys /\ operatorOf[key[o]] = o
    BY DEF KeyInv, Types, KeysHaveOneOperator
  <2> QED
    BY <2>1 DEF JailInv, TombstonesOwned
<1> QED
  BY <1>1, KeysInvariant, JailInvariant, PTL
=============================================================================
