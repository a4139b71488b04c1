------------------------ MODULE NativeBalancesProofs ------------------------
(***************************************************************************)
(* The oracle's balances of native restakers are exact, and the ledger of  *)
(* x/assets follows them but for what UpdateNSTBalance leaves, for every   *)
(* set of stakers and operators, every amount and every order of deposits, *)
(* withdrawals, delegations, slashes, reports, reverted transactions and   *)
(* restarts, as long as no balance reaches Modulus.  Left out are stakers  *)
(* to which a report was applied that did not know their withdrawal, and   *)
(* stakers that withdrew more than the oracle knew of.                     *)
(***************************************************************************)
EXTENDS NativeBalances, ArithmeticProofs, FiniteSetTheorems

\* The entries of the lists of deposits and of withdrawals.
Entry == [version : Nat, amount : Nat]

VersionInfo == [version : Nat, feed : Nat, withdraw : Nat, feedWithdraw : Nat]

CacheEntry == [staker : Stakers, withdrawVersion : Nat]

StakerInfo == [index : Int, deposits : Seq(Entry), withdrawVersion : Nat, balance : Nat]

PastInfo ==
  [withdrawals : [Stakers -> Seq(Entry)], known : [Stakers -> Int], left : [Stakers -> Int],
   misread : SUBSET Stakers, overdrawn : SUBSET Stakers,
   reverted : SUBSET Stakers, delegated : SUBSET Stakers]

\* The stakers that BalancesExact leaves out.
Exempt == past.misread \cup past.overdrawn

Types ==
  /\ versions \in VersionInfo
  /\ store \in [Stakers -> StakerInfo]
  /\ cache \in Seq(CacheEntry)
  /\ chain \in [Stakers -> Int]
  /\ past \in PastInfo

\* The versions: no entry is later than now, and nobody is registered before
\* the first deposit.
Versioned ==
  /\ versions.feed <= versions.version /\ versions.feedWithdraw <= versions.withdraw
  /\ versions.version = 0 => \A s \in Stakers : store[s].index < 0
  /\ \A s \in Stakers :
       /\ \A i \in DOMAIN store[s].deposits : store[s].deposits[i].version <= versions.version
       /\ \A i \in DOMAIN past.withdrawals[s] : past.withdrawals[s][i].version <= versions.withdraw
       /\ store[s].index < 0 => store[s] = NoStaker /\ past.withdrawals[s] = <<>>

\* The indexes number the registered stakers.
Indexed(st) ==
  /\ \A s \in Registered(st) : st[s].index \in 0 .. Cardinality(Registered(st)) - 1
  /\ \A s, t \in Registered(st) : st[s].index = st[t].index => s = t
  /\ \A k \in 0 .. Cardinality(Registered(st)) - 1 : \E s \in Registered(st) : st[s].index = k

\* The list in memory may be too short or too long, but has no registered
\* staker at the place of another.
Fits(c, st) ==
  \A s \in Registered(st) : st[s].index + 1 \in DOMAIN c => c[st[s].index + 1].staker = s

\* What is being agreed on is what the stakers had, whatever was deposited and
\* withdrawn since.
Reported ==
  report.sent =>
    /\ report.version \in Nat /\ report.withdrawVersion \in Nat /\ report.chain \in [Stakers -> Int]
    /\ report.version <= versions.version /\ report.withdrawVersion <= versions.withdraw
    /\ \A i \in DOMAIN report.balances : \E s \in Registered(store) : i = store[s].index + 1
    /\ \A s \in Registered(store) : store[s].index + 1 \in DOMAIN report.balances =>
         /\ report.balances[store[s].index + 1] >= 0
         /\ report.balances[store[s].index + 1] =
              UpTo(store[s].deposits, report.version)
              - UpTo(past.withdrawals[s], report.withdrawVersion) + report.chain[s]

\* Nobody owes anything: neither on the client chain, now and at the feed
\* versions, nor in what a report will be compared with.
Solvent ==
  \A s \in Stakers :
    /\ OnChain(s, versions.version, versions.withdraw) >= 0
    /\ OnChain(s, versions.feed, versions.feedWithdraw) >= 0
    /\ s \notin Exempt =>
         UpTo(store[s].deposits, versions.feed)
         - UpTo(past.withdrawals[s], versions.feedWithdraw) + past.known[s] >= 0

\* The part of BalancesExact that is about the oracle.
OracleExact ==
  \A s \in Stakers \ Exempt :
    store[s].balance = Amount(store[s].deposits) - Amount(past.withdrawals[s]) + past.known[s]

NativeInv ==
  /\ Types /\ Versioned /\ Indexed(store) /\ Fits(cache, store)
  /\ Reported /\ Solvent /\ OracleExact

StakeInfo ==
  [total : Int, free : Nat, pending : Nat, worth : [Operators -> Nat],
   entries : SUBSET Operators, shares : SUBSET Operators]

\* The part of BalancesExact that is about the ledger: who never delegated, and
\* whose reports all knew its withdrawals, can withdraw all it has.
StakeInv ==
  /\ ledger \in [Stakers -> StakeInfo]
  /\ \A s \in Stakers \ Exempt : ledger[s].total = store[s].balance + past.left[s]
  /\ \A s \in Stakers \ (past.misread \cup past.delegated) :
       ledger[s].free = ledger[s].total /\ ledger[s].pending = 0 /\ past.left[s] = 0
  /\ past.overdrawn \subseteq past.misread \cup past.delegated

\* The oracle keeps balances in 64 bits: what a staker deposited, withdrew and
\* was reported to have gained stays below.
NoOverflow ==
  \A s \in Stakers \ Exempt :
    Amount(store[s].deposits) - Amount(past.withdrawals[s]) + past.known[s] < Modulus
-----------------------------------------------------------------------------
(***************************************************************************)
(* Lists of deposits and withdrawals.                                      *)
(***************************************************************************)
\* The terms of the sums are natural numbers, over a finite domain.
LEMMA ListTerms ==
  ASSUME NEW l \in Seq(Entry), NEW v \in Nat
  PROVE  /\ IsFiniteSet(DOMAIN l)
         /\ [i \in DOMAIN l |-> l[i].amount] \in [DOMAIN l -> Nat]
         /\ [i \in DOMAIN l |-> IF l[i].version <= v THEN l[i].amount ELSE 0] \in [DOMAIN l -> Nat]
         /\ [i \in DOMAIN l |-> IF l[i].version > v THEN l[i].amount ELSE 0] \in [DOMAIN l -> Nat]
<1>1. DOMAIN l = 1 .. Len(l) /\ Len(l) \in Nat
  OBVIOUS
<1>2. IsFiniteSet(DOMAIN l)
  BY <1>1, FS_Interval
<1>3. \A i \in DOMAIN l : l[i] \in Entry
  OBVIOUS
<1>4. \A i \in DOMAIN l : l[i].amount \in Nat
  BY <1>3, Zenon DEF Entry
<1> QED
  BY <1>2, <1>4

\* What is not later than a version and what is make the whole.
LEMMA ListSums ==
  ASSUME NEW l \in Seq(Entry), NEW v \in Nat
  PROVE  /\ Amount(l) \in Nat /\ UpTo(l, v) \in Nat /\ After(l, v) \in Nat
         /\ UpTo(l, v) + After(l, v) = Amount(l)
         /\ (\A i \in DOMAIN l : l[i].version <= v) => UpTo(l, v) = Amount(l)
<1> DEFINE a == [i \in DOMAIN l |-> l[i].amount]
           u == [i \in DOMAIN l |-> IF l[i].version <= v THEN l[i].amount ELSE 0]
           w == [i \in DOMAIN l |-> IF l[i].version > v THEN l[i].amount ELSE 0]
<1>1. /\ IsFiniteSet(DOMAIN l)
      /\ a \in [DOMAIN l -> Nat] /\ u \in [DOMAIN l -> Nat] /\ w \in [DOMAIN l -> Nat]
  BY ListTerms, Zenon
<1>2. \A i \in DOMAIN l : a[i] = u[i] + w[i]
  <2>1. \A i \in DOMAIN l : l[i] \in Entry
    OBVIOUS
  <2>2. \A i \in DOMAIN l : l[i].version \in Nat /\ l[i].amount \in Nat
    BY <2>1, Zenon DEF Entry
  <2> QED
    BY <2>2
<1>3. (\A i \in DOMAIN l : l[i].version <= v) => u = a
  BY Zenon
<1>4. Amount(l) = Sum(a) /\ UpTo(l, v) = Sum(u) /\ After(l, v) = Sum(w)
  BY Zenon DEF Amount, UpTo, After
<1> HIDE DEF a, u, w
<1>5. Sum(a) \in Nat /\ Sum(u) \in Nat /\ Sum(w) \in Nat
  BY <1>1, SumNat, Zenon
<1>6. a \in [DOMAIN l -> Int] /\ u \in [DOMAIN l -> Int] /\ w \in [DOMAIN l -> Int]
  BY <1>1
<1>7. Sum(a) = Sum(u) + Sum(w)
  <2>1. PICK D : D = DOMAIN l
    BY Zenon
  <2>2. /\ IsFiniteSet(D) /\ a \in [D -> Int] /\ u \in [D -> Int] /\ w \in [D -> Int]
        /\ \A i \in D : a[i] = u[i] + w[i]
    BY <1>1, <1>2, <1>6, <2>1, Zenon
  <2>3. Sum([i \in D |-> u[i] + w[i]]) = Sum(u) + Sum(w)
    BY <2>2, SumAdd, Zenon
  <2>4. a = [i \in D |-> u[i] + w[i]]
    BY <2>2
  <2> QED
    BY <2>3, <2>4, Zenon
<1> QED
  BY <1>3, <1>4, <1>5, <1>7, Zenon

\* A list with one more entry.
LEMMA ListAppend ==
  ASSUME NEW l \in Seq(Entry), NEW e \in Entry, NEW v \in Nat
  PROVE  /\ Append(l, e) \in Seq(Entry)
         /\ Amount(Append(l, e)) = Amount(l) + e.amount
         /\ UpTo(Append(l, e), v) = UpTo(l, v) + (IF e.version <= v THEN e.amount ELSE 0)
<1>1. PICK m \in Seq(Entry) : /\ m = Append(l, e) /\ DOMAIN m = DOMAIN l \cup {Len(l) + 1}
                              /\ Len(l) + 1 \notin DOMAIN l /\ m[Len(l) + 1] = e
                              /\ \A i \in DOMAIN l : m[i] = l[i]
  <2>0. Append(l, e) \in Seq(Entry)
    OBVIOUS
  <2>1. PICK m \in Seq(Entry) : m = Append(l, e)
    BY <2>0, Zenon
  <2>2. Len(l) \in Nat /\ DOMAIN l = 1 .. Len(l) /\ DOMAIN m = 1 .. Len(l) + 1
    BY <2>1
  <2>3. m[Len(l) + 1] = e /\ \A i \in DOMAIN l : m[i] = l[i]
    BY <2>1, <2>2
  <2>4. DOMAIN m = DOMAIN l \cup {Len(l) + 1} /\ Len(l) + 1 \notin DOMAIN l
    BY <2>2
  <2> QED
    BY <2>1, <2>3, <2>4, Zenon
<1>2. PICK x : x = Len(l) + 1
  OBVIOUS
<1> DEFINE a(k) == [i \in DOMAIN k |-> k[i].amount]
           u(k) == [i \in DOMAIN k |-> IF k[i].version <= v THEN k[i].amount ELSE 0]
<1>3. /\ IsFiniteSet(DOMAIN l) /\ a(l) \in [DOMAIN l -> Nat] /\ u(l) \in [DOMAIN l -> Nat]
      /\ IsFiniteSet(DOMAIN m) /\ a(m) \in [DOMAIN m -> Nat] /\ u(m) \in [DOMAIN m -> Nat]
  BY ListTerms, Zenon
<1>4. /\ \A i \in DOMAIN l : a(m)[i] = a(l)[i] /\ u(m)[i] = u(l)[i]
      /\ a(m)[x] = e.amount /\ u(m)[x] = IF e.version <= v THEN e.amount ELSE 0
  BY <1>1, <1>2, Zenon
<1>5. /\ Amount(l) = Sum(a(l)) /\ UpTo(l, v) = Sum(u(l))
      /\ Amount(m) = Sum(a(m)) /\ UpTo(m, v) = Sum(u(m))
  BY Zenon DEF Amount, UpTo
<1>6. DOMAIN m = DOMAIN l \cup {x} /\ x \notin DOMAIN l
  BY <1>1, <1>2, Zenon
<1>7. PICK al, am, ul, um : al = a(l) /\ am = a(m) /\ ul = u(l) /\ um = u(m)
  BY Zenon
<1>8. /\ al \in [DOMAIN l -> Nat] /\ ul \in [DOMAIN l -> Nat]
      /\ am \in [DOMAIN m -> Nat] /\ um \in [DOMAIN m -> Nat]
      /\ \A i \in DOMAIN l : am[i] = al[i] /\ um[i] = ul[i]
  BY <1>3, <1>4, <1>7, Zenon
<1>9. /\ al \in [DOMAIN l -> Int] /\ ul \in [DOMAIN l -> Int]
      /\ am \in [DOMAIN m -> Int] /\ um \in [DOMAIN m -> Int]
  BY <1>8
<1>10. Sum(am) = Sum(al) + am[x] /\ Sum(um) = Sum(ul) + um[x]
  <2>1. PICK E : E = DOMAIN m
    BY Zenon
  <2>2. /\ DOMAIN l = E \ {x} /\ x \in E /\ IsFiniteSet(E) /\ IsFiniteSet(E \ {x})
        /\ am \in [E -> Int] /\ um \in [E -> Int]
    <3>1. DOMAIN l = E \ {x} /\ x \in E
      BY <1>6, <2>1, Zenon
    <3> QED
      BY <1>3, <1>9, <2>1, <3>1, Zenon
  <2>3. al = [i \in E \ {x} |-> am[i]] /\ ul = [i \in E \ {x} |-> um[i]]
    BY <1>8, <2>2
  <2>4. Sum(am) = Sum([i \in E \ {x} |-> am[i]]) + am[x]
    BY <2>2, SumExtend, Zenon
  <2>5. Sum(um) = Sum([i \in E \ {x} |-> um[i]]) + um[x]
    BY <2>2, SumExtend, Zenon
  <2> QED
    BY <2>3, <2>4, <2>5, Zenon
<1> HIDE DEF a, u
<1> QED
  BY <1>1, <1>4, <1>5, <1>7, <1>10, Zenon

\* The empty list.
LEMMA ListEmpty ==
  ASSUME NEW v \in Nat
  PROVE  <<>> \in Seq(Entry) /\ Amount(<<>>) = 0 /\ UpTo(<<>>, v) = 0 /\ DOMAIN <<>> = {}
<1> DEFINE e == <<>>
<1>1. e \in Seq(Entry) /\ DOMAIN e = {}
  OBVIOUS
<1> HIDE DEF e
<1>2. /\ IsFiniteSet(DOMAIN e) /\ [i \in DOMAIN e |-> e[i].amount] \in [DOMAIN e -> Int]
      /\ [i \in DOMAIN e |-> IF e[i].version <= v THEN e[i].amount ELSE 0] \in [DOMAIN e -> Int]
  BY <1>1, FS_EmptySet
<1>3. Amount(e) = 0 /\ UpTo(e, v) = 0
  <2>1. PICK f \in [DOMAIN e -> Int] : f = [i \in DOMAIN e |-> e[i].amount]
    BY <1>2, Zenon
  <2>2. PICK g \in [DOMAIN e -> Int] :
          g = [i \in DOMAIN e |-> IF e[i].version <= v THEN e[i].amount ELSE 0]
    BY <1>2, Zenon
  <2>3. Sum(f) = 0 /\ Sum(g) = 0
    BY <1>1, <1>2, SumZero, Zenon
  <2> QED
    BY <2>1, <2>2, <2>3, Zenon DEF Amount, UpTo
<1> QED
  BY <1>1, <1>3, Zenon DEF e
-----------------------------------------------------------------------------
(***************************************************************************)
(* The list of stakers.                                                    *)
(***************************************************************************)
\* There are finitely many registered stakers.
LEMMA RegisteredFinite ==
  ASSUME NEW st
  PROVE  IsFiniteSet(Registered(st)) /\ Cardinality(Registered(st)) \in Nat
<1>1. Registered(st) \in SUBSET Stakers
  BY Zenon DEF Registered
<1>2. IsFiniteSet(Registered(st))
  BY <1>1, NativeBalancesAssumption, FS_Subset, Zenon
<1> QED
  BY <1>2, FS_CardinalityType, Zenon

\* Only the indexes matter to the list.
LEMMA SameIndexes ==
  ASSUME NEW st, NEW st2, \A t \in Stakers : st2[t].index = st[t].index
  PROVE  /\ Registered(st2) = Registered(st)
         /\ Indexed(st) => Indexed(st2)
         /\ \A c : Fits(c, st) => Fits(c, st2)
<1>1. Registered(st2) = Registered(st)
  BY Zenon DEF Registered
<1>2. \A t \in Registered(st) : st2[t].index = st[t].index
  BY Zenon DEF Registered
<1> QED
  BY <1>1, <1>2, Zenon DEF Indexed, Fits

\* A list that fits more stakers fits the ones that were there before.
LEMMA FitsFewer ==
  ASSUME NEW st, NEW st2, NEW c, Fits(c, st2),
         \A t \in Registered(st) : t \in Registered(st2) /\ st2[t].index = st[t].index
  PROVE  Fits(c, st)
BY Zenon DEF Fits

\* The list that is read from the store has every staker at its index.
LEMMA ListRead ==
  ASSUME NEW st \in [Stakers -> StakerInfo], Indexed(st)
  PROVE  /\ getStakerListNoCache(st) \in Seq(CacheEntry)
         /\ Fits(getStakerListNoCache(st), st)
<1> DEFINE n == Cardinality(Registered(st))
<1>1. n \in Nat
  BY RegisteredFinite, Zenon
<1>2. \A s \in Registered(st) : s \in Stakers /\ st[s].index \in Int /\ st[s].withdrawVersion \in Nat
  <2>1. \A s \in Registered(st) : s \in Stakers
    BY Zenon DEF Registered
  <2>2. \A s \in Stakers : st[s] \in StakerInfo
    OBVIOUS
  <2> QED
    BY <2>1, <2>2 DEF StakerInfo
<1>3. \A k \in 0 .. n - 1 : \E s \in Registered(st) : st[s].index = k
  BY Zenon DEF Indexed
<1>4. \A s, t \in Registered(st) : st[s].index = st[t].index => s = t
  BY Zenon DEF Indexed
<1> HIDE DEF n
<1>5. \A i \in 1 .. n : StakerAt(st, i) \in Registered(st) /\ st[StakerAt(st, i)].index = i - 1
  <2>1. \A i \in 1 .. n : i - 1 \in 0 .. n - 1
    BY <1>1
  <2> QED
    BY <1>3, <2>1, Zenon DEF StakerAt
<1>6. \A s \in Registered(st) : \A i \in 1 .. n : i = st[s].index + 1 => StakerAt(st, i) = s
  <2>1. \A s \in Registered(st) : \A i \in 1 .. n : i = st[s].index + 1 => st[s].index = i - 1
    BY <1>2
  <2> QED
    BY <1>4, <1>5, <2>1, Zenon
<1> DEFINE l == getStakerListNoCache(st)
<1>7. l = [i \in 1 .. n |-> [staker |-> StakerAt(st, i),
                             withdrawVersion |-> st[StakerAt(st, i)].withdrawVersion]]
  BY Zenon DEF n, getStakerListNoCache
<1>8. DOMAIN l = 1 .. n /\ \A i \in 1 .. n : l[i].staker = StakerAt(st, i) /\ l[i] \in CacheEntry
  <2>1. \A i \in 1 .. n : StakerAt(st, i) \in Stakers /\ st[StakerAt(st, i)].withdrawVersion \in Nat
    BY <1>2, <1>5, Zenon
  <2>2. DOMAIN l = 1 .. n
    BY <1>7, Zenon
  <2>3. \A i \in 1 .. n : l[i] = [staker |-> StakerAt(st, i),
                                 withdrawVersion |-> st[StakerAt(st, i)].withdrawVersion]
    BY <1>7, Zenon
  <2> HIDE DEF l
  <2> QED
    BY <2>1, <2>2, <2>3 DEF CacheEntry
<1>9. l \in Seq(CacheEntry)
  <2> HIDE DEF l
  <2>1. l \in [1 .. n -> CacheEntry]
    BY <1>7, <1>8
  <2> QED
    BY <1>1, <2>1
<1>10. Fits(l, st)
  BY <1>6, <1>8, Zenon DEF Fits
<1> QED
  BY <1>9, <1>10, Zenon

\* A staker that is new gets the next index.
LEMMA OneMore ==
  ASSUME NEW st \in [Stakers -> StakerInfo], NEW st2 \in [Stakers -> StakerInfo], NEW s \in Stakers,
         Indexed(st), st[s].index < 0, st2[s].index = Cardinality(Registered(st)),
         \A t \in Stakers : t # s => st2[t].index = st[t].index
  PROVE  /\ Indexed(st2)
         /\ s \in Registered(st2)
         /\ \A t \in Registered(st2) : t # s => t \in Registered(st)
         /\ \A t \in Registered(st) : t # s /\ t \in Registered(st2) /\ st2[t].index = st[t].index
<1>1. PICK n \in Nat : n = Cardinality(Registered(st))
  BY RegisteredFinite, Zenon
<1>2. ~(st[s].index >= 0) /\ n >= 0
  <2>1. st[s] \in StakerInfo
    OBVIOUS
  <2>2. st[s].index \in Int
    BY <2>1, Zenon DEF StakerInfo
  <2> QED
    BY <2>2
<1>3. s \notin Registered(st) /\ s \in Registered(st2)
  BY <1>1, <1>2, Zenon DEF Registered
<1>4. Registered(st2) = Registered(st) \cup {s}
  BY <1>3, Zenon DEF Registered
<1>5. Cardinality(Registered(st2)) = n + 1
  BY <1>1, <1>3, <1>4, RegisteredFinite, FS_AddElement, Zenon
<1>6. \A t \in Registered(st) : t # s /\ t \in Registered(st2) /\ st2[t].index = st[t].index
  BY <1>3, <1>4, Zenon DEF Registered
<1>7. /\ \A t \in Registered(st) : st[t].index \in 0 .. n - 1
      /\ \A t, u \in Registered(st) : st[t].index = st[u].index => t = u
      /\ \A k \in 0 .. n - 1 : \E t \in Registered(st) : st[t].index = k
  BY <1>1, Zenon DEF Indexed
<1>8. \A k : k \in 0 .. (n + 1) - 1 <=> k \in 0 .. n - 1 \/ k = n
  OBVIOUS
<1>9. n \notin 0 .. n - 1
  OBVIOUS
<1>10. /\ \A t \in Registered(st2) : st2[t].index \in 0 .. (n + 1) - 1
       /\ \A k \in 0 .. (n + 1) - 1 : \E t \in Registered(st2) : st2[t].index = k
  <2>1. \A t \in Registered(st2) : t = s \/ t \in Registered(st)
    BY <1>4, Zenon
  <2>2. st2[s].index = n
    BY <1>1, Zenon
  <2>3. \A t \in Registered(st) : st2[t].index \in 0 .. n - 1
    BY <1>6, <1>7, Zenon
  <2>4. ASSUME NEW k \in 0 .. n - 1
        PROVE  \E t \in Registered(st2) : st2[t].index = k
    <3>1. PICK t \in Registered(st) : st[t].index = k
      BY <1>7, Zenon
    <3> QED
      BY <1>6, <3>1, Zenon
  <2>5. \A k : (k \in 0 .. n - 1 \/ k = n) => k \in 0 .. (n + 1) - 1
    BY <1>8, Zenon
  <2>6. \A k \in 0 .. (n + 1) - 1 : k \in 0 .. n - 1 \/ k = n
    BY <1>8, Zenon
  <2>7. \A t \in Registered(st2) : st2[t].index \in 0 .. (n + 1) - 1
    BY <2>1, <2>2, <2>3, <2>5, Zenon
  <2>8. \A k \in 0 .. (n + 1) - 1 : \E t \in Registered(st2) : st2[t].index = k
    BY <1>3, <2>2, <2>4, <2>6, Zenon
  <2> QED
    BY <2>7, <2>8, Zenon
<1>11. ASSUME NEW t \in Registered(st2), NEW u \in Registered(st2), st2[t].index = st2[u].index
       PROVE  t = u
  <2>0. st2[s].index = n /\ \A r \in Registered(st) : st2[r].index # n
    <3>1. st2[s].index = n
      BY <1>1, Zenon
    <3>2. \A r \in Registered(st) : st2[r].index \in 0 .. n - 1
      BY <1>6, <1>7, Zenon
    <3> QED
      BY <1>9, <3>1, <3>2, Zenon
  <2>1. CASE t = s /\ u = s
    BY <2>1, Zenon
  <2>2. CASE t = s /\ u # s
    BY <1>4, <1>11, <2>0, <2>2, Zenon
  <2>3. CASE t # s /\ u = s
    BY <1>4, <1>11, <2>0, <2>3, Zenon
  <2>4. CASE t # s /\ u # s
    BY <1>4, <1>6, <1>7, <1>11, <2>4, Zenon
  <2> QED
    BY <2>1, <2>2, <2>3, <2>4, Zenon
<1>12. Indexed(st2)
  BY <1>5, <1>10, <1>11, Zenon DEF Indexed
<1> QED
  BY <1>3, <1>4, <1>6, <1>12, Zenon

\* A new staker is put at the end of the list, or the list is read again:
\* either way the list fits, if the deposit is kept and if it is not.
LEMMA AddedFits ==
  ASSUME NEW st \in [Stakers -> StakerInfo], NEW st2 \in [Stakers -> StakerInfo], NEW s \in Stakers,
         NEW c \in Seq(CacheEntry), Indexed(st), Fits(c, st), st[s].index < 0,
         st2[s].index = Cardinality(Registered(st)),
         \A t \in Stakers : t # s => st2[t].index = st[t].index
  PROVE  /\ AddNSTStaker(c, st2, s) \in Seq(CacheEntry)
         /\ Fits(AddNSTStaker(c, st2, s), st) /\ Fits(AddNSTStaker(c, st2, s), st2)
<1>1. /\ Indexed(st2)
      /\ \A t \in Registered(st2) : t # s => t \in Registered(st)
      /\ \A t \in Registered(st) : t # s /\ t \in Registered(st2) /\ st2[t].index = st[t].index
  BY OneMore
<1>2. CASE Len(c) = st2[s].index
  <2> DEFINE e == [staker |-> s, withdrawVersion |-> st2[s].withdrawVersion]
             m == Append(c, e)
  <2>1. AddNSTStaker(c, st2, s) = m
    BY <1>2, Zenon DEF AddNSTStaker
  <2>2. e \in CacheEntry /\ e.staker = s
    <3>1. st2[s] \in StakerInfo
      OBVIOUS
    <3> QED
      BY <3>1, Zenon DEF StakerInfo, CacheEntry
  <2> HIDE DEF e
  <2>3. /\ m \in Seq(CacheEntry) /\ Len(c) \in Nat
        /\ m[Len(c) + 1] = e /\ \A i \in 1 .. Len(c) : i \in DOMAIN c /\ m[i] = c[i]
    BY <2>2
  <2> HIDE DEF m
  <2>4. \A t \in Registered(st) : st[t].index \in 0 .. Len(c) - 1
    BY <1>2, Zenon DEF Indexed
  <2>5. \A t \in Registered(st) : st[t].index + 1 \in 1 .. Len(c)
    BY <2>3, <2>4
  <2>6. \A t \in Registered(st) : m[st[t].index + 1].staker = t
    BY <2>3, <2>5, Zenon DEF Fits
  <2>7. m[st2[s].index + 1].staker = s
    BY <1>2, <2>2, <2>3, Zenon
  <2>8. Fits(m, st2)
    BY <1>1, <2>6, <2>7, Zenon DEF Fits
  <2>9. Fits(m, st)
    BY <2>6, Zenon DEF Fits
  <2> QED
    BY <2>1, <2>3, <2>8, <2>9, Zenon
<1>3. CASE Len(c) # st2[s].index
  <2>1. AddNSTStaker(c, st2, s) = getStakerListNoCache(st2)
    BY <1>3, Zenon DEF AddNSTStaker
  <2>2. getStakerListNoCache(st2) \in Seq(CacheEntry) /\ Fits(getStakerListNoCache(st2), st2)
    BY <1>1, ListRead, Zenon
  <2> QED
    BY <1>1, <2>1, <2>2, FitsFewer, Zenon
<1> QED
  BY <1>2, <1>3, Zenon

\* A withdrawal changes no staker of the list, or has it read again.
LEMMA UpdatedFits ==
  ASSUME NEW st \in [Stakers -> StakerInfo], NEW st2 \in [Stakers -> StakerInfo], NEW s \in Stakers,
         NEW c \in Seq(CacheEntry), Indexed(st), Fits(c, st),
         \A t \in Stakers : st2[t].index = st[t].index
  PROVE  /\ UpdateWithdrawVersion(c, st2, s) \in Seq(CacheEntry)
         /\ Fits(UpdateWithdrawVersion(c, st2, s), st) /\ Fits(UpdateWithdrawVersion(c, st2, s), st2)
<1>1. Indexed(st2) /\ Fits(c, st2)
  BY SameIndexes, Zenon
<1>2. \A t \in Stakers : st[t].index = st2[t].index
  BY Zenon
<1> DEFINE i == st2[s].index + 1
           m == [c EXCEPT ![i].withdrawVersion = st2[s].withdrawVersion]
<1>3. CASE i \in DOMAIN c /\ c[i].staker = s
  <2>1. UpdateWithdrawVersion(c, st2, s) = m
    BY <1>3, Zenon DEF UpdateWithdrawVersion
  <2>2. st2[s].withdrawVersion \in Nat
    <3>1. st2[s] \in StakerInfo
      OBVIOUS
    <3> QED
      BY <3>1, Zenon DEF StakerInfo
  <2>3. PICK v \in Nat : v = st2[s].withdrawVersion
    BY <2>2, Zenon
  <2>4. PICK k \in DOMAIN c : k = i
    BY <1>3, Zenon
  <2>5. m = [c EXCEPT ![k].withdrawVersion = v]
    BY <2>3, <2>4, Zenon
  <2> HIDE DEF m, i
  <2>6. /\ m \in Seq(CacheEntry) /\ DOMAIN m = DOMAIN c
        /\ \A j \in DOMAIN c : m[j].staker = c[j].staker
    <3>1. c[k] \in CacheEntry /\ DOMAIN c = 1 .. Len(c) /\ Len(c) \in Nat
      OBVIOUS
    <3>2. PICK e : e = [c[k] EXCEPT !.withdrawVersion = v]
      BY Zenon
    <3>3. e \in CacheEntry /\ e.staker = c[k].staker
      BY <3>1, <3>2 DEF CacheEntry
    <3>4. m = [c EXCEPT ![k] = e]
      BY <2>5, <3>2, Zenon
    <3>5. m \in Seq(CacheEntry)
      BY <3>3, <3>4
    <3>6. DOMAIN m = DOMAIN c /\ m[k] = e /\ \A j \in DOMAIN c : j # k => m[j] = c[j]
      BY <3>4
    <3> QED
      BY <3>3, <3>5, <3>6, Zenon
  <2>7. Fits(m, st) /\ Fits(m, st2)
    BY <1>1, <2>6, Zenon DEF Fits
  <2> QED
    BY <2>1, <2>6, <2>7, Zenon
<1>4. CASE ~(i \in DOMAIN c /\ c[i].staker = s)
  <2>1. UpdateWithdrawVersion(c, st2, s) = getStakerListNoCache(st2)
    BY <1>4, Zenon DEF UpdateWithdrawVersion
  <2>2. getStakerListNoCache(st2) \in Seq(CacheEntry) /\ Fits(getStakerListNoCache(st2), st2)
    BY <1>1, ListRead, Zenon
  <2> QED
    BY <1>2, <2>1, <2>2, SameIndexes, Zenon
<1> QED
  BY <1>3, <1>4, Zenon
-----------------------------------------------------------------------------
(***************************************************************************)
(* What a state that satisfies the invariant is made of.                   *)
(***************************************************************************)
\* The fields of the state have their types.
LEMMA Parts ==
  ASSUME Types
  PROVE  /\ versions.version \in Nat /\ versions.feed \in Nat
         /\ versions.withdraw \in Nat /\ versions.feedWithdraw \in Nat
         /\ past.misread \in SUBSET Stakers
         /\ \A s \in Stakers :
              /\ store[s] \in StakerInfo /\ store[s].index \in Int /\ store[s].deposits \in Seq(Entry)
              /\ store[s].withdrawVersion \in Nat /\ store[s].balance \in Nat
              /\ past.withdrawals[s] \in Seq(Entry) /\ past.known[s] \in Int
              /\ chain[s] \in Int
<1>1. /\ versions.version \in Nat /\ versions.feed \in Nat
      /\ versions.withdraw \in Nat /\ versions.feedWithdraw \in Nat
  BY Zenon DEF Types, VersionInfo
<1>2. /\ past.misread \in SUBSET Stakers /\ past.withdrawals \in [Stakers -> Seq(Entry)]
      /\ past.known \in [Stakers -> Int]
  BY Zenon DEF Types, PastInfo
<1>3. \A s \in Stakers : store[s] \in StakerInfo /\ chain[s] \in Int
  BY Zenon DEF Types
<1>4. \A s \in Stakers :
        /\ store[s].index \in Int /\ store[s].deposits \in Seq(Entry)
        /\ store[s].withdrawVersion \in Nat /\ store[s].balance \in Nat
  BY <1>3, Zenon DEF StakerInfo
<1> QED
  BY <1>1, <1>2, <1>3, <1>4, Zenon

\* Nothing is later than now: up to the current versions is everything.
LEMMA AllUpToNow ==
  ASSUME Types, Versioned, NEW s \in Stakers, NEW v \in Nat
  PROVE  /\ Amount(store[s].deposits) \in Nat /\ Amount(past.withdrawals[s]) \in Nat
         /\ UpTo(store[s].deposits, v) \in Nat /\ UpTo(past.withdrawals[s], v) \in Nat
         /\ After(store[s].deposits, v) \in Nat
         /\ UpTo(store[s].deposits, v) + After(store[s].deposits, v) = Amount(store[s].deposits)
         /\ v >= versions.version => UpTo(store[s].deposits, v) = Amount(store[s].deposits)
         /\ v >= versions.withdraw => UpTo(past.withdrawals[s], v) = Amount(past.withdrawals[s])
<1>1. /\ versions.version \in Nat /\ versions.withdraw \in Nat
      /\ store[s].deposits \in Seq(Entry) /\ past.withdrawals[s] \in Seq(Entry)
  BY Parts, Zenon
<1>2. ASSUME NEW l \in Seq(Entry), NEW n \in Nat, \A i \in DOMAIN l : l[i].version <= n, v >= n
      PROVE  \A i \in DOMAIN l : l[i].version <= v
  <2>1. \A i \in DOMAIN l : l[i] \in Entry
    OBVIOUS
  <2>2. \A i \in DOMAIN l : l[i].version \in Nat
    BY <2>1, Zenon DEF Entry
  <2> QED
    BY <1>2, <2>2
<1>3. /\ \A i \in DOMAIN store[s].deposits : store[s].deposits[i].version <= versions.version
      /\ \A i \in DOMAIN past.withdrawals[s] : past.withdrawals[s][i].version <= versions.withdraw
  BY Zenon DEF Versioned
<1>4. /\ v >= versions.version => \A i \in DOMAIN store[s].deposits : store[s].deposits[i].version <= v
      /\ v >= versions.withdraw =>
           \A i \in DOMAIN past.withdrawals[s] : past.withdrawals[s][i].version <= v
  BY <1>1, <1>2, <1>3, Zenon
<1> QED
  BY <1>1, <1>4, ListSums, Zenon
-----------------------------------------------------------------------------
(***************************************************************************)
(* The steps.                                                              *)
(***************************************************************************)
\* A restart empties the list, and a report that is lost changes nothing else.
LEMMA QuietSteps ==
  ASSUME NativeInv, Restart \/ LoseReport \/ UNCHANGED vars
  PROVE  NativeInv'
<1>1. /\ Types /\ Versioned /\ Indexed(store) /\ Fits(cache, store)
      /\ Reported /\ Solvent /\ OracleExact
  BY Zenon DEF NativeInv
<1>2. UNCHANGED <<versions, store, chain, past>>
  BY Zenon DEF Restart, LoseReport, vars
<1>3. Versioned' /\ Indexed(store)' /\ Solvent' /\ OracleExact'
  BY <1>1, <1>2, Zenon DEF Versioned, Indexed, Solvent, OracleExact, OnChain, Exempt
<1>4. cache' = cache \/ cache' = <<>>
  BY Zenon DEF Restart, LoseReport, vars
<1>5. Types'
  <2>0. <<>> \in Seq(CacheEntry)
    OBVIOUS
  <2>1. cache' \in Seq(CacheEntry)
    BY <1>1, <1>4, <2>0, Zenon DEF Types
  <2> QED
    BY <1>1, <1>2, <2>1, Zenon DEF Types
<1>6. Fits(cache, store)'
  <2>1. CASE cache' = cache
    BY <1>1, <1>2, <2>1, Zenon DEF Fits
  <2>2. CASE cache' = <<>>
    <3>1. DOMAIN cache' = {}
      BY <2>2
    <3> QED
      BY <3>1, Zenon DEF Fits
  <2> QED
    BY <1>4, <2>1, <2>2, Zenon
<1>7. Reported'
  <2>1. report' = report \/ report' = NoReport
    BY Zenon DEF Restart, LoseReport, vars
  <2>2. CASE report' = report
    BY <1>1, <1>2, <2>2, Zenon DEF Reported
  <2>3. CASE report' = NoReport
    BY <2>3, Zenon DEF Reported, NoReport
  <2> QED
    BY <2>1, <2>2, <2>3, Zenon
<1> QED
  BY <1>3, <1>5, <1>6, <1>7, Zenon DEF NativeInv

\* The client chain takes away no more than the staker has there.
LEMMA ChainChangeStep ==
  ASSUME NativeInv, NEW s \in Stakers, NEW d \in Changes, ChainChange(s, d)
  PROVE  NativeInv'
<1>1. /\ Types /\ Versioned /\ Indexed(store) /\ Fits(cache, store)
      /\ Reported /\ Solvent /\ OracleExact
  BY Zenon DEF NativeInv
<1>2. UNCHANGED <<versions, store, cache, report, past>>
  BY Zenon DEF ChainChange
<1>3. Versioned' /\ Indexed(store)' /\ Fits(cache, store)' /\ Reported' /\ OracleExact'
  <2>1. Versioned' /\ Indexed(store)' /\ Fits(cache, store)'
    BY <1>1, <1>2, Zenon DEF Versioned, Indexed, Fits
  <2>2. Reported'
    BY <1>1, <1>2, Zenon DEF Reported
  <2>3. OracleExact'
    BY <1>1, <1>2, Zenon DEF OracleExact, Exempt
  <2> QED
    BY <2>1, <2>2, <2>3, Zenon
<1>4. chain' = [chain EXCEPT ![s] = chain[s] + d] /\ chain \in [Stakers -> Int] /\ d \in Int
  <2>1. chain' = [chain EXCEPT ![s] = chain[s] + d]
    BY Zenon DEF ChainChange
  <2>2. chain \in [Stakers -> Int]
    BY <1>1, Zenon DEF Types
  <2>3. d \in Int
    BY NativeBalancesAssumption, Zenon
  <2> QED
    BY <2>1, <2>2, <2>3, Zenon
<1>5. /\ chain' \in [Stakers -> Int]
      /\ chain'[s] = chain[s] + d /\ \A t \in Stakers : t # s => chain'[t] = chain[t]
  BY <1>4
<1>6. Types'
  BY <1>1, <1>2, <1>5, Zenon DEF Types
<1>7. Solvent'
  <2> SUFFICES ASSUME NEW t \in Stakers
               PROVE  /\ OnChain(t, versions.version, versions.withdraw)' >= 0
                      /\ OnChain(t, versions.feed, versions.feedWithdraw)' >= 0
                      /\ t \notin Exempt =>
                           UpTo(store[t].deposits, versions.feed)
                           - UpTo(past.withdrawals[t], versions.feedWithdraw) + past.known[t] >= 0
    BY <1>2, Zenon DEF Solvent, Exempt
  <2>1. /\ OnChain(t, versions.version, versions.withdraw) >= 0
        /\ OnChain(t, versions.feed, versions.feedWithdraw) >= 0
        /\ t \notin Exempt =>
             UpTo(store[t].deposits, versions.feed)
             - UpTo(past.withdrawals[t], versions.feedWithdraw) + past.known[t] >= 0
    BY <1>1, Zenon DEF Solvent, Exempt
  <2>2. CASE t = s
    <3> DEFINE a(v, w) == UpTo(store[t].deposits, v) - UpTo(past.withdrawals[t], w)
    <3>1. \A v, w : OnChain(t, v, w) = a(v, w) + chain[t]
      BY Zenon DEF OnChain
    <3>2. /\ OnChain(t, versions.version, versions.withdraw)'
               = a(versions.version, versions.withdraw) + chain'[t]
          /\ OnChain(t, versions.feed, versions.feedWithdraw)'
               = a(versions.feed, versions.feedWithdraw) + chain'[t]
      BY <1>2, Zenon DEF OnChain
    <3>3. /\ a(versions.version, versions.withdraw) \in Int
          /\ a(versions.feed, versions.feedWithdraw) \in Int
      <4>1. /\ UpTo(store[t].deposits, versions.version) \in Nat
            /\ UpTo(store[t].deposits, versions.feed) \in Nat
            /\ UpTo(past.withdrawals[t], versions.withdraw) \in Nat
            /\ UpTo(past.withdrawals[t], versions.feedWithdraw) \in Nat
        BY <1>1, AllUpToNow, Parts, Zenon
      <4> QED
        BY <4>1
    <3>4. /\ a(versions.version, versions.withdraw) + chain[t] + d >= 0
          /\ a(versions.feed, versions.feedWithdraw) + chain[t] + d >= 0
      BY <2>2, <3>1, Zenon DEF ChainChange
    <3> HIDE DEF a
    <3>5. chain[t] \in Int /\ d \in Int
      BY <1>4
    <3>6. \A x, y, z \in Int : x + y + z >= 0 => x + (y + z) >= 0
      OBVIOUS
    <3>7. chain'[t] = chain[t] + d
      BY <1>5, <2>2, Zenon
    <3>8. /\ a(versions.version, versions.withdraw) + chain'[t] >= 0
          /\ a(versions.feed, versions.feedWithdraw) + chain'[t] >= 0
      BY <3>3, <3>4, <3>5, <3>6, <3>7, Zenon
    <3> QED
      BY <2>1, <3>2, <3>8, Zenon
  <2>3. CASE t # s
    BY <1>2, <1>5, <2>1, <2>3, Zenon DEF OnChain
  <2> QED
    BY <2>2, <2>3, Zenon
<1> QED
  BY <1>3, <1>6, <1>7, Zenon DEF NativeInv

\* When the feed versions catch up, a report will be compared with the balance.
LEMMA FeedVersionStep ==
  ASSUME NativeInv, UpdateNSTFeedVersion
  PROVE  NativeInv'
<1>1. /\ Types /\ Versioned /\ Indexed(store) /\ Fits(cache, store)
      /\ Reported /\ Solvent /\ OracleExact
  BY Zenon DEF NativeInv
<1>2. UNCHANGED <<store, cache, report, chain, past>>
  BY Zenon DEF UpdateNSTFeedVersion
<1>3. Indexed(store)' /\ Fits(cache, store)' /\ OracleExact'
  BY <1>1, <1>2, Zenon DEF Indexed, Fits, OracleExact, Exempt
<1>4. /\ versions' \in VersionInfo
      /\ versions'.version = versions.version /\ versions'.feed = versions.version
      /\ versions'.withdraw = versions.withdraw /\ versions'.feedWithdraw = versions.withdraw
  <2>1. versions \in VersionInfo
    BY <1>1, Zenon DEF Types
  <2>2. versions' = [versions EXCEPT !.feed = versions.version, !.feedWithdraw = versions.withdraw]
    BY Zenon DEF UpdateNSTFeedVersion, FeedVersion
  <2> QED
    BY <2>1, <2>2, Zenon DEF VersionInfo
<1>5. Types'
  BY <1>1, <1>2, <1>4, Zenon DEF Types
<1>6. versions.version \in Nat /\ versions.withdraw \in Nat
  BY <1>1, Parts, Zenon
<1>7. versions.version <= versions.version /\ versions.withdraw <= versions.withdraw
  BY <1>6
<1>8. Versioned'
  BY <1>1, <1>2, <1>4, <1>7, Zenon DEF Versioned
<1>9. Reported'
  BY <1>1, <1>2, <1>4, Zenon DEF Reported
<1>10. Solvent'
  <2> SUFFICES ASSUME NEW t \in Stakers
               PROVE  /\ OnChain(t, versions.version, versions.withdraw) >= 0
                      /\ t \notin Exempt =>
                           UpTo(store[t].deposits, versions.version)
                           - UpTo(past.withdrawals[t], versions.withdraw) + past.known[t] >= 0
    BY <1>2, <1>4, Zenon DEF Solvent, OnChain, Exempt
  <2>1. OnChain(t, versions.version, versions.withdraw) >= 0
    BY <1>1, Zenon DEF Solvent, Exempt
  <2>2. ASSUME t \notin Exempt
        PROVE  UpTo(store[t].deposits, versions.version)
               - UpTo(past.withdrawals[t], versions.withdraw) + past.known[t] >= 0
    <3>1. /\ UpTo(store[t].deposits, versions.version) = Amount(store[t].deposits)
          /\ UpTo(past.withdrawals[t], versions.withdraw) = Amount(past.withdrawals[t])
      <4>1. versions.version >= versions.version /\ versions.withdraw >= versions.withdraw
        BY <1>6
      <4> QED
        BY <1>1, <1>6, <4>1, AllUpToNow, Zenon
    <3>2. store[t].balance = Amount(store[t].deposits) - Amount(past.withdrawals[t]) + past.known[t]
      BY <1>1, <2>2, Zenon DEF OracleExact, Exempt
    <3>3. store[t].balance >= 0
      <4>1. store[t].balance \in Nat
        BY <1>1, Parts, Zenon
      <4> QED
        BY <4>1
    <3> QED
      BY <3>1, <3>2, <3>3, Zenon
  <2> QED
    BY <2>1, <2>2, Zenon
<1> QED
  BY <1>3, <1>5, <1>8, <1>9, <1>10, Zenon DEF NativeInv

\* The staker at its index.
LEMMA StakerAtIndex ==
  ASSUME NEW st \in [Stakers -> StakerInfo], Indexed(st), NEW s \in Registered(st)
  PROVE  StakerAt(st, st[s].index + 1) = s
<1>1. st[s] \in StakerInfo
  BY Zenon DEF Registered
<1>2. st[s].index \in Int
  BY <1>1, Zenon DEF StakerInfo
<1>3. (st[s].index + 1) - 1 = st[s].index
  BY <1>2
<1>4. \A t \in Registered(st) : st[t].index = (st[s].index + 1) - 1 <=> t = s
  BY <1>3, Zenon DEF Indexed
<1> QED
  BY <1>4, Zenon DEF StakerAt

\* The feeders report what the stakers had at the feed versions.
LEMMA FeedStep ==
  ASSUME NativeInv, Feed
  PROVE  NativeInv'
<1>1. /\ Types /\ Versioned /\ Indexed(store) /\ Fits(cache, store)
      /\ Reported /\ Solvent /\ OracleExact
  BY Zenon DEF NativeInv
<1>2. UNCHANGED <<versions, store, cache, chain, past>>
  BY Zenon DEF Feed
<1>3. Types' /\ Versioned' /\ Indexed(store)' /\ Fits(cache, store)' /\ Solvent' /\ OracleExact'
  <2>1. Types'
    BY <1>1, <1>2, Zenon DEF Types
  <2>2. Versioned' /\ Indexed(store)' /\ Fits(cache, store)'
    BY <1>1, <1>2, Zenon DEF Versioned, Indexed, Fits
  <2>3. Solvent' /\ OracleExact'
    BY <1>1, <1>2, Zenon DEF Solvent, OnChain, OracleExact, Exempt
  <2> QED
    BY <2>1, <2>2, <2>3, Zenon
<1> DEFINE known == {s \in Registered(store) : store[s].deposits[1].version <= versions.feed}
           D == {store[s].index + 1 : s \in known}
           R == report'
<1>4. /\ R.version = versions.feed /\ R.withdrawVersion = versions.feedWithdraw /\ R.chain = chain
      /\ R.balances = [i \in D |-> OnChain(StakerAt(store, i), versions.feed, versions.feedWithdraw)]
  BY Zenon DEF Feed
<1>5. \A i \in D : \E s \in Registered(store) : i = store[s].index + 1
  BY Zenon
<1> HIDE DEF D
<1>6. DOMAIN R.balances = D
  BY <1>4, Zenon
<1>7. ASSUME NEW s \in Registered(store), store[s].index + 1 \in D
      PROVE  /\ R.balances[store[s].index + 1] >= 0
             /\ R.balances[store[s].index + 1]
                  = UpTo(store[s].deposits, versions.feed)
                    - UpTo(past.withdrawals[s], versions.feedWithdraw) + chain[s]
  <2>1. s \in Stakers
    BY Zenon DEF Registered
  <2>2. StakerAt(store, store[s].index + 1) = s
    BY <1>1, StakerAtIndex, Zenon DEF Types
  <2>3. R.balances[store[s].index + 1] = OnChain(s, versions.feed, versions.feedWithdraw)
    BY <1>4, <1>7, <2>2, Zenon
  <2> QED
    BY <1>1, <2>1, <2>3, Zenon DEF Solvent, OnChain, Exempt
<1>8. /\ R.version \in Nat /\ R.withdrawVersion \in Nat /\ R.chain \in [Stakers -> Int]
      /\ R.version <= versions.version /\ R.withdrawVersion <= versions.withdraw
  <2>1. versions.feed \in Nat /\ versions.feedWithdraw \in Nat /\ chain \in [Stakers -> Int]
    BY <1>1, Parts, Zenon DEF Types
  <2> QED
    BY <1>1, <1>4, <2>1, Zenon DEF Versioned
<1> HIDE DEF R
<1>9. Reported'
  <2>1. /\ \A i \in DOMAIN R.balances : \E s \in Registered(store) : i = store[s].index + 1
        /\ \A s \in Registered(store) : store[s].index + 1 \in DOMAIN R.balances =>
             /\ R.balances[store[s].index + 1] >= 0
             /\ R.balances[store[s].index + 1]
                  = UpTo(store[s].deposits, R.version)
                    - UpTo(past.withdrawals[s], R.withdrawVersion) + R.chain[s]
    BY <1>4, <1>5, <1>6, <1>7, Zenon
  <2> QED
    BY <1>2, <1>8, <2>1, Zenon DEF Reported, R
<1> QED
  BY <1>3, <1>9, Zenon DEF NativeInv

\* What a deposit does to the versions and to the staker.
LEMMA DepositedParts ==
  ASSUME Types, NEW s \in Stakers, NEW x \in Amounts
  PROVE  /\ IncreaseVersionByDeposit \in VersionInfo
         /\ IncreaseVersionByDeposit.version = versions.version + 1
         /\ IncreaseVersionByDeposit.withdraw = versions.withdraw
         /\ IncreaseVersionByDeposit.feedWithdraw = versions.feedWithdraw
         /\ \/ IncreaseVersionByDeposit.feed = versions.feed
            \/ IncreaseVersionByDeposit.feed = versions.version + 1
         /\ Deposited(s, x) \in [Stakers -> StakerInfo]
         /\ \A t \in Stakers : t # s => Deposited(s, x)[t] = store[t]
         /\ Deposited(s, x)[s].index
              = IF store[s].index >= 0 THEN store[s].index ELSE Cardinality(Registered(store))
         /\ Deposited(s, x)[s].deposits
              = Append(store[s].deposits, [version |-> versions.version + 1, amount |-> x])
         /\ Deposited(s, x)[s].balance = (store[s].balance + x) % Modulus
         /\ [version |-> versions.version + 1, amount |-> x] \in Entry
<1>1. versions \in VersionInfo /\ versions.version \in Nat
  BY Parts, Zenon DEF Types, VersionInfo
<1>2. /\ IncreaseVersionByDeposit \in VersionInfo
      /\ IncreaseVersionByDeposit.version = versions.version + 1
      /\ IncreaseVersionByDeposit.withdraw = versions.withdraw
      /\ IncreaseVersionByDeposit.feedWithdraw = versions.feedWithdraw
      /\ \/ IncreaseVersionByDeposit.feed = versions.feed
         \/ IncreaseVersionByDeposit.feed = versions.version + 1
  <2>1. CASE versions.version = 0
    <3>1. IncreaseVersionByDeposit = [versions EXCEPT !.version = 1, !.feed = 1]
      BY <2>1, Zenon DEF IncreaseVersionByDeposit
    <3>2. 1 = versions.version + 1 /\ 1 \in Nat
      BY <2>1
    <3> QED
      BY <1>1, <3>1, <3>2, Zenon DEF VersionInfo
  <2>2. CASE versions.version # 0
    <3>1. IncreaseVersionByDeposit = [versions EXCEPT !.version = versions.version + 1]
      BY <2>2, Zenon DEF IncreaseVersionByDeposit
    <3>2. versions.version + 1 \in Nat
      BY <1>1
    <3> QED
      BY <1>1, <3>1, <3>2, Zenon DEF VersionInfo
  <2> QED
    BY <2>1, <2>2, Zenon
<1>3. x \in Nat
  BY NativeBalancesAssumption, Zenon
<1> DEFINE e == [version |-> versions.version + 1, amount |-> x]
           k == IF store[s].index >= 0 THEN store[s].index ELSE Cardinality(Registered(store))
           l == Append(store[s].deposits, e)
           b == (store[s].balance + x) % Modulus
           i == [index |-> k, deposits |-> l, withdrawVersion |-> 0, balance |-> b]
<1>4. e \in Entry
  <2>1. versions.version + 1 \in Nat
    BY <1>1
  <2> QED
    BY <1>3, <2>1, Zenon DEF Entry
<1>5. Deposited(s, x) = [store EXCEPT ![s] = i]
  BY <1>2, Zenon DEF Deposited
<1>6. k \in Int /\ l \in Seq(Entry) /\ b \in Nat
  <2>1. store[s].index \in Int /\ store[s].deposits \in Seq(Entry) /\ store[s].balance \in Nat
    BY Parts, Zenon
  <2>2. Cardinality(Registered(store)) \in Int
    <3>1. Cardinality(Registered(store)) \in Nat
      BY RegisteredFinite, Zenon
    <3> QED
      BY <3>1
  <2>3. k \in Int
    BY <2>1, <2>2, Zenon
  <2>4. l \in Seq(Entry)
    BY <1>4, <2>1, ListAppend, Zenon
  <2>5. b \in Nat
    <3>1. Modulus \in Nat \ {0}
      BY NativeBalancesAssumption, Zenon
    <3>2. \A y, m \in Nat : m # 0 => y % m \in Nat
      OBVIOUS
    <3>3. store[s].balance + x \in Nat
      BY <1>3, <2>1
    <3> QED
      BY <3>1, <3>2, <3>3, Zenon
  <2> QED
    BY <2>3, <2>4, <2>5, Zenon
<1>7. i \in StakerInfo
  BY <1>6, Zenon DEF StakerInfo
<1>8. i.index = k /\ i.deposits = l /\ i.balance = b
  BY Zenon
<1> HIDE DEF e, k, l, b, i
<1>9. store \in [Stakers -> StakerInfo]
  BY Zenon DEF Types
<1>10. /\ Deposited(s, x) \in [Stakers -> StakerInfo]
       /\ \A t \in Stakers : t # s => Deposited(s, x)[t] = store[t]
       /\ Deposited(s, x)[s] = i
  BY <1>5, <1>7, <1>9
<1> QED
  BY <1>2, <1>4, <1>8, <1>10, Zenon DEF e, k, l, b

\* The list fits after a deposit, if it is kept and if it is not.
LEMMA DepositedFits ==
  ASSUME Types, Indexed(store), Fits(cache, store), NEW s \in Stakers, NEW x \in Amounts, NEW c,
         c = IF store[s].index >= 0 THEN cache ELSE AddNSTStaker(cache, Deposited(s, x), s)
  PROVE  /\ c \in Seq(CacheEntry) /\ Fits(c, store) /\ Fits(c, Deposited(s, x))
         /\ Indexed(Deposited(s, x)) /\ Deposited(s, x)[s].index >= 0
         /\ \A t \in Registered(store) :
              t \in Registered(Deposited(s, x)) /\ Deposited(s, x)[t].index = store[t].index
<1>1. PICK st2 \in [Stakers -> StakerInfo] :
        /\ st2 = Deposited(s, x)
        /\ \A t \in Stakers : t # s => st2[t] = store[t]
        /\ st2[s].index = IF store[s].index >= 0 THEN store[s].index ELSE Cardinality(Registered(store))
  BY DepositedParts, Zenon
<1>2. store \in [Stakers -> StakerInfo] /\ cache \in Seq(CacheEntry) /\ store[s].index \in Int
  BY Parts, Zenon DEF Types
<1>3. CASE store[s].index >= 0
  <2>1. \A t \in Stakers : st2[t].index = store[t].index
    BY <1>1, <1>3, Zenon
  <2>2. Indexed(st2) /\ Fits(cache, st2) /\ Registered(st2) = Registered(store)
    BY <2>1, SameIndexes, Zenon
  <2>3. \A t \in Registered(store) : t \in Stakers
    BY Zenon DEF Registered
  <2> QED
    BY <1>1, <1>2, <1>3, <2>1, <2>2, <2>3, Zenon
<1>4. CASE ~(store[s].index >= 0)
  <2>1. store[s].index < 0
    BY <1>2, <1>4
  <2>2. st2[s].index = Cardinality(Registered(store))
    BY <1>1, <1>4, Zenon
  <2>3. \A t \in Stakers : t # s => st2[t].index = store[t].index
    BY <1>1, Zenon
  <2>4. /\ Indexed(st2) /\ s \in Registered(st2)
        /\ \A t \in Registered(store) : t \in Registered(st2) /\ st2[t].index = store[t].index
    BY <1>2, <2>1, <2>2, <2>3, OneMore
  <2>5. c = AddNSTStaker(cache, st2, s)
    BY <1>1, <1>4, Zenon
  <2>6. c \in Seq(CacheEntry) /\ Fits(c, store) /\ Fits(c, st2)
    BY <1>2, <2>1, <2>2, <2>3, <2>5, AddedFits
  <2>7. st2[s].index >= 0
    BY <2>4, Zenon DEF Registered
  <2> QED
    BY <1>1, <2>4, <2>6, <2>7, Zenon
<1> QED
  BY <1>3, <1>4, Zenon

\* A transaction that is reverted leaves nothing but the list, and x/delegation
\* changes nothing of the oracle.
LEMMA KeptStep ==
  ASSUME NativeInv, NEW s \in Stakers,
         \/ past' = [past EXCEPT !.reverted = past.reverted \cup {s}]
         \/ past' = [past EXCEPT !.delegated = past.delegated \cup {s}],
         UNCHANGED <<versions, store, report, chain>>,
         cache' \in Seq(CacheEntry), Fits(cache', store)
  PROVE  NativeInv'
<1>1. /\ Types /\ Versioned /\ Indexed(store) /\ Reported /\ Solvent /\ OracleExact
  BY Zenon DEF NativeInv
<1>2. past \in PastInfo
  BY <1>1, Zenon DEF Types
<1>3. /\ past' \in PastInfo
      /\ past'.withdrawals = past.withdrawals /\ past'.known = past.known
      /\ past'.misread = past.misread /\ past'.overdrawn = past.overdrawn
  <2>1. CASE past' = [past EXCEPT !.reverted = past.reverted \cup {s}]
    <3>1. past.reverted \cup {s} \in SUBSET Stakers
      BY <1>2, Zenon DEF PastInfo
    <3> QED
      BY <1>2, <2>1, <3>1, Zenon DEF PastInfo
  <2>2. CASE past' = [past EXCEPT !.delegated = past.delegated \cup {s}]
    <3>1. past.delegated \cup {s} \in SUBSET Stakers
      BY <1>2, Zenon DEF PastInfo
    <3> QED
      BY <1>2, <2>2, <3>1, Zenon DEF PastInfo
  <2> QED
    BY <2>1, <2>2, Zenon
<1>4. Types'
  BY <1>1, <1>3, Zenon DEF Types
<1>5. Versioned' /\ Indexed(store)' /\ Fits(cache, store)'
  BY <1>1, <1>3, Zenon DEF Versioned, Indexed, Fits
<1>6. Reported'
  BY <1>1, <1>3, Zenon DEF Reported
<1>7. Solvent' /\ OracleExact'
  BY <1>1, <1>3, Zenon DEF Solvent, OnChain, OracleExact, Exempt
<1> QED
  BY <1>4, <1>5, <1>6, <1>7, Zenon DEF NativeInv

\* A deposit is later than what is being reported.
LEMMA DepositStep ==
  ASSUME NativeInv, NoOverflow', NEW s \in Stakers, NEW x \in Amounts, Deposit(s, x, FALSE)
  PROVE  NativeInv'
<1>1. /\ Types /\ Versioned /\ Indexed(store) /\ Fits(cache, store)
      /\ Reported /\ Solvent /\ OracleExact
  BY Zenon DEF NativeInv
<1>2. /\ UNCHANGED <<report, chain, past>>
      /\ versions' = IncreaseVersionByDeposit /\ store' = Deposited(s, x)
      /\ cache' = IF store[s].index >= 0 THEN cache ELSE AddNSTStaker(cache, Deposited(s, x), s)
  BY Zenon DEF Deposit, Committed
<1>3. PICK n \in Nat : n = versions.version
  BY <1>1, Parts, Zenon
<1>4. PICK e \in Entry : e = [version |-> n + 1, amount |-> x]
  BY <1>1, <1>3, DepositedParts, Zenon
<1>5. /\ versions' \in VersionInfo /\ versions'.version = n + 1
      /\ versions'.withdraw = versions.withdraw /\ versions'.feedWithdraw = versions.feedWithdraw
      /\ versions'.feed = versions.feed \/ versions'.feed = n + 1
  BY <1>1, <1>2, <1>3, DepositedParts, Zenon
<1>6. /\ store' \in [Stakers -> StakerInfo] /\ \A t \in Stakers : t # s => store'[t] = store[t]
      /\ store'[s].deposits = Append(store[s].deposits, e)
      /\ store'[s].balance = (store[s].balance + x) % Modulus
  BY <1>1, <1>2, <1>3, <1>4, DepositedParts, Zenon
<1>7. /\ cache' \in Seq(CacheEntry) /\ Fits(cache', store')
      /\ Indexed(store') /\ store'[s].index >= 0
      /\ \A t \in Registered(store) : t \in Registered(store') /\ store'[t].index = store[t].index
  BY <1>1, <1>2, DepositedFits, Zenon
<1>8. x \in Nat /\ e.amount = x /\ e.version = n + 1
  BY <1>4, NativeBalancesAssumption, Zenon
<1>10. Types'
  BY <1>1, <1>2, <1>5, <1>6, <1>7, Zenon DEF Types
<1>11. /\ versions.feed \in Nat /\ versions.feed <= n /\ versions.feedWithdraw <= versions.withdraw
       /\ n + 1 \in Nat /\ n <= n + 1 /\ n + 1 # 0
  <2>1. versions.feed \in Nat /\ versions.feed <= n /\ versions.feedWithdraw <= versions.withdraw
    BY <1>1, <1>3, Parts, Zenon DEF Versioned
  <2> QED
    BY <2>1
<1>12. \A t \in Stakers : store[t].deposits \in Seq(Entry) /\ store[t].index \in Int
  BY <1>1, Parts, Zenon
<1>13. ASSUME NEW t \in Stakers, NEW v \in Nat
       PROVE  /\ v <= n => UpTo(store'[t].deposits, v) = UpTo(store[t].deposits, v)
              /\ UpTo(store'[t].deposits, n + 1) >= UpTo(store[t].deposits, v)
              /\ t # s => Amount(store'[t].deposits) = Amount(store[t].deposits)
              /\ t = s => Amount(store'[t].deposits) = Amount(store[t].deposits) + x
  <2> DEFINE l == store[t].deposits
             a == Amount(l)
             u == UpTo(l, v)
             w == UpTo(l, n + 1)
             f == After(l, v)
  <2>1. /\ a \in Nat /\ u \in Nat /\ f \in Nat /\ u + f = a /\ w = a /\ l \in Seq(Entry)
    <3>1. n + 1 >= versions.version
      BY <1>3
    <3> QED
      BY <1>1, <1>11, <1>12, <3>1, AllUpToNow, Zenon
  <2>2. CASE t = s
    <3>1. /\ Amount(store'[t].deposits) = a + x
          /\ UpTo(store'[t].deposits, v) = u + (IF n + 1 <= v THEN x ELSE 0)
          /\ UpTo(store'[t].deposits, n + 1) = w + (IF n + 1 <= n + 1 THEN x ELSE 0)
      <4>1. store'[t].deposits = Append(l, e)
        BY <1>6, <2>2, Zenon
      <4> HIDE DEF l
      <4>2. /\ Amount(Append(l, e)) = Amount(l) + e.amount
            /\ UpTo(Append(l, e), v) = UpTo(l, v) + (IF e.version <= v THEN e.amount ELSE 0)
            /\ UpTo(Append(l, e), n + 1) = UpTo(l, n + 1) + (IF e.version <= n + 1 THEN e.amount ELSE 0)
        BY <1>11, <2>1, ListAppend, Zenon
      <4> QED
        BY <1>8, <4>1, <4>2, Zenon
    <3> HIDE DEF l, a, u, w, f
    <3>2. /\ v <= n => u + (IF n + 1 <= v THEN x ELSE 0) = u
          /\ w + (IF n + 1 <= n + 1 THEN x ELSE 0) >= u
      BY <1>8, <2>1
    <3> QED
      BY <2>2, <3>1, <3>2, Zenon DEF a, u, l
  <2>3. CASE t # s
    <3>1. store'[t] = store[t]
      BY <1>6, <2>3, Zenon
    <3> HIDE DEF l, a, u, w, f
    <3>2. w >= u
      BY <2>1
    <3> QED
      BY <2>3, <3>1, <3>2, Zenon DEF w, u, l
  <2> QED
    BY <2>2, <2>3, Zenon
<1>14. Versioned'
  <2>1. versions'.feed <= versions'.version /\ versions'.feedWithdraw <= versions'.withdraw
    <3>1. \A a, b, c : a \in Nat /\ b \in Nat /\ a <= b /\ (c = a \/ c = b + 1) => c <= b + 1
      OBVIOUS
    <3> QED
      BY <1>5, <1>11, <3>1, Zenon
  <2>2. versions'.version # 0
    BY <1>5, <1>11, Zenon
  <2>3. ASSUME NEW t \in Stakers
        PROVE  /\ \A i \in DOMAIN store'[t].deposits : store'[t].deposits[i].version <= n + 1
               /\ \A i \in DOMAIN past.withdrawals[t] :
                    past.withdrawals[t][i].version <= versions.withdraw
               /\ store'[t].index < 0 => store'[t] = NoStaker /\ past.withdrawals[t] = <<>>
    <3> DEFINE l == store[t].deposits
    <3>1. /\ \A i \in DOMAIN l : l[i].version <= n
          /\ \A i \in DOMAIN past.withdrawals[t] : past.withdrawals[t][i].version <= versions.withdraw
          /\ store[t].index < 0 => store[t] = NoStaker /\ past.withdrawals[t] = <<>>
      BY <1>1, <1>3, Zenon DEF Versioned
    <3>2. l \in Seq(Entry)
      BY <1>12, Zenon
    <3>3. store'[t].index < 0 => t # s
      <4>1. store'[s] \in StakerInfo
        BY <1>6, Zenon
      <4>2. store'[s].index \in Int
        BY <4>1, Zenon DEF StakerInfo
      <4>3. ~(store'[s].index < 0)
        BY <1>7, <4>2
      <4> QED
        BY <4>3, Zenon
    <3>4. CASE t = s
      <4> HIDE DEF l
      <4>1. \A i \in DOMAIN Append(l, e) : Append(l, e)[i].version <= n + 1
        <5>1. \A i \in DOMAIN l : l[i] \in Entry
          BY <3>2
        <5>2. \A i \in DOMAIN l : l[i].version \in Nat
          BY <5>1, Zenon DEF Entry
        <5>3. \A i \in DOMAIN l : l[i].version <= n + 1
          BY <3>1, <5>2
        <5>4. \A i \in DOMAIN Append(l, e) :
                (i \in DOMAIN l /\ Append(l, e)[i] = l[i]) \/ Append(l, e)[i] = e
          BY <3>2
        <5>5. e.version <= n + 1
          BY <1>8
        <5> QED
          BY <5>3, <5>4, <5>5, Zenon
      <4> QED
        BY <1>6, <3>1, <3>3, <3>4, <4>1, Zenon DEF l
    <3>5. CASE t # s
      <4>1. store'[t] = store[t]
        BY <1>6, <3>5, Zenon
      <4> HIDE DEF l
      <4>2. \A i \in DOMAIN l : l[i] \in Entry
        BY <3>2
      <4>3. \A i \in DOMAIN l : l[i].version \in Nat
        BY <4>2, Zenon DEF Entry
      <4>4. \A i \in DOMAIN l : l[i].version <= n + 1
        BY <3>1, <4>3
      <4> QED
        BY <3>1, <4>1, <4>4, Zenon DEF l
    <3> QED
      BY <3>4, <3>5, Zenon
  <2> QED
    BY <1>2, <1>5, <2>1, <2>2, <2>3, Zenon DEF Versioned
<1>15. Reported'
  <2> SUFFICES ASSUME report.sent
               PROVE  /\ report.version \in Nat /\ report.withdrawVersion \in Nat
                      /\ report.chain \in [Stakers -> Int]
                      /\ report.version <= n + 1 /\ report.withdrawVersion <= versions.withdraw
                      /\ \A i \in DOMAIN report.balances :
                           \E t \in Registered(store') : i = store'[t].index + 1
                      /\ \A t \in Registered(store') : store'[t].index + 1 \in DOMAIN report.balances =>
                           /\ report.balances[store'[t].index + 1] >= 0
                           /\ report.balances[store'[t].index + 1] =
                                UpTo(store'[t].deposits, report.version)
                                - UpTo(past.withdrawals[t], report.withdrawVersion) + report.chain[t]
    BY <1>2, <1>5, Zenon DEF Reported
  <2>1. /\ report.version \in Nat /\ report.withdrawVersion \in Nat /\ report.chain \in [Stakers -> Int]
        /\ report.version <= n /\ report.withdrawVersion <= versions.withdraw
    BY <1>1, <1>3, Zenon DEF Reported
  <2>2. \A i \in DOMAIN report.balances : \E t \in Registered(store) : i = store[t].index + 1
    BY <1>1, Zenon DEF Reported
  <2>3. report.version <= n + 1
    BY <2>1
  <2>4. ASSUME NEW t \in Registered(store'), store'[t].index + 1 \in DOMAIN report.balances
        PROVE  /\ report.balances[store'[t].index + 1] >= 0
               /\ report.balances[store'[t].index + 1] =
                    UpTo(store'[t].deposits, report.version)
                    - UpTo(past.withdrawals[t], report.withdrawVersion) + report.chain[t]
    <3>1. PICK r \in Registered(store) : store'[t].index + 1 = store[r].index + 1
      BY <2>2, <2>4, Zenon
    <3>2. r \in Registered(store') /\ store'[r].index = store[r].index /\ t \in Stakers /\ r \in Stakers
      BY <1>7, Zenon DEF Registered
    <3>3. store'[t].index = store'[r].index
      <4>1. store'[t] \in StakerInfo
        BY <1>6, <3>2, Zenon
      <4>2. store'[t].index \in Int /\ store[r].index \in Int
        BY <1>12, <3>2, <4>1, Zenon DEF StakerInfo
      <4> QED
        BY <3>1, <3>2, <4>2
    <3>4. t = r
      BY <1>7, <3>2, <3>3, Zenon DEF Indexed
    <3>5. UpTo(store'[t].deposits, report.version) = UpTo(store[t].deposits, report.version)
      BY <1>13, <2>1, <3>2, Zenon
    <3>6. /\ report.balances[store[t].index + 1] >= 0
          /\ report.balances[store[t].index + 1] =
               UpTo(store[t].deposits, report.version)
               - UpTo(past.withdrawals[t], report.withdrawVersion) + report.chain[t]
      BY <1>1, <2>4, <3>2, <3>4, Zenon DEF Reported
    <3> QED
      BY <3>2, <3>4, <3>5, <3>6, Zenon
  <2>5. \A i \in DOMAIN report.balances : \E t \in Registered(store') : i = store'[t].index + 1
    BY <1>7, <2>2, Zenon
  <2> QED
    BY <2>1, <2>3, <2>4, <2>5, Zenon
<1>16. Solvent'
  <2> SUFFICES ASSUME NEW t \in Stakers
               PROVE  /\ UpTo(store'[t].deposits, n + 1)
                         - UpTo(past.withdrawals[t], versions.withdraw) + chain[t] >= 0
                      /\ UpTo(store'[t].deposits, versions'.feed)
                         - UpTo(past.withdrawals[t], versions.feedWithdraw) + chain[t] >= 0
                      /\ t \notin Exempt =>
                           UpTo(store'[t].deposits, versions'.feed)
                           - UpTo(past.withdrawals[t], versions.feedWithdraw) + past.known[t] >= 0
    BY <1>2, <1>5, Zenon DEF Solvent, OnChain, Exempt
  <2> DEFINE d == UpTo(store[t].deposits, n)
             f == UpTo(store[t].deposits, versions.feed)
             d2 == UpTo(store'[t].deposits, n + 1)
             f2 == UpTo(store'[t].deposits, versions'.feed)
             w == UpTo(past.withdrawals[t], versions.withdraw)
             g == UpTo(past.withdrawals[t], versions.feedWithdraw)
  <2>1. /\ d - w + chain[t] >= 0 /\ f - g + chain[t] >= 0
        /\ t \notin Exempt => f - g + past.known[t] >= 0
    BY <1>1, <1>3, Zenon DEF Solvent, OnChain, Exempt
  <2>2. d \in Int /\ f \in Int /\ w \in Int /\ g \in Int /\ chain[t] \in Int /\ past.known[t] \in Int
    <3>1. d \in Nat /\ f \in Nat /\ w \in Nat /\ g \in Nat
      BY <1>1, <1>3, AllUpToNow, Parts, Zenon
    <3>2. chain[t] \in Int /\ past.known[t] \in Int
      BY <1>1, Parts, Zenon
    <3> QED
      BY <3>1, <3>2
  <2>3. d2 >= d /\ d2 >= f
    BY <1>11, <1>13, Zenon
  <2>4. d2 \in Int
    <3>1. store'[t].deposits \in Seq(Entry)
      BY <1>6, Zenon DEF StakerInfo
    <3>2. d2 \in Nat
      BY <1>11, <3>1, ListSums, Zenon
    <3> QED
      BY <3>2
  <2>5. f2 = f \/ f2 = d2
    BY <1>5, <1>11, <1>13, Zenon
  <2> HIDE DEF d, f, d2, f2, w, g
  <2>6. /\ d2 - w + chain[t] >= 0 /\ f2 - g + chain[t] >= 0
        /\ t \notin Exempt => f2 - g + past.known[t] >= 0
    BY <2>1, <2>2, <2>3, <2>4, <2>5
  <2> QED
    BY <2>6, Zenon DEF d2, f2, w, g
<1>17. OracleExact'
  <2> SUFFICES ASSUME NEW t \in Stakers \ Exempt
               PROVE  store'[t].balance = Amount(store'[t].deposits) - Amount(past.withdrawals[t])
                                          + past.known[t]
    BY <1>2, Zenon DEF OracleExact, Exempt
  <2>1. store[t].balance = Amount(store[t].deposits) - Amount(past.withdrawals[t]) + past.known[t]
    BY <1>1, Zenon DEF OracleExact
  <2>2. CASE t # s
    BY <1>6, <2>1, <2>2, Zenon
  <2>3. CASE t = s
    <3> DEFINE b == store[t].balance
               a == Amount(store[t].deposits)
               w == Amount(past.withdrawals[t])
               k == past.known[t]
    <3>1. b \in Nat /\ a \in Nat /\ w \in Nat /\ k \in Int
      BY <1>1, <1>3, AllUpToNow, Parts, Zenon
    <3>2. b = a - w + k
      BY <2>1, Zenon
    <3>3. Amount(store'[t].deposits) = a + x
      BY <1>3, <1>13, <2>3, Zenon
    <3>4. (a + x) - w + k < Modulus
      BY <1>2, <3>3, Zenon DEF NoOverflow, Exempt
    <3>5. Modulus \in Nat \ {0}
      BY NativeBalancesAssumption, Zenon
    <3> HIDE DEF b, a, w, k
    <3>6. b + x = (a + x) - w + k
      BY <1>8, <3>1, <3>2
    <3>7. (b + x) % Modulus = b + x
      BY <1>8, <3>1, <3>4, <3>5, <3>6
    <3> QED
      BY <1>6, <2>3, <3>3, <3>6, <3>7, Zenon DEF b, a, w, k
  <2> QED
    BY <2>2, <2>3, Zenon
<1>18. Indexed(store)' /\ Fits(cache, store)'
  BY <1>7, Zenon DEF Indexed, Fits
<1> QED
  BY <1>10, <1>14, <1>15, <1>16, <1>17, <1>18, Zenon DEF NativeInv

\* What a withdrawal does to the versions and to the staker.
LEMMA WithdrawnParts ==
  ASSUME Types, NEW s \in Stakers, NEW x \in Amounts
  PROVE  /\ IncreaseVersionByWithdraw \in VersionInfo
         /\ IncreaseVersionByWithdraw.version = versions.version
         /\ IncreaseVersionByWithdraw.feed = versions.feed
         /\ IncreaseVersionByWithdraw.withdraw = versions.withdraw + 1
         /\ IncreaseVersionByWithdraw.feedWithdraw = versions.feedWithdraw
         /\ Withdrawn(s, x) \in [Stakers -> StakerInfo]
         /\ \A t \in Stakers : t # s => Withdrawn(s, x)[t] = store[t]
         /\ Withdrawn(s, x)[s].index = store[s].index
         /\ Withdrawn(s, x)[s].deposits = store[s].deposits
         /\ Withdrawn(s, x)[s].balance = IF x > store[s].balance THEN 0 ELSE store[s].balance - x
         /\ [version |-> versions.withdraw + 1, amount |-> x] \in Entry
<1>1. versions \in VersionInfo /\ versions.withdraw \in Nat /\ x \in Nat
  <2>1. versions \in VersionInfo /\ versions.withdraw \in Nat
    BY Parts, Zenon DEF Types
  <2> QED
    BY <2>1, NativeBalancesAssumption, Zenon
<1>2. versions.withdraw + 1 \in Nat
  BY <1>1
<1>3. /\ IncreaseVersionByWithdraw \in VersionInfo
      /\ IncreaseVersionByWithdraw.version = versions.version
      /\ IncreaseVersionByWithdraw.feed = versions.feed
      /\ IncreaseVersionByWithdraw.withdraw = versions.withdraw + 1
      /\ IncreaseVersionByWithdraw.feedWithdraw = versions.feedWithdraw
  <2>1. IncreaseVersionByWithdraw = [versions EXCEPT !.withdraw = versions.withdraw + 1]
    BY Zenon DEF IncreaseVersionByWithdraw
  <2> QED
    BY <1>1, <1>2, <2>1, Zenon DEF VersionInfo
<1> DEFINE b == IF x > store[s].balance THEN 0 ELSE store[s].balance - x
           i == [store[s] EXCEPT !.withdrawVersion = versions.withdraw + 1, !.balance = b]
<1>4. store \in [Stakers -> StakerInfo] /\ store[s] \in StakerInfo /\ store[s].balance \in Nat
  BY Parts, Zenon DEF Types
<1>5. Withdrawn(s, x) = [store EXCEPT ![s] = i]
  BY <1>3, <1>4, Zenon DEF Withdrawn, StakerInfo
<1>6. b \in Nat
  BY <1>1, <1>4
<1>7. b = IF x > store[s].balance THEN 0 ELSE store[s].balance - x
  BY Zenon
<1> HIDE DEF b
<1>8. i \in StakerInfo /\ i.index = store[s].index /\ i.deposits = store[s].deposits /\ i.balance = b
  BY <1>2, <1>4, <1>6, Zenon DEF StakerInfo
<1> HIDE DEF i
<1>9. /\ Withdrawn(s, x) \in [Stakers -> StakerInfo]
      /\ \A t \in Stakers : t # s => Withdrawn(s, x)[t] = store[t]
      /\ Withdrawn(s, x)[s] = i
  BY <1>4, <1>5, <1>8
<1>10. [version |-> versions.withdraw + 1, amount |-> x] \in Entry
  BY <1>1, <1>2, Zenon DEF Entry
<1> QED
  BY <1>3, <1>7, <1>8, <1>9, <1>10, Zenon

\* The list fits after a withdrawal, if it is kept and if it is not.
LEMMA WithdrawnFits ==
  ASSUME Types, Indexed(store), Fits(cache, store), NEW s \in Stakers, NEW x \in Amounts, NEW c,
         c = UpdateWithdrawVersion(cache, Withdrawn(s, x), s)
  PROVE  /\ c \in Seq(CacheEntry) /\ Fits(c, store) /\ Fits(c, Withdrawn(s, x))
         /\ Indexed(Withdrawn(s, x)) /\ Registered(Withdrawn(s, x)) = Registered(store)
         /\ \A t \in Stakers : Withdrawn(s, x)[t].index = store[t].index
<1>1. PICK st2 \in [Stakers -> StakerInfo] :
        st2 = Withdrawn(s, x) /\ \A t \in Stakers : st2[t].index = store[t].index
  <2>1. PICK st2 \in [Stakers -> StakerInfo] :
          /\ st2 = Withdrawn(s, x) /\ st2[s].index = store[s].index
          /\ \A t \in Stakers : t # s => st2[t] = store[t]
    BY WithdrawnParts, Zenon
  <2> QED
    BY <2>1, Zenon
<1>2. store \in [Stakers -> StakerInfo] /\ cache \in Seq(CacheEntry)
  BY Zenon DEF Types
<1>3. Indexed(st2) /\ Registered(st2) = Registered(store)
  BY <1>1, SameIndexes, Zenon
<1>4. c = UpdateWithdrawVersion(cache, st2, s)
  BY <1>1, Zenon
<1>5. c \in Seq(CacheEntry) /\ Fits(c, store) /\ Fits(c, st2)
  BY <1>1, <1>2, <1>4, UpdatedFits
<1> QED
  BY <1>1, <1>3, <1>5, Zenon

\* A withdrawal is later than what is being reported; a staker that withdraws
\* more than the oracle knows of is left out from there on.
LEMMA WithdrawStep ==
  ASSUME NativeInv, NEW s \in Stakers, NEW x \in Amounts, Withdraw(s, x, FALSE)
  PROVE  NativeInv'
<1>1. /\ Types /\ Versioned /\ Indexed(store) /\ Fits(cache, store)
      /\ Reported /\ Solvent /\ OracleExact
  BY Zenon DEF NativeInv
<1>2. /\ UNCHANGED <<report, chain>>
      /\ versions' = IncreaseVersionByWithdraw /\ store' = Withdrawn(s, x)
      /\ cache' = UpdateWithdrawVersion(cache, Withdrawn(s, x), s)
      /\ past' = [past EXCEPT
                    !.withdrawals[s] =
                      Append(past.withdrawals[s],
                             [version |-> IncreaseVersionByWithdraw.withdraw, amount |-> x]),
                    !.overdrawn = IF x > store[s].balance THEN past.overdrawn \cup {s}
                                  ELSE past.overdrawn]
      /\ store[s].index >= 0
      /\ x <= OnChain(s, versions.version, versions.withdraw)
  BY Zenon DEF Withdraw, Committed
<1>3. PICK n \in Nat : n = versions.withdraw
  BY <1>1, Parts, Zenon
<1>4. PICK e \in Entry : e = [version |-> n + 1, amount |-> x]
  BY <1>1, <1>3, WithdrawnParts, Zenon
<1>5. /\ versions' \in VersionInfo /\ versions'.withdraw = n + 1
      /\ versions'.version = versions.version /\ versions'.feed = versions.feed
      /\ versions'.feedWithdraw = versions.feedWithdraw
  BY <1>1, <1>2, <1>3, WithdrawnParts, Zenon
<1>6. /\ store' \in [Stakers -> StakerInfo] /\ \A t \in Stakers : t # s => store'[t] = store[t]
      /\ \A t \in Stakers : store'[t].deposits = store[t].deposits
      /\ store'[s].balance = IF x > store[s].balance THEN 0 ELSE store[s].balance - x
  BY <1>1, <1>2, WithdrawnParts, ZenonT(60)
<1>7. /\ cache' \in Seq(CacheEntry) /\ Fits(cache', store')
      /\ Indexed(store') /\ Registered(store') = Registered(store)
      /\ \A t \in Stakers : store'[t].index = store[t].index
  BY <1>1, <1>2, WithdrawnFits, Zenon
<1>8. x \in Nat /\ e.amount = x /\ e.version = n + 1
  BY <1>4, NativeBalancesAssumption, Zenon
<1>9. /\ past' \in PastInfo
      /\ past'.known = past.known /\ \A t \in Stakers : t \notin Exempt' => t \notin Exempt
      /\ s \notin Exempt' => ~(x > store[s].balance)
      /\ past'.withdrawals[s] = Append(past.withdrawals[s], e)
      /\ \A t \in Stakers : t # s => past'.withdrawals[t] = past.withdrawals[t]
  <2>1. past \in PastInfo
    BY <1>1, Zenon DEF Types
  <2>2. PICK l \in Seq(Entry) : l = Append(past.withdrawals[s], e)
    <3>1. past.withdrawals[s] \in Seq(Entry)
      BY <2>1, Zenon DEF PastInfo
    <3> QED
      BY <1>3, <3>1, ListAppend, Zenon
  <2> DEFINE o == IF x > store[s].balance THEN past.overdrawn \cup {s} ELSE past.overdrawn
  <2>3. past' = [past EXCEPT !.withdrawals = [past.withdrawals EXCEPT ![s] = l], !.overdrawn = o]
    <3>1. [version |-> IncreaseVersionByWithdraw.withdraw, amount |-> x] = e
      BY <1>1, <1>3, <1>4, WithdrawnParts, Zenon
    <3> QED
      BY <1>2, <2>1, <2>2, <3>1, Zenon DEF PastInfo
  <2>4. PICK w \in [Stakers -> Seq(Entry)] :
          w = [past.withdrawals EXCEPT ![s] = l] /\ w[s] = l
          /\ \A t \in Stakers : t # s => w[t] = past.withdrawals[t]
    <3>1. past.withdrawals \in [Stakers -> Seq(Entry)]
      BY <2>1, Zenon DEF PastInfo
    <3>2. /\ [past.withdrawals EXCEPT ![s] = l] \in [Stakers -> Seq(Entry)]
          /\ [past.withdrawals EXCEPT ![s] = l][s] = l
          /\ \A t \in Stakers : t # s => [past.withdrawals EXCEPT ![s] = l][t] = past.withdrawals[t]
      BY <3>1
    <3> QED
      BY <3>2, Zenon
  <2>5. past' = [past EXCEPT !.withdrawals = w, !.overdrawn = o]
    BY <2>3, <2>4, Zenon
  <2>6. o \in SUBSET Stakers
    BY <2>1, Zenon DEF PastInfo
  <2> HIDE DEF o
  <2>7. /\ past' \in PastInfo /\ past'.overdrawn = o
        /\ past'.known = past.known /\ past'.misread = past.misread /\ past'.withdrawals = w
    BY <2>1, <2>5, <2>6, Zenon DEF PastInfo
  <2>8. /\ \A t \in Stakers : t \notin Exempt' => t \notin Exempt
        /\ s \notin Exempt' => ~(x > store[s].balance)
    BY <2>7, Zenon DEF Exempt, o
  <2> QED
    BY <2>2, <2>4, <2>7, <2>8, Zenon
<1>11. Types'
  BY <1>1, <1>2, <1>5, <1>6, <1>7, <1>9, Zenon DEF Types
<1>12. /\ versions.feedWithdraw \in Nat /\ versions.feedWithdraw <= n
       /\ versions.feed <= versions.version /\ versions.feedWithdraw <= n + 1 /\ n + 1 \in Nat
  <2>1. /\ versions.feedWithdraw \in Nat /\ versions.feedWithdraw <= n
        /\ versions.feed <= versions.version
    BY <1>1, <1>3, Parts, Zenon DEF Versioned
  <2> QED
    BY <2>1
<1>13. \A t \in Stakers : past.withdrawals[t] \in Seq(Entry) /\ store[t].index \in Int
  BY <1>1, Parts, Zenon
<1>14. ASSUME NEW t \in Stakers, NEW v \in Nat
       PROVE  /\ v <= n => UpTo(past'.withdrawals[t], v) = UpTo(past.withdrawals[t], v)
              /\ t # s => UpTo(past'.withdrawals[t], n + 1) = UpTo(past.withdrawals[t], n)
              /\ t = s => UpTo(past'.withdrawals[t], n + 1) = UpTo(past.withdrawals[t], n) + x
              /\ t = s => Amount(past'.withdrawals[t]) = Amount(past.withdrawals[t]) + x
  <2> DEFINE l == past.withdrawals[t]
  <2>1. l \in Seq(Entry) /\ UpTo(l, n) = Amount(l) /\ UpTo(l, n + 1) = Amount(l)
        /\ Amount(l) \in Nat /\ UpTo(l, v) \in Nat
    <3>1. n + 1 >= versions.withdraw /\ n >= versions.withdraw
      BY <1>3
    <3> QED
      BY <1>1, <1>12, <1>13, <3>1, AllUpToNow, Zenon
  <2>2. CASE t = s
    <3>1. past'.withdrawals[t] = Append(l, e)
      BY <1>9, <2>2, Zenon
    <3> HIDE DEF l
    <3>2. /\ Amount(Append(l, e)) = Amount(l) + e.amount
          /\ UpTo(Append(l, e), v) = UpTo(l, v) + (IF e.version <= v THEN e.amount ELSE 0)
          /\ UpTo(Append(l, e), n + 1) = UpTo(l, n + 1) + (IF e.version <= n + 1 THEN e.amount ELSE 0)
      BY <1>12, <2>1, ListAppend, Zenon
    <3>3. /\ v <= n => ~(n + 1 <= v)
          /\ n + 1 <= n + 1 /\ \A u \in Nat : u + 0 = u
      OBVIOUS
    <3> QED
      BY <1>8, <2>1, <2>2, <3>1, <3>2, <3>3, ZenonT(60) DEF l
  <2>3. CASE t # s
    BY <1>9, <2>1, <2>3, Zenon
  <2> QED
    BY <2>2, <2>3, Zenon
<1>15. Versioned'
  <2>1. ASSUME NEW t \in Stakers
        PROVE  /\ \A i \in DOMAIN store'[t].deposits : store'[t].deposits[i].version <= versions.version
               /\ \A i \in DOMAIN past'.withdrawals[t] : past'.withdrawals[t][i].version <= n + 1
               /\ store'[t].index < 0 => store'[t] = NoStaker /\ past'.withdrawals[t] = <<>>
    <3> DEFINE l == past.withdrawals[t]
    <3>1. /\ \A i \in DOMAIN store[t].deposits : store[t].deposits[i].version <= versions.version
          /\ \A i \in DOMAIN l : l[i].version <= n
          /\ store[t].index < 0 => store[t] = NoStaker /\ past.withdrawals[t] = <<>>
      BY <1>1, <1>3, Zenon DEF Versioned
    <3>2. l \in Seq(Entry)
      BY <1>13, Zenon
    <3>3. store'[t].index < 0 => t # s
      <4>1. ~(store[s].index < 0)
        BY <1>2, <1>13
      <4> QED
        BY <1>7, <4>1, Zenon
    <3>4. \A i \in DOMAIN store'[t].deposits : store'[t].deposits[i].version <= versions.version
      BY <1>6, <3>1, Zenon
    <3>5. \A i \in DOMAIN l : l[i].version <= n + 1
      <4> HIDE DEF l
      <4>1. \A i \in DOMAIN l : l[i] \in Entry
        BY <3>2
      <4>2. \A i \in DOMAIN l : l[i].version \in Nat
        BY <4>1, Zenon DEF Entry
      <4> QED
        BY <3>1, <4>2
    <3>6. CASE t = s
      <4>1. past'.withdrawals[t] = Append(l, e)
        BY <1>9, <3>6, Zenon
      <4> HIDE DEF l
      <4>2. \A i \in DOMAIN Append(l, e) :
              (i \in DOMAIN l /\ Append(l, e)[i] = l[i]) \/ Append(l, e)[i] = e
        BY <3>2
      <4>3. e.version <= n + 1
        BY <1>8
      <4>4. \A i \in DOMAIN Append(l, e) : Append(l, e)[i].version <= n + 1
        BY <3>5, <4>2, <4>3, Zenon
      <4> QED
        BY <3>3, <3>4, <3>6, <4>1, <4>4, Zenon
    <3>7. CASE t # s
      BY <1>6, <1>9, <3>1, <3>4, <3>5, <3>7, Zenon
    <3> QED
      BY <3>6, <3>7, Zenon
  <2>2. versions.version = 0 => \A t \in Stakers : store[t].index < 0
    BY <1>1, Zenon DEF Versioned
  <2> QED
    BY <1>5, <1>7, <1>12, <2>1, <2>2, Zenon DEF Versioned
<1>16. Reported'
  <2> SUFFICES ASSUME report.sent
               PROVE  /\ report.version \in Nat /\ report.withdrawVersion \in Nat
                      /\ report.chain \in [Stakers -> Int]
                      /\ report.version <= versions.version /\ report.withdrawVersion <= n + 1
                      /\ \A i \in DOMAIN report.balances :
                           \E t \in Registered(store) : i = store'[t].index + 1
                      /\ \A t \in Registered(store) : store'[t].index + 1 \in DOMAIN report.balances =>
                           /\ report.balances[store'[t].index + 1] >= 0
                           /\ report.balances[store'[t].index + 1] =
                                UpTo(store'[t].deposits, report.version)
                                - UpTo(past'.withdrawals[t], report.withdrawVersion) + report.chain[t]
    BY <1>2, <1>5, <1>7, ZenonT(60) DEF Reported
  <2>1. /\ report.version \in Nat /\ report.withdrawVersion \in Nat /\ report.chain \in [Stakers -> Int]
        /\ report.version <= versions.version /\ report.withdrawVersion <= n
    BY <1>1, <1>3, Zenon DEF Reported
  <2>2. report.withdrawVersion <= n + 1
    BY <2>1
  <2>3. \A t \in Registered(store) : t \in Stakers
    BY Zenon DEF Registered
  <2>4. \A t \in Registered(store) :
          /\ store'[t].index = store[t].index /\ store'[t].deposits = store[t].deposits
          /\ UpTo(past'.withdrawals[t], report.withdrawVersion)
               = UpTo(past.withdrawals[t], report.withdrawVersion)
    BY <1>6, <1>7, <1>14, <2>1, <2>3, Zenon
  <2>5. /\ \A i \in DOMAIN report.balances : \E t \in Registered(store) : i = store[t].index + 1
        /\ \A t \in Registered(store) : store[t].index + 1 \in DOMAIN report.balances =>
             /\ report.balances[store[t].index + 1] >= 0
             /\ report.balances[store[t].index + 1] =
                  UpTo(store[t].deposits, report.version)
                  - UpTo(past.withdrawals[t], report.withdrawVersion) + report.chain[t]
    BY <1>1, Zenon DEF Reported
  <2>6. ASSUME NEW i \in DOMAIN report.balances
        PROVE  \E t \in Registered(store) : i = store'[t].index + 1
    <3>1. PICK t \in Registered(store) : i = store[t].index + 1
      BY <2>5, Zenon
    <3>2. store'[t].index = store[t].index
      BY <2>4, Zenon
    <3> QED
      BY <3>1, <3>2, Zenon
  <2>7. ASSUME NEW t \in Registered(store), store'[t].index + 1 \in DOMAIN report.balances
        PROVE  /\ report.balances[store'[t].index + 1] >= 0
               /\ report.balances[store'[t].index + 1] =
                    UpTo(store'[t].deposits, report.version)
                    - UpTo(past'.withdrawals[t], report.withdrawVersion) + report.chain[t]
    BY <2>4, <2>5, <2>7, Zenon
  <2> QED
    BY <2>1, <2>2, <2>6, <2>7, Zenon
<1>17. Solvent'
  <2> SUFFICES ASSUME NEW t \in Stakers
               PROVE  /\ UpTo(store[t].deposits, versions.version)
                         - UpTo(past'.withdrawals[t], n + 1) + chain[t] >= 0
                      /\ UpTo(store[t].deposits, versions.feed)
                         - UpTo(past'.withdrawals[t], versions.feedWithdraw) + chain[t] >= 0
                      /\ t \notin Exempt' =>
                           UpTo(store[t].deposits, versions.feed)
                           - UpTo(past'.withdrawals[t], versions.feedWithdraw) + past.known[t] >= 0
    BY <1>2, <1>5, <1>6, <1>9, Zenon DEF Solvent, OnChain
  <2>1. /\ OnChain(t, versions.version, n) >= 0 /\ OnChain(t, versions.feed, versions.feedWithdraw) >= 0
        /\ t \notin Exempt =>
             UpTo(store[t].deposits, versions.feed)
             - UpTo(past.withdrawals[t], versions.feedWithdraw) + past.known[t] >= 0
    BY <1>1, <1>3, Zenon DEF Solvent
  <2>2. UpTo(past'.withdrawals[t], versions.feedWithdraw) = UpTo(past.withdrawals[t], versions.feedWithdraw)
    BY <1>12, <1>14, Zenon
  <2>3. UpTo(store[t].deposits, versions.version) - UpTo(past'.withdrawals[t], n + 1) + chain[t] >= 0
    <3> DEFINE d == UpTo(store[t].deposits, versions.version)
               w == UpTo(past.withdrawals[t], n)
    <3>1. d \in Nat /\ w \in Nat /\ chain[t] \in Int
      BY <1>1, <1>3, AllUpToNow, Parts, Zenon
    <3>2. CASE t = s
      <4>1. x <= d - w + chain[t]
        BY <1>2, <1>3, <3>2, Zenon DEF OnChain
      <4> HIDE DEF d, w
      <4>2. d - (w + x) + chain[t] >= 0
        BY <1>8, <3>1, <4>1
      <4>3. UpTo(past'.withdrawals[t], n + 1) = w + x
        BY <1>3, <1>14, <3>2, Zenon DEF w
      <4> QED
        BY <4>2, <4>3, Zenon DEF d
    <3>3. CASE t # s
      BY <1>3, <1>14, <2>1, <3>3, Zenon DEF OnChain
    <3> QED
      BY <3>2, <3>3, Zenon
  <2> QED
    BY <1>9, <2>1, <2>2, <2>3, Zenon DEF OnChain
<1>18. OracleExact'
  <2> SUFFICES ASSUME NEW t \in Stakers, t \notin Exempt'
               PROVE  store'[t].balance = Amount(store[t].deposits) - Amount(past'.withdrawals[t])
                                          + past.known[t]
    BY <1>6, <1>9, Zenon DEF OracleExact
  <2>1. store[t].balance = Amount(store[t].deposits) - Amount(past.withdrawals[t]) + past.known[t]
    BY <1>1, <1>9, Zenon DEF OracleExact
  <2>2. CASE t # s
    BY <1>6, <1>9, <2>1, <2>2, Zenon
  <2>3. CASE t = s
    <3> DEFINE b == store[t].balance
               a == Amount(store[t].deposits)
               w == Amount(past.withdrawals[t])
               k == past.known[t]
    <3>1. b \in Nat /\ a \in Nat /\ w \in Nat /\ k \in Int
      BY <1>1, <1>3, AllUpToNow, Parts, Zenon
    <3>2. b = a - w + k /\ ~(x > b)
      BY <1>9, <2>1, <2>3, Zenon
    <3>3. Amount(past'.withdrawals[t]) = w + x
      BY <1>3, <1>14, <2>3, Zenon
    <3> HIDE DEF b, a, w, k
    <3>4. b - x = a - (w + x) + k
      BY <1>8, <3>1, <3>2
    <3>5. store'[t].balance = b - x
      BY <1>6, <2>3, <3>2, Zenon DEF b
    <3> QED
      BY <3>3, <3>4, <3>5, Zenon DEF b, a, k
  <2> QED
    BY <2>2, <2>3, Zenon
<1>19. Indexed(store)' /\ Fits(cache, store)'
  BY <1>7, Zenon DEF Indexed, Fits
<1> QED
  BY <1>11, <1>15, <1>16, <1>17, <1>18, <1>19, Zenon DEF NativeInv

\* The list that a report is applied with, from memory or from the store, fits.
LEMMA ListFits ==
  ASSUME Types, Indexed(store), Fits(cache, store)
  PROVE  /\ GetStakerList(cache, store) \in Seq(CacheEntry)
         /\ Fits(GetStakerList(cache, store), store)
<1>1. store \in [Stakers -> StakerInfo] /\ cache \in Seq(CacheEntry)
  BY Zenon DEF Types
<1>2. getStakerListNoCache(store) \in Seq(CacheEntry) /\ Fits(getStakerListNoCache(store), store)
  BY <1>1, ListRead, Zenon
<1> QED
  BY <1>1, <1>2, Zenon DEF GetStakerList

\* An entry of a report is applied to the staker it is about, and there is one
\* at most.
LEMMA AppliedEntry ==
  ASSUME NativeInv, report.sent, NEW list, Fits(list, store),
         \A i \in DOMAIN report.balances : i \in DOMAIN list,
         NEW i \in Applied(list), NEW s \in Stakers, list[i].staker = s
  PROVE  s \in Registered(store) /\ i = store[s].index + 1 /\ i \in DOMAIN report.balances
<1>1. i \in DOMAIN report.balances
  BY Zenon DEF Applied
<1>2. PICK t \in Registered(store) : i = store[t].index + 1
  BY <1>1, Zenon DEF NativeInv, Reported
<1>3. list[i].staker = t
  BY <1>1, <1>2, Zenon DEF Fits
<1> QED
  BY <1>1, <1>2, <1>3, Zenon

\* A report that knows all withdrawals of the staker changes its balance by what
\* the staker gained since the last one, and leaves it with what it has.
LEMMA AppliedReport ==
  ASSUME NativeInv, NoOverflow, report.sent, Matches, NEW s \in Registered(store),
         NEW i, i = store[s].index + 1, i \in DOMAIN report.balances
  PROVE  /\ Delta(i, s) \in Int
         /\ s \notin Exempt
            /\ (\A j \in DOMAIN past.withdrawals[s] :
                  past.withdrawals[s][j].version <= report.withdrawVersion)
            => /\ Delta(i, s) = report.chain[s] - past.known[s]
               /\ Amount(store[s].deposits) - Amount(past.withdrawals[s]) + report.chain[s] >= 0
<1>1. Types /\ Versioned /\ Reported /\ Solvent /\ OracleExact /\ s \in Stakers
  BY Zenon DEF NativeInv, Registered
<1>2. report.version = versions.feed /\ report.withdrawVersion = versions.feedWithdraw
  BY Zenon DEF Matches
<1>3. report.version \in Nat /\ report.withdrawVersion \in Nat /\ report.chain[s] \in Int
  BY <1>1, Zenon DEF Reported
<1> DEFINE l == store[s].deposits
           m == past.withdrawals[s]
           a == Amount(l)
           u == UpTo(l, report.version)
           f == After(l, report.version)
           w == Amount(m)
           g == UpTo(m, report.withdrawVersion)
           b == store[s].balance
           k == past.known[s]
           r == report.balances[i]
           c == report.chain[s]
<1>4. a \in Nat /\ u \in Nat /\ f \in Nat /\ w \in Nat /\ g \in Nat /\ u + f = a
  BY <1>1, <1>3, AllUpToNow, Zenon
<1>5. m \in Seq(Entry) /\ b \in Nat /\ k \in Int /\ c \in Int
  BY <1>1, <1>3, Parts, Zenon
<1>6. r >= 0 /\ r = u - g + c
  BY <1>1, Zenon DEF Reported
<1>7. Delta(i, s) = r - ((b - f) % Modulus)
  BY Zenon DEF Delta, GetBalanceAtVersion
<1>8. s \notin Exempt =>
        b = a - w + k /\ a - w + k < Modulus /\ u - g + k >= 0
  BY <1>1, <1>2, Zenon DEF OracleExact, NoOverflow, Solvent, Exempt
<1>9. (\A j \in DOMAIN m : m[j].version <= report.withdrawVersion) => g = w
  BY <1>3, <1>5, ListSums, Zenon
<1>10. Modulus \in Nat \ {0}
  BY NativeBalancesAssumption, Zenon
<1> DEFINE q == (b - f) % Modulus
<1> HIDE DEF l, a, u, f, w, g, b, k, r, c
<1>11. q \in Int
  BY <1>4, <1>5, <1>10
<1>12. ASSUME b = a - w + k, a - w + k < Modulus, u - g + k >= 0, g = w
       PROVE  q = b - f
  BY <1>4, <1>5, <1>10, <1>12
<1> HIDE DEF q
<1>13. r - q \in Int
  BY <1>4, <1>5, <1>6, <1>11
<1>14. ASSUME b = a - w + k, a - w + k < Modulus, u - g + k >= 0, g = w
       PROVE  r - q = c - k /\ a - w + c >= 0
  BY <1>4, <1>5, <1>6, <1>12, <1>14
<1>15. Delta(i, s) = r - q
  BY <1>7, Zenon DEF q
<1> QED
  BY <1>8, <1>9, <1>13, <1>14, <1>15, Zenon DEF a, w, c, k, l, m

\* A report that is not applied leaves nothing but the list.
LEMMA IgnoredStep ==
  ASSUME NativeInv, report' = NoReport, UNCHANGED <<versions, store, past, chain>>,
         cache' \in {cache, GetStakerList(cache, store)}
  PROVE  NativeInv'
<1>1. /\ Types /\ Versioned /\ Indexed(store) /\ Fits(cache, store) /\ Solvent /\ OracleExact
  BY Zenon DEF NativeInv
<1>2. cache' \in Seq(CacheEntry) /\ Fits(cache', store)
  BY <1>1, ListFits, Zenon DEF Types
<1>3. Types'
  BY <1>1, <1>2, Zenon DEF Types
<1>4. Versioned' /\ Indexed(store)' /\ Fits(cache, store)'
  BY <1>1, <1>2, Zenon DEF Versioned, Indexed, Fits
<1>5. Reported'
  BY Zenon DEF Reported, NoReport
<1>6. Solvent' /\ OracleExact'
  BY <1>1, Zenon DEF Solvent, OnChain, OracleExact, Exempt
<1> QED
  BY <1>3, <1>4, <1>5, <1>6, Zenon DEF NativeInv

\* What a report says of a staker is compared with its balance; if the report
\* knows its withdrawals, the difference is what it gained since the last one.
LEMMA AppliedDelta ==
  ASSUME NativeInv, NoOverflow, report.sent, Matches,
         NEW list, list = GetStakerList(cache, store),
         \A i \in DOMAIN report.balances : i \in DOMAIN list,
         NEW t \in Stakers, EntryOf(list, t) # {}
  PROVE  /\ t \in Registered(store) /\ EntryDelta(list, t) \in Int
         /\ t \notin Exempt /\ ~Unseen(t) =>
              /\ EntryDelta(list, t) = report.chain[t] - past.known[t]
              /\ Amount(store[t].deposits) - Amount(past.withdrawals[t]) + report.chain[t] >= 0
<1>1. Types /\ Indexed(store) /\ Fits(cache, store) /\ Reported
  BY Zenon DEF NativeInv
<1>2. Fits(list, store)
  BY <1>1, ListFits, Zenon
<1>3. \A i \in EntryOf(list, t) :
        t \in Registered(store) /\ i = store[t].index + 1 /\ i \in DOMAIN report.balances
  <2>1. \A i \in Applied(list) : list[i].staker = t =>
          t \in Registered(store) /\ i = store[t].index + 1 /\ i \in DOMAIN report.balances
    BY <1>2, AppliedEntry, Zenon
  <2> QED
    BY <2>1, Zenon DEF EntryOf
<1>4. PICK k : k = CHOOSE i \in EntryOf(list, t) : TRUE
  OBVIOUS
<1>5. k \in EntryOf(list, t)
  BY <1>4, Zenon
<1>6. /\ t \in Registered(store) /\ k = store[t].index + 1 /\ k \in DOMAIN report.balances
      /\ EntryDelta(list, t) = Delta(k, t)
  BY <1>3, <1>4, <1>5, Zenon DEF EntryDelta
<1>7. /\ Delta(k, t) \in Int
      /\ t \notin Exempt
         /\ (\A j \in DOMAIN past.withdrawals[t] :
               past.withdrawals[t][j].version <= report.withdrawVersion)
         => /\ Delta(k, t) = report.chain[t] - past.known[t]
            /\ Amount(store[t].deposits) - Amount(past.withdrawals[t]) + report.chain[t] >= 0
  BY <1>6, AppliedReport, Zenon
<1>8. ~Unseen(t) => \A j \in DOMAIN past.withdrawals[t] :
                      past.withdrawals[t][j].version <= report.withdrawVersion
  <2>1. \A j \in DOMAIN past.withdrawals[t] : past.withdrawals[t][j].version \in Nat
    <3>1. PICK m \in Seq(Entry) : m = past.withdrawals[t]
      BY <1>1, Parts, Zenon
    <3>2. \A j \in DOMAIN m : m[j] \in Entry
      OBVIOUS
    <3> QED
      BY <3>1, <3>2, Zenon DEF Entry
  <2>2. report.withdrawVersion \in Nat
    BY <1>1, Zenon DEF Reported
  <2>3. \A x, y \in Nat : x <= y \/ x > y
    OBVIOUS
  <2> QED
    BY <2>1, <2>2, <2>3, Zenon DEF Unseen
<1> QED
  BY <1>6, <1>7, <1>8, Zenon

\* What the history keeps of a report that is applied.
LEMMA AppliedPast ==
  ASSUME NativeInv, report.sent, NEW list, NEW result, UpdateStakers(list, result),
         \A t \in Stakers : result[t].left \in Int
  PROVE  /\ past' \in PastInfo /\ past'.withdrawals = past.withdrawals
         /\ past'.overdrawn = past.overdrawn /\ past'.delegated = past.delegated
         /\ \A t \in Stakers :
              /\ past'.known[t] = IF EntryOf(list, t) = {} THEN past.known[t] ELSE report.chain[t]
              /\ past'.left[t] = past.left[t] + result[t].left
              /\ t \notin past'.misread =>
                   t \notin past.misread /\ (EntryOf(list, t) # {} => ~Unseen(t))
              /\ t \notin Exempt' => t \notin Exempt /\ (EntryOf(list, t) # {} => ~Unseen(t))
<1>1. Types /\ Reported
  BY Zenon DEF NativeInv
<1>2. past \in PastInfo
  BY <1>1, Zenon DEF Types
<1>3. PICK kn \in [Stakers -> Int] :
        kn = [t \in Stakers |-> IF EntryOf(list, t) = {} THEN past.known[t] ELSE report.chain[t]]
  <2>1. \A t \in Stakers : past.known[t] \in Int /\ report.chain[t] \in Int
    BY <1>1, Parts, Zenon DEF Reported
  <2> QED
    BY <2>1, Zenon
<1>4. PICK lf \in [Stakers -> Int] : lf = [t \in Stakers |-> past.left[t] + result[t].left]
  <2>1. past.left \in [Stakers -> Int]
    BY <1>2, Zenon DEF PastInfo
  <2>2. \A t \in Stakers : past.left[t] + result[t].left \in Int
    BY <2>1
  <2> QED
    BY <2>2, Zenon
<1>5. PICK mi \in SUBSET Stakers :
        mi = past.misread \cup {t \in Stakers : EntryOf(list, t) # {} /\ Unseen(t)}
  <2>1. past.misread \in SUBSET Stakers
    BY <1>2, Zenon DEF PastInfo
  <2> QED
    BY <2>1, Zenon
<1>6. past' = [past EXCEPT !.known = kn, !.left = lf, !.misread = mi]
  BY <1>2, <1>3, <1>4, <1>5, Zenon DEF UpdateStakers, PastInfo
<1>7. /\ past' \in PastInfo /\ past'.withdrawals = past.withdrawals /\ past'.known = kn
      /\ past'.left = lf /\ past'.misread = mi
      /\ past'.overdrawn = past.overdrawn /\ past'.delegated = past.delegated
  BY <1>2, <1>6, Zenon DEF PastInfo
<1>8. \A t \in Stakers : t \notin mi => t \notin past.misread /\ (EntryOf(list, t) # {} => ~Unseen(t))
  BY <1>5, Zenon
<1>9. \A t \in Stakers : t \notin Exempt' => t \notin Exempt /\ (EntryOf(list, t) # {} => ~Unseen(t))
  BY <1>7, <1>8, Zenon DEF Exempt
<1>10. \A t \in Stakers :
         /\ kn[t] = IF EntryOf(list, t) = {} THEN past.known[t] ELSE report.chain[t]
         /\ lf[t] = past.left[t] + result[t].left
  BY <1>3, <1>4, Zenon
<1> QED
  BY <1>7, <1>8, <1>9, <1>10, Zenon

\* A report that is applied, and what the oracle keeps of it.
LEMMA AppliedStep ==
  ASSUME NativeInv, NoOverflow, NoOverflow', report.sent, Matches, report' = NoReport,
         NEW list, list = GetStakerList(cache, store), cache' = list,
         \A i \in DOMAIN report.balances : i \in DOMAIN list,
         NEW result, \A t \in Stakers : result[t].left \in Int, UpdateStakers(list, result),
         versions' = FeedVersion(versions), chain' = chain
  PROVE  NativeInv'
<1>1. /\ Types /\ Versioned /\ Indexed(store) /\ Fits(cache, store)
      /\ Reported /\ Solvent /\ OracleExact
  BY Zenon DEF NativeInv
<1>2. list \in Seq(CacheEntry) /\ Fits(list, store)
  BY <1>1, ListFits, Zenon
<1> DEFINE E(t) == EntryOf(list, t)
           D(t) == EntryDelta(list, t)
<1>4. store' = [t \in Stakers |-> IF E(t) = {} THEN store[t]
                ELSE [store[t] EXCEPT !.balance = (store[t].balance + D(t)) % Modulus]]
  BY Zenon DEF UpdateStakers
<1>5. \A t \in Stakers :
        store'[t] = IF E(t) = {} THEN store[t]
                    ELSE [store[t] EXCEPT !.balance = (store[t].balance + D(t)) % Modulus]
  BY <1>4, Zenon
<1>7. /\ past' \in PastInfo /\ past'.withdrawals = past.withdrawals
      /\ \A t \in Stakers : past'.known[t] = IF E(t) = {} THEN past.known[t] ELSE report.chain[t]
      /\ \A t \in Stakers : t \notin Exempt' => t \notin Exempt /\ (E(t) # {} => ~Unseen(t))
  BY AppliedPast, Zenon
<1>8. ASSUME NEW t \in Stakers, E(t) # {}
      PROVE  /\ t \in Registered(store) /\ D(t) \in Int
             /\ t \notin Exempt' =>
                  /\ D(t) = report.chain[t] - past.known[t]
                  /\ Amount(store[t].deposits) - Amount(past.withdrawals[t]) + report.chain[t] >= 0
  BY <1>7, <1>8, AppliedDelta, Zenon
<1> HIDE DEF E, D
<1>9. ASSUME NEW t \in Stakers
      PROVE  /\ store'[t] \in StakerInfo
             /\ store'[t].index = store[t].index /\ store'[t].deposits = store[t].deposits
  <2>1. store[t] \in StakerInfo /\ store[t].balance \in Nat
    BY <1>1, Parts, Zenon
  <2>2. CASE E(t) = {}
    BY <1>5, <2>1, <2>2, Zenon
  <2>3. CASE E(t) # {}
    <3>1. PICK b \in Nat : b = (store[t].balance + D(t)) % Modulus
      <4>1. Modulus \in Nat \ {0}
        BY NativeBalancesAssumption, Zenon
      <4>2. \A x, m \in Int : m > 0 => x % m \in Nat
        OBVIOUS
      <4>3. store[t].balance + D(t) \in Int /\ Modulus \in Int /\ Modulus > 0
        BY <1>8, <2>1, <2>3, <4>1
      <4> QED
        BY <4>2, <4>3, Zenon
    <3>2. store'[t] = [store[t] EXCEPT !.balance = b]
      BY <1>5, <2>3, <3>1, Zenon
    <3>3. /\ store'[t] \in StakerInfo
          /\ store'[t].index = store[t].index /\ store'[t].deposits = store[t].deposits
      BY <2>1, <3>2, Zenon DEF StakerInfo
    <3> QED
      BY <3>3, Zenon
  <2> QED
    BY <2>2, <2>3, Zenon
<1>10. /\ versions' \in VersionInfo
       /\ versions'.version = versions.version /\ versions'.feed = versions.version
       /\ versions'.withdraw = versions.withdraw /\ versions'.feedWithdraw = versions.withdraw
       /\ versions.version \in Nat /\ versions.withdraw \in Nat
  <2>1. versions \in VersionInfo /\ versions.version \in Nat /\ versions.withdraw \in Nat
    BY <1>1, Parts, Zenon DEF Types
  <2>2. versions' = [versions EXCEPT !.feed = versions.version, !.feedWithdraw = versions.withdraw]
    BY Zenon DEF FeedVersion
  <2> QED
    BY <2>1, <2>2, Zenon DEF VersionInfo
<1>11. Types'
  <2>1. store' \in [Stakers -> StakerInfo]
    BY <1>4, <1>9, Zenon
  <2> QED
    BY <1>1, <1>2, <1>7, <1>10, <2>1, Zenon DEF Types
<1>12. Indexed(store') /\ Fits(list, store')
  BY <1>1, <1>2, <1>9, SameIndexes, Zenon
<1>13. Versioned'
  <2>1. versions.version <= versions.version /\ versions.withdraw <= versions.withdraw
    BY <1>10
  <2>2. ASSUME NEW t \in Stakers
        PROVE  /\ \A i \in DOMAIN store[t].deposits : store[t].deposits[i].version <= versions.version
               /\ \A i \in DOMAIN past.withdrawals[t] :
                    past.withdrawals[t][i].version <= versions.withdraw
               /\ store'[t].index < 0 => store'[t] = NoStaker /\ past.withdrawals[t] = <<>>
    <3>1. /\ \A i \in DOMAIN store[t].deposits : store[t].deposits[i].version <= versions.version
          /\ \A i \in DOMAIN past.withdrawals[t] :
               past.withdrawals[t][i].version <= versions.withdraw
          /\ store[t].index < 0 => store[t] = NoStaker /\ past.withdrawals[t] = <<>>
      BY <1>1, Zenon DEF Versioned
    <3>2. store'[t].index < 0 => store[t].index < 0 /\ E(t) = {}
      <4>1. store[t].index \in Int
        BY <1>1, Parts, Zenon
      <4>2. store[t].index < 0 => ~(store[t].index >= 0)
        BY <4>1
      <4>3. t \in Registered(store) => store[t].index >= 0
        BY Zenon DEF Registered
      <4> QED
        BY <1>8, <1>9, <4>2, <4>3, Zenon
    <3>3. E(t) = {} => store'[t] = store[t]
      BY <1>5, Zenon
    <3> QED
      BY <3>1, <3>2, <3>3, Zenon
  <2>3. versions.version = 0 => \A t \in Stakers : store'[t].index < 0
    BY <1>1, <1>9, Zenon DEF Versioned
  <2> QED
    BY <1>7, <1>9, <1>10, <2>1, <2>2, <2>3, ZenonT(60) DEF Versioned
<1>14. OracleExact'
  <2> SUFFICES ASSUME NEW t \in Stakers, t \notin Exempt'
               PROVE  store'[t].balance = Amount(store[t].deposits) - Amount(past.withdrawals[t])
                                          + past'.known[t]
    BY <1>7, <1>9, Zenon DEF OracleExact
  <2>1. store[t].balance = Amount(store[t].deposits) - Amount(past.withdrawals[t]) + past.known[t]
    BY <1>1, <1>7, Zenon DEF OracleExact
  <2>2. CASE E(t) = {}
    BY <1>5, <1>7, <2>1, <2>2, Zenon
  <2>3. CASE E(t) # {}
    <3> DEFINE b == store[t].balance
               a == Amount(store[t].deposits)
               w == Amount(past.withdrawals[t])
               k == past.known[t]
               c == report.chain[t]
    <3>1. b \in Nat /\ a \in Nat /\ w \in Nat /\ k \in Int /\ c \in Int
      BY <1>1, <1>10, AllUpToNow, Parts, Zenon DEF Reported
    <3>2. past'.known[t] = c
      BY <1>7, <2>3, Zenon
    <3>3. D(t) = c - k /\ a - w + c >= 0
      BY <1>8, <2>3, Zenon
    <3>4. a - w + c < Modulus
      BY <1>7, <1>9, <3>2, Zenon DEF NoOverflow
    <3>5. Modulus \in Nat \ {0}
      BY NativeBalancesAssumption, Zenon
    <3>6. store'[t].balance = (b + (c - k)) % Modulus
      <4>1. store[t] \in StakerInfo
        BY <1>1, Parts, Zenon
      <4>2. store'[t] = [store[t] EXCEPT !.balance = (b + (c - k)) % Modulus]
        BY <1>5, <2>3, <3>3, Zenon
      <4> QED
        BY <4>1, <4>2, Zenon DEF StakerInfo
    <3>7. b = a - w + k
      BY <2>1, Zenon
    <3> HIDE DEF b, a, w, k, c
    <3>8. (b + (c - k)) % Modulus = a - w + c
      <4>1. b + (c - k) = a - w + c
        BY <3>1, <3>7
      <4>2. PICK y \in Nat : y = a - w + c
        BY <3>1, <3>3
      <4>3. \A m \in Nat \ {0} : y < m => y % m = y
        OBVIOUS
      <4> QED
        BY <3>4, <3>5, <4>1, <4>2, <4>3, Zenon
    <3> QED
      BY <3>2, <3>6, <3>8, Zenon DEF a, w, c
  <2> QED
    BY <2>2, <2>3, Zenon
<1>15. Solvent'
  <2> SUFFICES ASSUME NEW t \in Stakers
               PROVE  /\ UpTo(store[t].deposits, versions.version)
                         - UpTo(past.withdrawals[t], versions.withdraw) + chain[t] >= 0
                      /\ t \notin Exempt' =>
                           UpTo(store[t].deposits, versions.version)
                           - UpTo(past.withdrawals[t], versions.withdraw) + past'.known[t] >= 0
    BY <1>7, <1>9, <1>10, Zenon DEF Solvent, OnChain
  <2>1. UpTo(store[t].deposits, versions.version)
        - UpTo(past.withdrawals[t], versions.withdraw) + chain[t] >= 0
    BY <1>1, Zenon DEF Solvent, OnChain, Exempt
  <2>2. ASSUME t \notin Exempt'
        PROVE  UpTo(store[t].deposits, versions.version)
               - UpTo(past.withdrawals[t], versions.withdraw) + past'.known[t] >= 0
    <3>1. /\ UpTo(store[t].deposits, versions.version) = Amount(store[t].deposits)
          /\ UpTo(past.withdrawals[t], versions.withdraw) = Amount(past.withdrawals[t])
      <4>1. versions.version >= versions.version /\ versions.withdraw >= versions.withdraw
        BY <1>10
      <4> QED
        BY <1>1, <1>10, <4>1, AllUpToNow, Zenon
    <3>2. store'[t].balance = Amount(store[t].deposits) - Amount(past.withdrawals[t]) + past'.known[t]
      BY <1>7, <1>9, <1>14, <2>2, Zenon DEF OracleExact
    <3>3. store'[t].balance >= 0
      <4>1. store'[t].balance \in Nat
        BY <1>9, Zenon DEF StakerInfo
      <4> QED
        BY <4>1
    <3> QED
      BY <3>1, <3>2, <3>3, Zenon
  <2> QED
    BY <2>1, <2>2, Zenon
<1>16. Reported'
  BY Zenon DEF Reported, NoReport
<1>17. Indexed(store)' /\ Fits(cache, store)'
  BY <1>12, Zenon DEF Indexed, Fits
<1> QED
  BY <1>11, <1>13, <1>14, <1>15, <1>16, <1>17, Zenon DEF NativeInv

-----------------------------------------------------------------------------
(***************************************************************************)
(* The ledger.                                                             *)
(***************************************************************************)
\* The fields of a stake.
LEMMA StakeParts ==
  ASSUME NEW a \in StakeInfo
  PROVE  /\ a.total \in Int /\ a.free \in Nat /\ a.pending \in Nat
         /\ a.worth \in [Operators -> Nat] /\ a.shares \in SUBSET Operators
BY Zenon DEF StakeInfo

\* What is cut of the delegations is a natural number, and nothing if the loss
\* is covered without them.
LEMMA ReducedParts ==
  ASSUME NEW a \in StakeInfo, NEW rest \in Int, NEW q \in Reduced(a, rest)
  PROVE  /\ Sum(q.cut) \in Int /\ q.worth \in [Operators -> Nat]
         /\ rest = 0 => Sum(q.cut) = 0
<1>1. a.worth \in [Operators -> Nat] /\ IsFiniteSet(Operators)
  BY StakeParts, NativeBalancesAssumption, Zenon
<1> DEFINE none == [o \in Operators |-> 0]
           d == Sum(a.worth)
           S == [cut : [Operators -> 0 .. d], worth : [Operators -> 0 .. d]]
<1>2. d \in Nat
  BY <1>1, SumNat, Zenon
<1>3. none \in [Operators -> Nat]
  OBVIOUS
<1>4. 0 .. d \subseteq Nat
  BY <1>2
<1>5. \/ q = [cut |-> none, worth |-> a.worth]
      \/ rest # 0 /\ (q = [cut |-> a.worth, worth |-> none] \/ q \in S)
  BY Zenon DEF Reduced
<1>6. Sum(none) = 0
  <2>1. none \in [Operators -> Int] /\ \A o \in Operators : none[o] = 0
    OBVIOUS
  <2> HIDE DEF none
  <2> QED
    BY <1>1, <2>1, SumZero, Zenon
<1> HIDE DEF none, d
<1>7. q.cut \in [Operators -> Nat] /\ q.worth \in [Operators -> Nat]
  <2>1. CASE q \in S
    <3> DEFINE F == [Operators -> 0 .. d]
    <3>0. q \in [cut : F, worth : F]
      BY <2>1, Zenon
    <3> HIDE DEF F
    <3>1. q.cut \in F /\ q.worth \in F
      BY <3>0, Zenon
    <3> USE DEF F
    <3> QED
      BY <1>4, <3>1
  <2>2. CASE q = [cut |-> none, worth |-> a.worth]
    <3>1. q.cut = none /\ q.worth = a.worth
      BY <2>2
    <3> QED
      BY <1>1, <1>3, <3>1, Zenon
  <2>3. CASE q = [cut |-> a.worth, worth |-> none]
    <3>1. q.cut = a.worth /\ q.worth = none
      BY <2>3
    <3> QED
      BY <1>1, <1>3, <3>1, Zenon
  <2> QED
    BY <1>5, <2>1, <2>2, <2>3, Zenon
<1>8. Sum(q.cut) \in Int
  <2>1. q.cut \in [Operators -> Int]
    BY <1>7
  <2> QED
    BY <1>1, <2>1, SumType, Zenon
<1>9. rest = 0 => q.cut = none
  <2>1. rest = 0 => q = [cut |-> none, worth |-> a.worth]
    BY <1>5, Zenon
  <2> QED
    BY <2>1
<1> QED
  BY <1>6, <1>7, <1>8, <1>9, Zenon

\* UpdateNSTBalance changes the stake by the change of the balance but for what
\* it leaves, and leaves nothing where all the staker has can be withdrawn and
\* covers the loss.
LEMMA UpdateParts ==
  ASSUME NEW a \in StakeInfo, NEW d \in Int, NEW r \in UpdateNSTBalance(a, d)
  PROVE  /\ r.stake \in StakeInfo /\ r.left \in Int
         /\ r.stake.total = a.total + d + r.left
         /\ a.free = a.total /\ a.pending = 0 /\ a.total + d >= 0 =>
              r.stake.free = r.stake.total /\ r.stake.pending = 0 /\ r.left = 0
<1>1. /\ a.total \in Int /\ a.free \in Nat /\ a.pending \in Nat
      /\ a.worth \in [Operators -> Nat] /\ a.shares \in SUBSET Operators
  BY StakeParts, Zenon
<1>2. CASE d >= 0
  <2> DEFINE t == a.total + d
             f == a.free + d
  <2>1. r = [stake |-> [a EXCEPT !.total = t, !.free = f], left |-> 0]
    BY <1>2, Zenon DEF UpdateNSTBalance
  <2>2. t \in Int /\ f \in Nat /\ 0 \in Int /\ t = a.total + d + 0
    BY <1>1, <1>2
  <2>3. a.free = a.total => f = t
    BY Zenon
  <2> HIDE DEF t, f
  <2>4. /\ r.stake \in StakeInfo /\ r.left = 0
        /\ r.stake.total = t /\ r.stake.free = f /\ r.stake.pending = a.pending
    BY <2>1, <2>2, Zenon DEF StakeInfo
  <2> QED
    BY <2>2, <2>3, <2>4, Zenon
<1>3. CASE ~(d >= 0)
  <2> DEFINE l == 0 - d
             f == FromFree(a, l)
             p == FromPending(a, l)
             rest == Rest(a, l)
  <2>1. PICK q \in Reduced(a, rest) :
          r = [stake |-> [a EXCEPT !.total = a.total - f - p - Sum(q.cut),
                                   !.free = a.free - f,
                                   !.pending = a.pending - p,
                                   !.worth = q.worth,
                                   !.shares = IF rest > 0 /\ rest >= Sum(a.worth) THEN {} ELSE a.shares],
               left |-> rest - Sum(q.cut)]
    BY <1>3, Zenon DEF UpdateNSTBalance
  <2>2. l \in Nat /\ l = 0 - d
    BY <1>3
  <2>3. /\ f = IF l > a.free THEN a.free ELSE l
        /\ p = IF l - f > a.pending THEN a.pending ELSE l - f
        /\ rest = l - f - p
    BY Zenon DEF FromFree, FromPending, Rest
  <2> HIDE DEF l, f, p, rest
  <2>4. f \in Nat /\ f <= a.free /\ f <= l
    BY <1>1, <2>2, <2>3
  <2>5. p \in Nat /\ p <= a.pending
    BY <1>1, <2>2, <2>3, <2>4
  <2>6. rest \in Int
    BY <2>2, <2>3, <2>4, <2>5
  <2>7. PICK c \in Int : c = Sum(q.cut) /\ q.worth \in [Operators -> Nat] /\ (rest = 0 => c = 0)
    BY <2>6, ReducedParts, Zenon
  <2> DEFINE tt == a.total - f - p - c
             ff == a.free - f
             pp == a.pending - p
             ss == IF rest > 0 /\ rest >= Sum(a.worth) THEN {} ELSE a.shares
             ll == rest - c
  <2>8. /\ tt \in Int /\ ff \in Nat /\ pp \in Nat /\ ll \in Int
        /\ tt = a.total + d + ll
    <3>1. tt \in Int /\ ff \in Nat /\ pp \in Nat /\ ll \in Int
      BY <1>1, <2>4, <2>5, <2>6
    <3>2. rest = (0 - d) - f - p
      BY <2>2, <2>3, Zenon
    <3>3. tt = a.total + d + ll
      BY ONLY <1>1, <2>4, <2>5, <3>2, d \in Int, c \in Int
    <3> QED
      BY <3>1, <3>3, Zenon
  <2>9. ss \in SUBSET Operators
    BY <1>1, Zenon
  <2>10. ASSUME a.free = a.total, a.pending = 0, a.total + d >= 0
         PROVE  ff = tt /\ pp = 0 /\ ll = 0
    <3>1. f = l /\ p = 0 /\ rest = 0
      BY <1>1, <2>2, <2>3, <2>4, <2>5, <2>10
    <3> QED
      BY <1>1, <2>2, <2>7, <2>10, <3>1
  <2>11. r = [stake |-> [a EXCEPT !.total = tt, !.free = ff, !.pending = pp,
                                  !.worth = q.worth, !.shares = ss], left |-> ll]
    BY <2>1, <2>7, Zenon
  <2> HIDE DEF tt, ff, pp, ss, ll
  <2>12. /\ r.stake \in StakeInfo /\ r.left = ll
         /\ r.stake.total = tt /\ r.stake.free = ff /\ r.stake.pending = pp
    BY <2>7, <2>8, <2>9, <2>11, Zenon DEF StakeInfo
  <2> QED
    BY <2>8, <2>10, <2>12, Zenon
<1> QED
  BY <1>2, <1>3, Zenon

\* The terms of the balances.
LEMMA ExactParts ==
  ASSUME Types, Versioned, NEW s \in Stakers
  PROVE  /\ Amount(store[s].deposits) \in Nat /\ Amount(past.withdrawals[s]) \in Nat
         /\ past.known[s] \in Int /\ past.left[s] \in Int
<1>1. past.left \in [Stakers -> Int]
  BY Zenon DEF Types, PastInfo
<1>2. 0 \in Nat
  OBVIOUS
<1>3. Amount(store[s].deposits) \in Nat /\ Amount(past.withdrawals[s]) \in Nat
  BY <1>2, AllUpToNow, Zenon
<1> QED
  BY <1>1, <1>3, Parts, Zenon

\* A step that touches neither the store nor the ledger, a reverted transaction
\* included.
LEMMA KeptStakes ==
  ASSUME NativeInv, StakeInv, UNCHANGED <<store, ledger>>,
         past' = past \/ \E s \in Stakers : past' = [past EXCEPT !.reverted = past.reverted \cup {s}]
  PROVE  StakeInv'
<1>1. past \in PastInfo
  BY Zenon DEF NativeInv, Types
<1>2. /\ past'.misread = past.misread /\ past'.overdrawn = past.overdrawn
      /\ past'.delegated = past.delegated /\ past'.left = past.left
  BY <1>1, Zenon DEF PastInfo
<1> QED
  BY <1>2, Zenon DEF StakeInv, Exempt

\* The oracle's balance changes by what is deposited.
LEMMA DepositStakes ==
  ASSUME NativeInv, NativeInv', StakeInv, NEW s \in Stakers, NEW x \in Amounts, Deposit(s, x, FALSE)
  PROVE  StakeInv'
<1>1. Types /\ Versioned /\ OracleExact /\ OracleExact'
  BY Zenon DEF NativeInv
<1>2. past' = past /\ store' = Deposited(s, x)
  BY Zenon DEF Deposit, Committed
<1>3. x \in Nat /\ ledger \in [Stakers -> StakeInfo]
  BY NativeBalancesAssumption, Zenon DEF StakeInv
<1>4. ledger[s] \in StakeInfo /\ ledger[s].total \in Int /\ ledger[s].free \in Nat
  BY <1>3, StakeParts, Zenon
<1> DEFINE a == [ledger[s] EXCEPT !.total = ledger[s].total + x, !.free = ledger[s].free + x]
<1>5. ledger' = [ledger EXCEPT ![s] = a]
  <2>1. ledger' = [ledger EXCEPT ![s].total = ledger[s].total + x, ![s].free = ledger[s].free + x]
    BY <1>3, <1>4, Zenon DEF Deposit, Committed, StakeInfo
  <2> QED
    BY <1>3, <1>4, <2>1, Zenon DEF StakeInfo
<1>6. /\ a \in StakeInfo /\ a.total = ledger[s].total + x /\ a.free = ledger[s].free + x
      /\ a.pending = ledger[s].pending
  <2>1. ledger[s].total + x \in Int /\ ledger[s].free + x \in Nat
    BY <1>3, <1>4
  <2> QED
    BY <1>4, <2>1, Zenon DEF StakeInfo
<1> HIDE DEF a
<1>7. /\ ledger' \in [Stakers -> StakeInfo] /\ ledger'[s] = a
      /\ \A t \in Stakers : t # s => ledger'[t] = ledger[t]
  BY <1>3, <1>5, <1>6
<1>8. ASSUME NEW t \in Stakers \ Exempt
      PROVE  ledger'[t].total = store'[t].balance + past.left[t]
  <2>1. ledger[t].total = store[t].balance + past.left[t]
    BY Zenon DEF StakeInv
  <2>2. CASE t # s
    BY <1>1, <1>2, <1>7, <2>1, <2>2, DepositedParts, Zenon
  <2>3. CASE t = s
    <3> DEFINE b == store[s].balance
               b2 == store'[s].balance
               u == Amount(store[s].deposits)
               u2 == Amount(store'[s].deposits)
               w == Amount(past.withdrawals[s])
               k == past.known[s]
    <3>1. b = u - w + k /\ b2 = u2 - w + k
      <4>1. s \notin Exempt /\ s \notin Exempt'
        BY <1>2, <2>3, Zenon DEF Exempt
      <4> QED
        BY <1>1, <1>2, <4>1, Zenon DEF OracleExact
    <3>2. u2 = u + x
      <4>1. PICK e \in Entry : /\ e = [version |-> versions.version + 1, amount |-> x]
                               /\ store'[s].deposits = Append(store[s].deposits, e)
        BY <1>1, <1>2, DepositedParts, Zenon
      <4>2. e.amount = x
        BY <4>1, Zenon
      <4>3. store[s].deposits \in Seq(Entry) /\ 0 \in Nat
        BY <1>1, Parts, Zenon
      <4> QED
        BY <4>1, <4>2, <4>3, ListAppend, Zenon
    <3>3. u \in Nat /\ w \in Nat /\ k \in Int /\ past.left[s] \in Int
      BY <1>1, ExactParts, Zenon
    <3>4. ledger[s].total = b + past.left[s] /\ ledger'[s].total = ledger[s].total + x
      BY <1>6, <1>7, <2>1, <2>3, Zenon
    <3> HIDE DEF b, b2, u, u2, w, k
    <3>5. ledger'[s].total = b2 + past.left[s]
      BY <1>3, <3>1, <3>2, <3>3, <3>4
    <3> QED
      BY <2>3, <3>5, Zenon DEF b2
  <2> QED
    BY <2>2, <2>3, Zenon
<1>9. ASSUME NEW t \in Stakers \ (past.misread \cup past.delegated)
      PROVE  ledger'[t].free = ledger'[t].total /\ ledger'[t].pending = 0 /\ past.left[t] = 0
  <2>1. ledger[t].free = ledger[t].total /\ ledger[t].pending = 0 /\ past.left[t] = 0
    BY Zenon DEF StakeInv
  <2> QED
    BY <1>6, <1>7, <2>1, Zenon
<1> QED
  BY <1>2, <1>7, <1>8, <1>9, Zenon DEF StakeInv, Exempt

\* The oracle's balance changes by what is withdrawn, or the staker withdrew more
\* than the oracle knew of, and delegated.
LEMMA WithdrawStakes ==
  ASSUME NativeInv, NativeInv', StakeInv, NEW s \in Stakers, NEW x \in Amounts, Withdraw(s, x, FALSE)
  PROVE  StakeInv'
<1>1. Types /\ Versioned /\ OracleExact /\ OracleExact' /\ past \in PastInfo
  BY Zenon DEF NativeInv, Types
<1> DEFINE e == [version |-> IncreaseVersionByWithdraw.withdraw, amount |-> x]
           o == IF x > store[s].balance THEN past.overdrawn \cup {s} ELSE past.overdrawn
<1>2. /\ store' = Withdrawn(s, x) /\ x <= ledger[s].free
      /\ past' = [past EXCEPT !.withdrawals[s] = Append(past.withdrawals[s], e), !.overdrawn = o]
  BY Zenon DEF Withdraw, Committed
<1>3. x \in Nat /\ ledger \in [Stakers -> StakeInfo]
  BY NativeBalancesAssumption, Zenon DEF StakeInv
<1>4. /\ ledger[s] \in StakeInfo /\ ledger[s].total \in Int /\ ledger[s].free \in Nat
  BY <1>3, StakeParts, Zenon
<1> DEFINE a == [ledger[s] EXCEPT !.total = ledger[s].total - x, !.free = ledger[s].free - x]
<1>5. ledger' = [ledger EXCEPT ![s] = a]
  <2>1. ledger' = [ledger EXCEPT ![s].total = ledger[s].total - x, ![s].free = ledger[s].free - x]
    BY <1>3, <1>4, Zenon DEF Withdraw, Committed, StakeInfo
  <2> QED
    BY <1>3, <1>4, <2>1, Zenon DEF StakeInfo
<1>6. /\ a \in StakeInfo /\ a.total = ledger[s].total - x /\ a.free = ledger[s].free - x
      /\ a.pending = ledger[s].pending
  <2>1. ledger[s].total - x \in Int /\ ledger[s].free - x \in Nat
    BY <1>2, <1>3, <1>4
  <2> QED
    BY <1>4, <2>1, Zenon DEF StakeInfo
<1> HIDE DEF a
<1>7. /\ ledger' \in [Stakers -> StakeInfo] /\ ledger'[s] = a
      /\ \A t \in Stakers : t # s => ledger'[t] = ledger[t]
  BY <1>3, <1>5, <1>6
<1>8. /\ past'.misread = past.misread /\ past'.delegated = past.delegated /\ past'.left = past.left
      /\ past'.known = past.known /\ past'.overdrawn = o
      /\ past'.withdrawals[s] = Append(past.withdrawals[s], e)
      /\ \A t \in Stakers : t \notin Exempt' => t \notin Exempt
  <2> DEFINE w == [past.withdrawals EXCEPT ![s] = Append(past.withdrawals[s], e)]
  <2>1. past' = [past EXCEPT !.withdrawals = w, !.overdrawn = o]
    BY <1>1, <1>2, Zenon DEF PastInfo
  <2>2. w[s] = Append(past.withdrawals[s], e)
    BY <1>1, Zenon DEF PastInfo
  <2>3. past.overdrawn \subseteq o
    BY Zenon
  <2> HIDE DEF w, o, e
  <2>4. /\ past'.misread = past.misread /\ past'.delegated = past.delegated /\ past'.left = past.left
        /\ past'.known = past.known /\ past'.overdrawn = o /\ past'.withdrawals = w
    BY <1>1, <2>1, Zenon DEF PastInfo
  <2> QED
    BY <2>2, <2>3, <2>4, Zenon DEF Exempt
<1>9. ASSUME NEW t \in Stakers, t \notin Exempt'
      PROVE  ledger'[t].total = store'[t].balance + past.left[t]
  <2>1. ledger[t].total = store[t].balance + past.left[t]
    BY <1>8, <1>9, Zenon DEF StakeInv
  <2>2. CASE t # s
    BY <1>1, <1>2, <1>7, <2>1, <2>2, WithdrawnParts, Zenon
  <2>3. CASE t = s
    <3> DEFINE b == store[s].balance
               b2 == store'[s].balance
               u == Amount(store[s].deposits)
               w == Amount(past.withdrawals[s])
               w2 == Amount(past'.withdrawals[s])
               k == past.known[s]
    <3>1. store'[s].deposits = store[s].deposits
      BY <1>1, <1>2, WithdrawnParts, Zenon
    <3>2. b = u - w + k /\ b2 = u - w2 + k
      BY <1>1, <1>8, <1>9, <2>3, <3>1, Zenon DEF OracleExact
    <3>3. w2 = w + x
      <4>1. e \in Entry /\ e.amount = x
        BY <1>1, WithdrawnParts, Zenon
      <4>2. past.withdrawals[s] \in Seq(Entry) /\ 0 \in Nat
        BY <1>1, Parts, Zenon
      <4> HIDE DEF e
      <4> QED
        BY <1>8, <4>1, <4>2, ListAppend, Zenon
    <3>4. u \in Nat /\ w \in Nat /\ k \in Int /\ past.left[s] \in Int
      BY <1>1, ExactParts, Zenon
    <3>5. ledger[s].total = b + past.left[s] /\ ledger'[s].total = ledger[s].total - x
      BY <1>6, <1>7, <2>1, <2>3, Zenon
    <3> HIDE DEF b, b2, u, w, w2, k
    <3>6. ledger'[s].total = b2 + past.left[s]
      BY <1>3, <3>2, <3>3, <3>4, <3>5
    <3> QED
      BY <2>3, <3>6, Zenon DEF b2
  <2> QED
    BY <2>2, <2>3, Zenon
<1>10. ASSUME NEW t \in Stakers \ (past.misread \cup past.delegated)
       PROVE  ledger'[t].free = ledger'[t].total /\ ledger'[t].pending = 0 /\ past.left[t] = 0
  <2>1. ledger[t].free = ledger[t].total /\ ledger[t].pending = 0 /\ past.left[t] = 0
    BY Zenon DEF StakeInv
  <2> QED
    BY <1>6, <1>7, <2>1, Zenon
<1>11. o \subseteq past.misread \cup past.delegated
  <2>1. past.overdrawn \subseteq past.misread \cup past.delegated
    BY Zenon DEF StakeInv
  <2>2. ASSUME x > store[s].balance, s \notin past.misread \cup past.delegated
        PROVE  FALSE
    <3>1. s \notin Exempt
      BY <2>1, <2>2, Zenon DEF Exempt
    <3>2. /\ ledger[s].total = store[s].balance + past.left[s]
          /\ ledger[s].free = ledger[s].total /\ past.left[s] = 0
      BY <2>2, <3>1, Zenon DEF StakeInv
    <3>3. store[s].balance \in Nat
      BY <1>1, Parts, Zenon
    <3> QED
      BY <1>2, <1>3, <2>2, <3>2, <3>3
  <2> QED
    BY <2>1, <2>2, Zenon
<1> HIDE DEF o
<1> QED
  BY <1>7, <1>8, <1>9, <1>10, <1>11, Zenon DEF StakeInv

\* x/delegation leaves the total alone.
LEMMA MovedStakes ==
  ASSUME NativeInv, StakeInv, NEW s \in Stakers, NEW a \in StakeInfo, a.total = ledger[s].total,
         Moved(s, a)
  PROVE  StakeInv'
<1>1. past \in PastInfo /\ ledger \in [Stakers -> StakeInfo]
  BY Zenon DEF NativeInv, Types, StakeInv
<1>2. /\ ledger' = [ledger EXCEPT ![s] = a] /\ store' = store
      /\ past' = [past EXCEPT !.delegated = past.delegated \cup {s}]
  BY Zenon DEF Moved
<1>3. /\ past'.misread = past.misread /\ past'.overdrawn = past.overdrawn
      /\ past'.left = past.left /\ past'.delegated = past.delegated \cup {s}
  BY <1>1, <1>2, Zenon DEF PastInfo
<1>4. /\ ledger' \in [Stakers -> StakeInfo] /\ ledger'[s] = a
      /\ \A t \in Stakers : t # s => ledger'[t] = ledger[t]
  BY <1>1, <1>2
<1>5. \A t \in Stakers : ledger'[t].total = ledger[t].total
  BY <1>4, Zenon
<1>6. \A t \in Stakers \ Exempt' : ledger'[t].total = store'[t].balance + past'.left[t]
  <2>1. ASSUME NEW t \in Stakers, t \notin Exempt'
        PROVE  ledger'[t].total = store'[t].balance + past'.left[t]
    <3>1. t \notin Exempt
      BY <1>3, <2>1, Zenon DEF Exempt
    <3>2. ledger[t].total = store[t].balance + past.left[t]
      BY <3>1, Zenon DEF StakeInv
    <3> QED
      BY <1>2, <1>3, <1>5, <3>2, Zenon
  <2> QED
    BY <2>1, Zenon
<1>7. \A t \in Stakers \ (past'.misread \cup past'.delegated) :
        ledger'[t].free = ledger'[t].total /\ ledger'[t].pending = 0 /\ past'.left[t] = 0
  BY <1>3, <1>4, Zenon DEF StakeInv
<1>8. past'.overdrawn \subseteq past'.misread \cup past'.delegated
  BY <1>3, Zenon DEF StakeInv
<1> QED
  BY <1>4, <1>6, <1>7, <1>8, Zenon DEF StakeInv

\* Delegating, undelegating and slashing are such moves.
LEMMA MoveStakes ==
  ASSUME NativeInv, StakeInv, NEW s \in Stakers, NEW o \in Operators,
         \/ \E x \in Amounts : DelegateTo(s, o, x)
         \/ \E x \in Amounts, whole \in BOOLEAN : UndelegateFrom(s, o, x, whole)
         \/ \E pending \in 0 .. ledger[s].pending, worth \in 0 .. ledger[s].worth[o] + 1,
               cleared \in BOOLEAN : SlashAssets(s, o, pending, worth, cleared)
  PROVE  \E a \in StakeInfo : a.total = ledger[s].total /\ Moved(s, a)
<1> DEFINE g == ledger[s]
<1>1. g \in StakeInfo
  BY Zenon DEF StakeInv
<1>2. g.free \in Nat /\ g.pending \in Nat /\ g.worth \in [Operators -> Nat]
  BY <1>1, StakeParts, Zenon
<1>3. ASSUME NEW x \in Amounts, DelegateTo(s, o, x)
      PROVE  \E a \in StakeInfo : a.total = g.total /\ Moved(s, a)
  <2>1. x \in Nat /\ x <= g.free
    BY <1>3, NativeBalancesAssumption, Zenon DEF DelegateTo
  <2>2. PICK w \in [Operators -> Nat] : w = [g.worth EXCEPT ![o] = g.worth[o] + x]
    <3> DEFINE h == g.worth
               n == g.worth[o] + x
    <3>1. h \in [Operators -> Nat] /\ n \in Nat
      BY <1>2, <2>1
    <3> HIDE DEF h, n
    <3>2. [h EXCEPT ![o] = n] \in [Operators -> Nat]
      BY <3>1
    <3> QED
      BY <3>2, Zenon DEF h, n
  <2>3. g.free - x \in Nat
    BY <1>2, <2>1
  <2> DEFINE f == g.free - x
             a == [g EXCEPT !.free = f, !.worth = w, !.entries = g.entries \cup {o},
                            !.shares = g.shares \cup {o}]
  <2>4. Moved(s, a)
    BY <1>1, <1>3, <2>2, Zenon DEF DelegateTo, StakeInfo
  <2> HIDE DEF f
  <2>5. a \in StakeInfo /\ a.total = g.total
    BY <1>1, <2>3, Zenon DEF StakeInfo, f
  <2> QED
    BY <2>4, <2>5, Zenon
<1>4. ASSUME NEW x \in Amounts, NEW whole \in BOOLEAN, UndelegateFrom(s, o, x, whole)
      PROVE  \E a \in StakeInfo : a.total = g.total /\ Moved(s, a)
  <2>1. x \in Nat /\ x <= g.worth[o]
    BY <1>4, NativeBalancesAssumption, Zenon DEF UndelegateFrom
  <2>2. PICK w \in [Operators -> Nat] : w = [g.worth EXCEPT ![o] = g.worth[o] - x]
    <3> DEFINE h == g.worth
               n == g.worth[o] - x
    <3>1. h \in [Operators -> Nat] /\ n \in Nat
      BY <1>2, <2>1
    <3> HIDE DEF h, n
    <3>2. [h EXCEPT ![o] = n] \in [Operators -> Nat]
      BY <3>1
    <3> QED
      BY <3>2, Zenon DEF h, n
  <2>3. g.pending + x \in Nat
    BY <1>2, <2>1
  <2> DEFINE p == g.pending + x
             h == IF whole THEN g.shares \ {o} ELSE g.shares
             a == [g EXCEPT !.pending = p, !.worth = w, !.shares = h]
  <2>4. Moved(s, a)
    BY <1>1, <1>4, <2>2, Zenon DEF UndelegateFrom, StakeInfo
  <2>5. h \in SUBSET Operators
    BY <1>1, StakeParts, Zenon
  <2> HIDE DEF p, h
  <2>6. a \in StakeInfo /\ a.total = g.total
    BY <1>1, <2>3, <2>5, Zenon DEF StakeInfo, p
  <2> QED
    BY <2>4, <2>6, Zenon
<1>5. ASSUME NEW pending \in 0 .. g.pending, NEW worth \in 0 .. g.worth[o] + 1,
             NEW cleared \in BOOLEAN, SlashAssets(s, o, pending, worth, cleared)
      PROVE  \E a \in StakeInfo : a.total = g.total /\ Moved(s, a)
  <2>1. pending \in Nat /\ worth \in Nat
    BY <1>2, <1>5
  <2>2. PICK w \in [Operators -> Nat] : w = [g.worth EXCEPT ![o] = worth]
    <3> DEFINE h == g.worth
               n == worth
    <3>1. h \in [Operators -> Nat] /\ n \in Nat
      BY <1>2, <2>1
    <3> HIDE DEF h, n
    <3>2. [h EXCEPT ![o] = n] \in [Operators -> Nat]
      BY <3>1
    <3> QED
      BY <3>2, Zenon DEF h, n
  <2> DEFINE h == IF cleared THEN g.shares \ {o} ELSE g.shares
             a == [g EXCEPT !.pending = pending, !.worth = w, !.shares = h]
  <2>4. Moved(s, a)
    BY <1>1, <1>5, <2>2, Zenon DEF SlashAssets, StakeInfo
  <2>5. h \in SUBSET Operators
    BY <1>1, StakeParts, Zenon
  <2> HIDE DEF h
  <2>6. a \in StakeInfo /\ a.total = g.total
    BY <1>1, <2>1, <2>5, Zenon DEF StakeInfo
  <2> QED
    BY <2>4, <2>6, Zenon
<1> QED
  BY <1>3, <1>4, <1>5, Zenon

\* So is the completion of an undelegation.
LEMMA CompleteStakes ==
  ASSUME NativeInv, StakeInv, NEW s \in Stakers, NEW x \in 1 .. ledger[s].pending, Complete(s, x)
  PROVE  \E a \in StakeInfo : a.total = ledger[s].total /\ Moved(s, a)
<1> DEFINE g == ledger[s]
<1>1. g \in StakeInfo
  BY Zenon DEF StakeInv
<1>2. g.free \in Nat /\ g.pending \in Nat
  BY <1>1, StakeParts, Zenon
<1> DEFINE p == g.pending - x
           f == g.free + x
           a == [g EXCEPT !.pending = p, !.free = f]
<1>3. p \in Nat /\ f \in Nat
  BY <1>2
<1>4. Moved(s, a)
  BY Zenon DEF Complete
<1> HIDE DEF p, f
<1>5. a \in StakeInfo /\ a.total = g.total
  BY <1>1, <1>3, Zenon DEF StakeInfo
<1> QED
  BY <1>4, <1>5, Zenon

\* What UpdateNSTBalance makes of the stakes of a report.
LEMMA UpdatedParts ==
  ASSUME StakeInv, NEW list, NEW result \in UpdatedStakes(list), NEW t \in Stakers,
         EntryOf(list, t) # {} => EntryDelta(list, t) \in Int
  PROVE  /\ result[t].stake \in StakeInfo /\ result[t].left \in Int
         /\ EntryOf(list, t) = {} => result[t].stake = ledger[t] /\ result[t].left = 0
         /\ EntryOf(list, t) # {} => result[t] \in UpdateNSTBalance(ledger[t], EntryDelta(list, t))
<1>1. ledger[t] \in StakeInfo /\ 0 \in Int
  <2>1. ledger[t] \in StakeInfo
    BY Zenon DEF StakeInv
  <2>2. 0 \in Int
    OBVIOUS
  <2> QED
    BY <2>1, <2>2, Zenon
<1>2. result[t] \in (IF EntryOf(list, t) = {} THEN {[stake |-> ledger[t], left |-> 0]}
                     ELSE UpdateNSTBalance(ledger[t], EntryDelta(list, t)))
  BY Zenon DEF UpdatedStakes
<1>3. CASE EntryOf(list, t) = {}
  <2>1. result[t] = [stake |-> ledger[t], left |-> 0]
    BY <1>2, <1>3, Zenon
  <2>2. result[t].stake = ledger[t] /\ result[t].left = 0
    BY <2>1
  <2> QED
    BY <1>1, <1>3, <2>2, Zenon
<1>4. CASE EntryOf(list, t) # {}
  <2>1. result[t] \in UpdateNSTBalance(ledger[t], EntryDelta(list, t))
    BY <1>2, <1>4, Zenon
  <2> QED
    BY <1>1, <1>4, <2>1, UpdateParts, Zenon
<1> QED
  BY <1>3, <1>4, Zenon

\* The ledger changes as the oracle's balances do, but for what is left.
LEMMA AppliedStakes ==
  ASSUME NativeInv, NativeInv', StakeInv, NoOverflow, report.sent, Matches,
         NEW list, list = GetStakerList(cache, store),
         \A i \in DOMAIN report.balances : i \in DOMAIN list,
         NEW result \in UpdatedStakes(list), UpdateStakers(list, result)
  PROVE  StakeInv'
<1>1. Types /\ Versioned /\ OracleExact /\ OracleExact'
  BY Zenon DEF NativeInv
<1>2. \A t \in Stakers : EntryOf(list, t) # {} => EntryDelta(list, t) \in Int
  BY AppliedDelta, Zenon
<1>3. \A t \in Stakers :
        /\ result[t].stake \in StakeInfo /\ result[t].left \in Int
        /\ EntryOf(list, t) = {} => result[t].stake = ledger[t] /\ result[t].left = 0
        /\ EntryOf(list, t) # {} => result[t] \in UpdateNSTBalance(ledger[t], EntryDelta(list, t))
  BY <1>2, UpdatedParts, Zenon
<1>4. /\ past'.withdrawals = past.withdrawals
      /\ past'.overdrawn = past.overdrawn /\ past'.delegated = past.delegated
      /\ \A t \in Stakers :
           /\ past'.known[t] = IF EntryOf(list, t) = {} THEN past.known[t] ELSE report.chain[t]
           /\ past'.left[t] = past.left[t] + result[t].left
           /\ t \notin past'.misread =>
                t \notin past.misread /\ (EntryOf(list, t) # {} => ~Unseen(t))
           /\ t \notin Exempt' => t \notin Exempt /\ (EntryOf(list, t) # {} => ~Unseen(t))
  <2>1. \A t \in Stakers : result[t].left \in Int
    BY <1>3, Zenon
  <2>2. /\ past'.withdrawals = past.withdrawals
        /\ past'.overdrawn = past.overdrawn /\ past'.delegated = past.delegated
    BY <2>1, AppliedPast, Zenon
  <2>3. \A t \in Stakers :
          past'.known[t] = IF EntryOf(list, t) = {} THEN past.known[t] ELSE report.chain[t]
    BY <2>1, AppliedPast, Zenon
  <2>4. \A t \in Stakers : past'.left[t] = past.left[t] + result[t].left
    BY <2>1, AppliedPast, SMT
  <2>5. \A t \in Stakers : t \notin past'.misread =>
          t \notin past.misread /\ (EntryOf(list, t) # {} => ~Unseen(t))
    BY <2>1, AppliedPast, Zenon
  <2>6. \A t \in Stakers :
          t \notin Exempt' => t \notin Exempt /\ (EntryOf(list, t) # {} => ~Unseen(t))
    BY <2>1, AppliedPast, Zenon
  <2> QED
    BY <2>2, <2>3, <2>4, <2>5, <2>6, Zenon
<1>5. ledger' = [t \in Stakers |-> result[t].stake]
  BY Zenon DEF UpdateStakers
<1>6. \A t \in Stakers : ledger'[t] = result[t].stake
  BY <1>5, Zenon
<1>7. ledger' \in [Stakers -> StakeInfo]
  BY <1>3, <1>5, Zenon
<1>8. \A t \in Stakers : past.left[t] \in Int
  BY <1>1, Zenon DEF Types, PastInfo
<1>9. ASSUME NEW t \in Stakers, EntryOf(list, t) = {}
      PROVE  /\ ledger'[t] = ledger[t] /\ past'.left[t] = past.left[t]
             /\ store'[t] = store[t]
  <2>1. past'.left[t] = past.left[t] + 0 /\ ledger'[t] = ledger[t]
    BY <1>3, <1>4, <1>6, <1>9, Zenon
  <2>2. past.left[t] + 0 = past.left[t]
    BY <1>8
  <2>3. store'[t] = store[t]
    BY <1>9, Zenon DEF UpdateStakers
  <2> QED
    BY <2>1, <2>2, <2>3, Zenon
<1>10. ASSUME NEW t \in Stakers, EntryOf(list, t) # {}, t \notin Exempt, ~Unseen(t)
       PROVE  LET d == EntryDelta(list, t)
              IN  /\ d \in Int /\ store[t].balance + d >= 0
                  /\ t \notin Exempt' => store'[t].balance = store[t].balance + d
  <2> DEFINE d == EntryDelta(list, t)
             b == store[t].balance
             u == Amount(store[t].deposits)
             w == Amount(past.withdrawals[t])
             k == past.known[t]
             c == report.chain[t]
  <2>1. d \in Int /\ d = c - k /\ u - w + c >= 0
    BY <1>10, AppliedDelta, Zenon
  <2>2. b = u - w + k
    BY <1>1, <1>10, Zenon DEF OracleExact
  <2>3. u \in Nat /\ w \in Nat /\ k \in Int /\ c \in Int
    <3>1. report.chain[t] \in Int
      BY Zenon DEF NativeInv, Reported
    <3> QED
      BY <1>1, <3>1, ExactParts, Zenon
  <2>4. t \notin Exempt' => store'[t].balance = u - w + c
    <3>1. store'[t].deposits = store[t].deposits
      <4>1. store[t] \in StakerInfo
        BY <1>1, Zenon DEF Types
      <4>2. store'[t] = [store[t] EXCEPT !.balance = (store[t].balance + EntryDelta(list, t)) % Modulus]
        BY <1>10, Zenon DEF UpdateStakers
      <4> QED
        BY <4>1, <4>2, Zenon DEF StakerInfo
    <3>2. past'.known[t] = c
      BY <1>4, <1>10, Zenon
    <3> QED
      BY <1>1, <1>4, <3>1, <3>2, Zenon DEF OracleExact
  <2> HIDE DEF d, b, u, w, k, c
  <2>5. b + d = u - w + c /\ b + d >= 0
    BY <2>1, <2>2, <2>3
  <2> QED
    BY <2>1, <2>4, <2>5, Zenon DEF d, b
<1>11. ASSUME NEW t \in Stakers, t \notin Exempt'
       PROVE  ledger'[t].total = store'[t].balance + past'.left[t]
  <2>1. t \notin Exempt /\ (EntryOf(list, t) # {} => ~Unseen(t))
    BY <1>4, <1>11, Zenon
  <2>2. ledger[t].total = store[t].balance + past.left[t]
    BY <2>1, Zenon DEF StakeInv
  <2>3. CASE EntryOf(list, t) = {}
    BY <1>9, <2>2, <2>3, Zenon
  <2>4. CASE EntryOf(list, t) # {}
    <3>1. PICK d \in Int : d = EntryDelta(list, t) /\ store'[t].balance = store[t].balance + d
      BY <1>10, <1>11, <2>1, <2>4, Zenon
    <3>2. result[t].stake.total = ledger[t].total + d + result[t].left
      <4>1. ledger[t] \in StakeInfo
        BY Zenon DEF StakeInv
      <4>2. PICK r \in UpdateNSTBalance(ledger[t], d) : r = result[t]
        BY <1>3, <2>4, <3>1, Zenon
      <4>3. r.stake.total = ledger[t].total + d + r.left
        BY <4>1, UpdateParts, Zenon
      <4> QED
        BY <4>2, <4>3, Zenon
    <3>3. store[t].balance \in Nat /\ past.left[t] \in Int /\ result[t].left \in Int
      BY <1>1, <1>3, <1>8, Parts, Zenon
    <3>4. past'.left[t] = past.left[t] + result[t].left /\ ledger'[t].total = result[t].stake.total
      BY <1>4, <1>6, Zenon
    <3> QED
      BY <2>2, <3>1, <3>2, <3>3, <3>4
  <2> QED
    BY <2>3, <2>4, Zenon
<1>12. ASSUME NEW t \in Stakers, t \notin past'.misread \cup past'.delegated
       PROVE  ledger'[t].free = ledger'[t].total /\ ledger'[t].pending = 0 /\ past'.left[t] = 0
  <2>1. t \notin past.misread \cup past.delegated /\ (EntryOf(list, t) # {} => ~Unseen(t))
    BY <1>4, <1>12, Zenon
  <2>2. ledger[t].free = ledger[t].total /\ ledger[t].pending = 0 /\ past.left[t] = 0
    BY <2>1, Zenon DEF StakeInv
  <2>3. CASE EntryOf(list, t) = {}
    BY <1>9, <2>2, <2>3, Zenon
  <2>4. CASE EntryOf(list, t) # {}
    <3>1. t \notin Exempt
      BY <2>1, Zenon DEF StakeInv, Exempt
    <3>2. PICK d \in Int : d = EntryDelta(list, t) /\ store[t].balance + d >= 0
      BY <1>10, <2>1, <2>4, <3>1, Zenon
    <3>3. ledger[t].total = store[t].balance + past.left[t] /\ ledger[t] \in StakeInfo
      BY <3>1, Zenon DEF StakeInv
    <3>4. store[t].balance \in Nat
      BY <1>1, Parts, Zenon
    <3>5. ledger[t].total + d >= 0
      BY <2>2, <3>2, <3>3, <3>4
    <3>6. /\ result[t].stake.free = result[t].stake.total /\ result[t].stake.pending = 0
          /\ result[t].left = 0
      BY <1>3, <2>2, <2>4, <3>2, <3>3, <3>5, UpdateParts, Zenon
    <3>7. past'.left[t] = 0 + 0
      BY <1>4, <2>2, <3>6, Zenon
    <3>8. 0 + 0 = 0
      OBVIOUS
    <3> QED
      BY <1>6, <3>6, <3>7, <3>8, Zenon
  <2> QED
    BY <2>3, <2>4, Zenon
<1>13. past'.overdrawn \subseteq past'.misread \cup past'.delegated
  <2>1. past.overdrawn \subseteq past.misread \cup past.delegated
    BY Zenon DEF StakeInv
  <2>2. past \in PastInfo
    BY <1>1, Zenon DEF Types
  <2>3. \A t \in past.overdrawn : t \in Stakers
    BY <2>2, Zenon DEF PastInfo
  <2> QED
    BY <1>4, <2>1, <2>3, Zenon
<1> QED
  BY <1>7, <1>11, <1>12, <1>13, Zenon DEF StakeInv
-----------------------------------------------------------------------------
(***************************************************************************)
(* The two together.                                                       *)
(***************************************************************************)
\* A report that comes to its end.
LEMMA ReportStep ==
  ASSUME NativeInv, StakeInv, NoOverflow, NoOverflow', UpdateNSTBalanceChange
  PROVE  NativeInv' /\ StakeInv'
<1> DEFINE list == GetStakerList(cache, store)
           Found(i) == i \in DOMAIN list /\ store[list[i].staker].index >= 0
<1>1. report.sent /\ report' = NoReport /\ cache' = (IF Matches THEN list ELSE cache) /\ chain' = chain
  BY Zenon DEF UpdateNSTBalanceChange
<1>2. \/ /\ Matches /\ \A i \in DOMAIN report.balances : Found(i)
         /\ \E result \in UpdatedStakes(list) : UpdateStakers(list, result)
         /\ versions' = FeedVersion(versions)
      \/ UNCHANGED <<versions, store, ledger, past>>
  BY Zenon DEF UpdateNSTBalanceChange
<1>3. CASE UNCHANGED <<versions, store, ledger, past>>
  <2>1. UNCHANGED <<versions, store, past, chain>> /\ cache' \in {cache, list}
    BY <1>1, <1>3, Zenon
  <2>2. NativeInv'
    BY <1>1, <2>1, IgnoredStep, Zenon
  <2>3. UNCHANGED <<store, ledger>> /\ past' = past
    BY <1>3, Zenon
  <2> QED
    BY <2>2, <2>3, KeptStakes, Zenon
<1>4. ASSUME Matches, \A i \in DOMAIN report.balances : Found(i),
             NEW result \in UpdatedStakes(list), UpdateStakers(list, result),
             versions' = FeedVersion(versions)
      PROVE  NativeInv' /\ StakeInv'
  <2>1. \A i \in DOMAIN report.balances : i \in DOMAIN list
    BY <1>4, Zenon
  <2>2. cache' = list
    BY <1>1, <1>4, Zenon
  <2>3. PICK l : l = list
    BY Zenon
  <2>4. /\ \A i \in DOMAIN report.balances : i \in DOMAIN l
        /\ result \in UpdatedStakes(l) /\ UpdateStakers(l, result)
        /\ l = GetStakerList(cache, store) /\ cache' = l
    BY <1>4, <2>1, <2>2, <2>3, Zenon
  <2> HIDE DEF list
  <2>5. \A t \in Stakers : EntryOf(l, t) # {} => EntryDelta(l, t) \in Int
    BY <1>1, <1>4, <2>4, AppliedDelta, Zenon
  <2>6. \A t \in Stakers : result[t].left \in Int
    BY <2>4, <2>5, UpdatedParts, Zenon
  <2>7. NativeInv'
    BY <1>1, <1>4, <2>4, <2>6, AppliedStep, Zenon
  <2>8. StakeInv'
    BY <1>1, <1>4, <2>4, <2>7, AppliedStakes, Zenon
  <2> QED
    BY <2>7, <2>8, Zenon
<1> QED
  BY <1>2, <1>3, <1>4, Zenon

\* Initially nobody is registered and nothing is reported.
LEMMA NativeInit ==
  ASSUME Init
  PROVE  NativeInv /\ StakeInv
<1>1. /\ versions = [version |-> 0, feed |-> 0, withdraw |-> 0, feedWithdraw |-> 0]
      /\ store = [s \in Stakers |-> NoStaker] /\ cache = <<>>
      /\ ledger = [s \in Stakers |-> NoStake] /\ report = NoReport /\ chain = [s \in Stakers |-> 0]
      /\ past = NoPast
  BY Zenon DEF Init
<1>2. <<>> \in Seq(Entry) /\ <<>> \in Seq(CacheEntry) /\ 0 \in Nat /\ 0 \in Int /\ -1 \in Int
      /\ 0 <= 0 /\ ~(-1 >= 0) /\ -1 < 0
  OBVIOUS
<1>3. NoStaker \in StakerInfo /\ NoStaker.index = -1 /\ NoStaker.deposits = <<>> /\ NoStaker.balance = 0
  BY <1>2, Zenon DEF NoStaker, StakerInfo
<1>4. /\ past.withdrawals = [s \in Stakers |-> <<>>] /\ past.known = [s \in Stakers |-> 0]
      /\ past.left = [s \in Stakers |-> 0]
      /\ past.misread = {} /\ past.overdrawn = {} /\ past.reverted = {} /\ past.delegated = {}
      /\ past = [withdrawals |-> past.withdrawals, known |-> past.known, left |-> past.left,
                 misread |-> past.misread, overdrawn |-> past.overdrawn,
                 reverted |-> past.reverted, delegated |-> past.delegated]
  BY <1>1, Zenon DEF NoPast
<1>5. Types
  <2>1. versions \in VersionInfo
    BY <1>1, <1>2, Zenon DEF VersionInfo
  <2>2. store \in [Stakers -> StakerInfo] /\ cache \in Seq(CacheEntry)
    BY <1>1, <1>2, <1>3, Zenon
  <2>3. chain \in [Stakers -> Int]
    BY <1>1, <1>2, Zenon
  <2>4. past \in PastInfo
    <3>1. /\ past.withdrawals \in [Stakers -> Seq(Entry)] /\ past.known \in [Stakers -> Int]
          /\ past.left \in [Stakers -> Int]
          /\ past.misread \in SUBSET Stakers /\ past.overdrawn \in SUBSET Stakers
          /\ past.reverted \in SUBSET Stakers /\ past.delegated \in SUBSET Stakers
      BY <1>2, <1>4, Zenon
    <3> QED
      BY <1>4, <3>1, Zenon DEF PastInfo
  <2> QED
    BY <2>1, <2>2, <2>3, <2>4, Zenon DEF Types
<1>6. Registered(store) = {}
  BY <1>1, <1>2, <1>3, Zenon DEF Registered
<1>7. Cardinality(Registered(store)) = 0
  BY <1>6, FS_EmptySet
<1>8. Indexed(store) /\ Fits(cache, store)
  <2>1. 0 .. Cardinality(Registered(store)) - 1 = {}
    BY <1>7
  <2> QED
    BY <1>6, <2>1, Zenon DEF Indexed, Fits
<1>9. \A v \in Nat : Amount(<<>>) = 0 /\ UpTo(<<>>, v) = 0 /\ DOMAIN <<>> = {}
  BY ListEmpty, Zenon
<1>10. /\ versions.version = 0 /\ versions.feed = 0 /\ versions.withdraw = 0 /\ versions.feedWithdraw = 0
  BY <1>1, Zenon
<1>11. \A s \in Stakers :
         /\ store[s] = NoStaker /\ store[s].index = -1 /\ store[s].deposits = <<>>
         /\ store[s].balance = 0 /\ past.withdrawals[s] = <<>>
         /\ past.known[s] = 0 /\ chain[s] = 0
  BY <1>1, <1>3, <1>4, Zenon
<1>12. Versioned
  <2>1. DOMAIN <<>> = {}
    OBVIOUS
  <2> QED
    BY <1>2, <1>10, <1>11, <2>1, Zenon DEF Versioned
<1>13. Reported
  BY <1>1, Zenon DEF Reported, NoReport
<1>14. 0 - 0 + 0 = 0 /\ 0 >= 0
  OBVIOUS
<1>15. Solvent
  BY <1>2, <1>9, <1>10, <1>11, <1>14, Zenon DEF Solvent, OnChain, Exempt
<1>16. OracleExact
  BY <1>2, <1>9, <1>11, <1>14, Zenon DEF OracleExact, Exempt
<1>17. NoStake \in StakeInfo /\ NoStake.total = 0 /\ NoStake.free = 0 /\ NoStake.pending = 0
  <2>1. [o \in Operators |-> 0] \in [Operators -> Nat] /\ {} \in SUBSET Operators
    BY <1>2, Zenon
  <2> QED
    BY <1>2, <2>1, Zenon DEF NoStake, StakeInfo
<1>18. StakeInv
  <2>1. /\ ledger \in [Stakers -> StakeInfo]
        /\ \A s \in Stakers : ledger[s] = NoStake /\ past.left[s] = 0 /\ store[s].balance = 0
    BY <1>1, <1>4, <1>11, <1>17, Zenon
  <2>2. 0 = 0 + 0
    OBVIOUS
  <2>3. \A s \in Stakers : ledger[s].total = store[s].balance + past.left[s]
    BY <1>17, <2>1, <2>2, Zenon
  <2>4. \A s \in Stakers : ledger[s].free = ledger[s].total /\ ledger[s].pending = 0
    BY <1>17, <2>1, Zenon
  <2> QED
    BY <1>4, <2>1, <2>3, <2>4, Zenon DEF StakeInv
<1> QED
  BY <1>5, <1>8, <1>12, <1>13, <1>15, <1>16, <1>18, Zenon DEF NativeInv

\* Every step keeps the invariant, as long as no balance reaches Modulus.
LEMMA NativeStep ==
  ASSUME NativeInv, StakeInv, NoOverflow, NoOverflow', [Next]_vars
  PROVE  NativeInv' /\ StakeInv'
<1>1. ASSUME NEW s \in Stakers, NEW x \in Amounts, NEW reverts \in BOOLEAN, Deposit(s, x, reverts)
      PROVE  NativeInv' /\ StakeInv'
  <2>1. CASE reverts = FALSE
    <3>1. Deposit(s, x, FALSE)
      BY <1>1, <2>1, Zenon
    <3>2. NativeInv'
      BY <3>1, DepositStep, Zenon
    <3> QED
      BY <3>1, <3>2, DepositStakes, Zenon
  <2>2. CASE reverts = TRUE
    <3>1. Deposit(s, x, TRUE)
      BY <1>1, <2>2, Zenon
    <3>2. /\ past' = [past EXCEPT !.reverted = past.reverted \cup {s}]
          /\ UNCHANGED <<versions, store, report, chain>> /\ ledger' = ledger
          /\ cache' = IF store[s].index >= 0 THEN cache ELSE AddNSTStaker(cache, Deposited(s, x), s)
      BY <3>1, Zenon DEF Deposit, Committed
    <3>3. cache' \in Seq(CacheEntry) /\ Fits(cache', store)
      BY <3>2, DepositedFits, Zenon DEF NativeInv
    <3>4. NativeInv'
      BY <3>2, <3>3, KeptStep, Zenon
    <3> QED
      BY <3>2, <3>4, KeptStakes, Zenon
  <2> QED
    BY <2>1, <2>2, Zenon
<1>2. ASSUME NEW s \in Stakers, NEW x \in Amounts, NEW reverts \in BOOLEAN, Withdraw(s, x, reverts)
      PROVE  NativeInv' /\ StakeInv'
  <2>1. CASE reverts = FALSE
    <3>1. Withdraw(s, x, FALSE)
      BY <1>2, <2>1, Zenon
    <3>2. NativeInv'
      BY <3>1, WithdrawStep, Zenon
    <3> QED
      BY <3>1, <3>2, WithdrawStakes, Zenon
  <2>2. CASE reverts = TRUE
    <3>1. Withdraw(s, x, TRUE)
      BY <1>2, <2>2, Zenon
    <3>2. /\ past' = [past EXCEPT !.reverted = past.reverted \cup {s}]
          /\ UNCHANGED <<versions, store, report, chain>> /\ ledger' = ledger
          /\ cache' = UpdateWithdrawVersion(cache, Withdrawn(s, x), s)
      BY <3>1, Zenon DEF Withdraw, Committed
    <3>3. cache' \in Seq(CacheEntry) /\ Fits(cache', store)
      BY <3>2, WithdrawnFits, Zenon DEF NativeInv
    <3>4. NativeInv'
      BY <3>2, <3>3, KeptStep, Zenon
    <3> QED
      BY <3>2, <3>4, KeptStakes, Zenon
  <2> QED
    BY <2>1, <2>2, Zenon
<1>3. ASSUME NEW s \in Stakers, NEW a \in StakeInfo, a.total = ledger[s].total, Moved(s, a)
      PROVE  NativeInv' /\ StakeInv'
  <2>1. /\ past' = [past EXCEPT !.delegated = past.delegated \cup {s}]
        /\ UNCHANGED <<versions, store, report, chain>> /\ cache' = cache
    BY <1>3, Zenon DEF Moved
  <2>2. cache' \in Seq(CacheEntry) /\ Fits(cache', store)
    BY <2>1, Zenon DEF NativeInv, Types
  <2>3. NativeInv'
    BY <2>1, <2>2, KeptStep, Zenon
  <2>4. StakeInv'
    BY <1>3, MovedStakes, Zenon
  <2> QED
    BY <2>3, <2>4, Zenon
<1>4. ASSUME NEW s \in Stakers, NEW o \in Operators,
             \/ \E x \in Amounts : DelegateTo(s, o, x)
             \/ \E x \in Amounts, whole \in BOOLEAN : UndelegateFrom(s, o, x, whole)
             \/ \E pending \in 0 .. ledger[s].pending, worth \in 0 .. ledger[s].worth[o] + 1,
                   cleared \in BOOLEAN : SlashAssets(s, o, pending, worth, cleared)
      PROVE  NativeInv' /\ StakeInv'
  BY <1>3, <1>4, MoveStakes, Zenon
<1>5. ASSUME NEW s \in Stakers, NEW x \in 1 .. ledger[s].pending, Complete(s, x)
      PROVE  NativeInv' /\ StakeInv'
  BY <1>3, <1>5, CompleteStakes, Zenon
<1>6. ASSUME NEW s \in Stakers, NEW d \in Changes, ChainChange(s, d)
      PROVE  NativeInv' /\ StakeInv'
  <2>1. NativeInv'
    BY <1>6, ChainChangeStep, Zenon
  <2>2. UNCHANGED <<store, ledger>> /\ past' = past
    BY <1>6, Zenon DEF ChainChange
  <2> QED
    BY <2>1, <2>2, KeptStakes, Zenon
<1>7. CASE UpdateNSTBalanceChange
  BY <1>7, ReportStep, Zenon
<1>8. CASE Feed \/ UpdateNSTFeedVersion \/ Restart \/ LoseReport \/ UNCHANGED vars
  <2>1. NativeInv'
    BY <1>8, FeedStep, FeedVersionStep, QuietSteps, Zenon
  <2>2. UNCHANGED <<store, ledger>> /\ past' = past
    BY <1>8, Zenon DEF Feed, UpdateNSTFeedVersion, Restart, LoseReport, vars
  <2> QED
    BY <2>1, <2>2, KeptStakes, Zenon
<1> QED
  BY <1>1, <1>2, <1>4, <1>5, <1>6, <1>7, <1>8, Zenon DEF Next

\* As long as no balance reaches the modulus of the oracle's 64 bits, the
\* oracle's balance of a staker is its deposits less its withdrawals plus what
\* the last report applied to it knew, and its total in x/assets is the same but
\* for what UpdateNSTBalance could not take, which is nothing for a staker that
\* never delegated: for every set of stakers and operators, through every
\* interleaving of deposits, withdrawals, delegations, slashes and reports, with
\* reverted transactions and restarts.  Left out are stakers to which a report
\* was applied that did not know their withdrawal, and stakers that withdrew more
\* than the oracle knew of; the latter delegated, or are of the former.
THEOREM NativeBalancesExact == Spec /\ []NoOverflow => []BalancesExact
<1>1. Init => NativeInv /\ StakeInv
  BY NativeInit
<1>2. NativeInv /\ StakeInv /\ NoOverflow /\ NoOverflow' /\ [Next]_vars => NativeInv' /\ StakeInv'
  BY NativeStep
<1>3. NativeInv /\ StakeInv => BalancesExact
  <2> SUFFICES ASSUME NativeInv, StakeInv
               PROVE  BalancesExact
    OBVIOUS
  <2>1. ASSUME NEW s \in Stakers \ (past.misread \cup past.overdrawn)
        PROVE  /\ store[s].balance = Amount(store[s].deposits) - Amount(past.withdrawals[s]) + past.known[s]
               /\ ledger[s].total = store[s].balance + past.left[s]
               /\ s \notin past.delegated => past.left[s] = 0
    BY <2>1, Zenon DEF NativeInv, OracleExact, StakeInv, Exempt
  <2> QED
    BY <2>1, Zenon DEF BalancesExact, StakeInv
<1> QED
  BY <1>1, <1>2, <1>3, PTL DEF Spec
=============================================================================
