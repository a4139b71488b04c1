---------------------------- MODULE AssetCustody ----------------------------
(***************************************************************************)
(* What the restaking ledger promises about one asset, without shares,     *)
(* pending amounts, epochs, holds or blocks: where the tokens are and how  *)
(* they may move.                                                          *)
(*                                                                         *)
(*   vault    the tokens in custody, which a slash does not change         *)
(*   free     what a holder may withdraw or delegate                       *)
(*   pooled   the tokens of the operators' pools                           *)
(*   ticket   the undelegations on their way back to their holders         *)
(*                                                                         *)
(* Tokens reach a holder by its own deposit or by one of its own tickets,  *)
(* which is paid once, entirely and then gone.  A ticket is worth no more  *)
(* than its pool gave up for it, and a slash only ever takes.  Delegation  *)
(* implements this specification (CustodyImplemented).                     *)
(***************************************************************************)
EXTENDS Integers

CONSTANTS Holders, Pools, Tickets

VARIABLES vault, free, pooled, ticket

vars == <<vault, free, pooled, ticket>>

\* internal: a ticket of rewards.
Void == [live |-> FALSE, owner |-> "none", payable |-> 0, internal |-> FALSE]

Init ==
  /\ vault \in Nat
  /\ free \in [Holders -> Nat]
  /\ pooled = [p \in Pools |-> 0]
  /\ ticket = [i \in Tickets |-> Void]

\* At most the entry x of f is different in g.
OnlyAt(f, g, x) == \A y \in DOMAIN f \ {x} : g[y] = f[y]

\* No entry of g is above the one of f.
NoMore(f, g) == \A x \in DOMAIN f : g[x] <= f[x]

\* A deposit, or a withdrawal of no more than what is free.
DepositOrWithdraw(h) ==
  /\ OnlyAt(free, free', h) /\ free'[h] >= 0
  /\ vault' = vault + free'[h] - free[h]
  /\ UNCHANGED <<pooled, ticket>>

\* What the pool gains is what the holder gives.
Stake(h, p) ==
  /\ OnlyAt(free, free', h) /\ free'[h] \in 0 .. free[h]
  /\ pooled' = [pooled EXCEPT ![p] = @ + free[h] - free'[h]]
  /\ UNCHANGED <<vault, ticket>>

\* Rewards that are delegated again come from the distribution module, to which
\* a ticket of rewards brings them back.
StakeReward(p) ==
  /\ OnlyAt(pooled, pooled', p) /\ pooled'[p] > pooled[p]
  /\ vault' = vault + pooled'[p] - pooled[p]
  /\ UNCHANGED <<free, ticket>>

\* The ticket is worth at most what leaves the pool for it.
Unstake(h, p, i) ==
  /\ ~ticket[i].live
  /\ OnlyAt(pooled, pooled', p) /\ pooled'[p] \in 0 .. pooled[p]
  /\ OnlyAt(ticket, ticket', i)
  /\ ticket'[i].live /\ ticket'[i].owner = h
  /\ ticket'[i].payable \in 0 .. pooled[p] - pooled'[p]
  /\ UNCHANGED <<vault, free>>

\* A slash leaves the owners and the number of the tickets.
Reduced ==
  /\ NoMore(pooled, pooled') /\ \A p \in Pools : pooled'[p] >= 0
  /\ \A i \in Tickets :
       /\ ticket'[i].payable \in 0 .. ticket[i].payable
       /\ ticket'[i] = [ticket[i] EXCEPT !.payable = ticket'[i].payable]

Slash == Reduced /\ UNCHANGED <<vault, free>>

\* The client chain reports a loss of h: only its own tickets are touched.
ReportLoss(h) ==
  /\ Reduced
  /\ OnlyAt(free, free', h) /\ free'[h] \in 0 .. free[h]
  /\ \A i \in Tickets : ticket[i].owner # h => ticket'[i] = ticket[i]
  /\ UNCHANGED vault

Pay(i) ==
  LET t == ticket[i]
  IN
  /\ t.live
  /\ ticket' = [ticket EXCEPT ![i] = Void]
  /\ IF t.internal THEN vault' = vault - t.payable /\ UNCHANGED free
     ELSE free' = [free EXCEPT ![t.owner] = @ + t.payable] /\ UNCHANGED vault
  /\ UNCHANGED pooled

Next ==
  \/ \E h \in Holders : DepositOrWithdraw(h) \/ ReportLoss(h)
  \/ \E p \in Pools : StakeReward(p)
  \/ \E h \in Holders, p \in Pools : Stake(h, p) \/ \E i \in Tickets : Unstake(h, p, i)
  \/ Slash
  \/ \E i \in Tickets : Pay(i)

Spec == Init /\ [][Next]_vars
=============================================================================
