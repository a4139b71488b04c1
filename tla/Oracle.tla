------------------------------- MODULE Oracle -------------------------------
(***************************************************************************)
(* The price oracle: x/oracle's feeder manager, the nonces that gate price *)
(* messages, the stored prices, the reports about validators, and the      *)
(* recovery of the manager's memory when a node restarts.                  *)
(*                                                                         *)
(* A token feeder runs a round every `interval' blocks.  In the MaxNonce   *)
(* blocks after the base block of a round validators quote prices; a quote *)
(* that more than ThresholdA/ThresholdB of the power agrees on becomes the *)
(* round's price at the end of that block, and a round that ends without   *)
(* one repeats the previous price.  At the end of the window the quotes    *)
(* are reviewed.  A feeder of two phases agrees on a Merkle root first and *)
(* then collects the leaves, piece by piece, from block proposers.  Rounds *)
(* live in memory only: a node that starts rebuilds them at BeginBlock     *)
(* from the messages, parameters and validator updates of recent blocks.   *)
(*                                                                         *)
(* There is one deterministic source (rule V1): a quote is a detID of the  *)
(* source and a price.  A Merkle tree is its number of leaves and how many *)
(* pieces arrived, a piece is genuine or not.  CheckTx and the mempool are *)
(* left out.  Powers come from x/dogfood, jailing and slashing are its.    *)
(***************************************************************************)
EXTENDS PriceStore, Sequences, FiniteSets, FiniteSetsExt, SequencesExt

CONSTANTS
  Validators,            \* numbers: the order of their addresses
  Honest,                \* the validators that quote what the source says
  Powers,                \* the power functions x/dogfood may choose; 0: no validator
  GenesisPowers,         \* the one of genesis
  Messages,              \* what a price message may hold: sets of quotes
  MaxNonce, ThresholdA, ThresholdB,      \* parameters of x/oracle
  ReportedRoundsWindow, MinReportedPerWindow,
  GenesisFeeders,        \* token feeders of genesis
  Requests,              \* [feeder, heights]: what MsgUpdateParams may ask for, and when
  TwoPhases,             \* tokens whose rule is of two phases
  Leaves,                \* price -> leaves of the tree it is the root of
  EpochEnds,             \* heights at which an epoch may end
  MaxHeight, MaxUpdates, MaxChanges, MaxMessages     \* bounds of the model

Quotes == UNION Messages
NoQuote == [det |-> 0, price |-> NoPrice]
True(q) == q.price = q.det      \* what the source says: its n-th price is n
Tokens == {GenesisFeeders[f].token : f \in DOMAIN GenesisFeeders} \cup {req.feeder.token : req \in Requests}
FeederIDs == 1..(Len(GenesisFeeders) + MaxUpdates)

ASSUME OracleAssumption ==
  /\ Validators \subseteq Nat /\ IsFiniteSet(Validators) /\ Honest \subseteq Validators
  /\ GenesisPowers \in Powers /\ Powers \subseteq [Validators -> Nat]
  /\ \A m \in Messages : m # {} /\ \A p, q \in m : p.det = q.det => p = q
  /\ MaxNonce \in Nat \ {0} /\ ThresholdA \in Nat \ {0} /\ ThresholdB \in ThresholdA..(2 * ThresholdA)
  /\ MinReportedPerWindow \in 1..ReportedRoundsWindow

VARIABLES
  height,          \* of the block being executed
  fresh,           \* no transaction of it was executed yet
  halted,          \* the node panicked
  \* the store
  feeders,         \* Params.TokenFeeders
  powers,          \* the validators of x/dogfood
  prices,          \* token -> its prices
  nonces,          \* validator -> sequence of [feeder, value]
  recentMsgs,      \* sequence of [block, msgs]
  recentParams,    \* [index, at]: blocks, and block -> token feeders
  validatorUpdateBlock,
  reports,         \* validator -> ValidatorReportInfo and its missed rounds
  trees,           \* feeder -> state of the second phase
  jailed,          \* x/operator's
  \* the memory of the feeder manager
  cached,          \* token feeders in its cache and in its rounds
  rounds,          \* feeder -> its round, for the feeders that have one
  blockMsgs,       \* messages to be committed with the block
  paramsUpdated,
  collecting,      \* feeders still to get a piece in this block
  maliciousTx,     \* feeder -> validator of a piece that failed, 0 if none
  postHandlers,    \* feeders to which the keeper bound a handler of raw data
  \* what happened, for the properties and to bound the model
  updates, changes, sent,    \* of parameters, of the validators, price messages
  slashed,         \* validators slashed for a price
  full,            \* token -> every price committed
  epochEnd         \* height of the last epoch end, and the latest rounds then

storeVars == <<feeders, powers, prices, nonces, recentMsgs, recentParams, validatorUpdateBlock,
               reports, trees, jailed>>
memoryVars == <<cached, rounds, blockMsgs, paramsUpdated, collecting, maliciousTx, postHandlers>>
history == <<updates, changes, sent, slashed, full, epochEnd>>
vars == <<height, fresh, halted, storeVars, memoryVars, history>>

NoAgg == [open |-> FALSE, total |-> 0, quotes |-> [v \in Validators |-> {}],
          tally |-> [q \in Quotes |-> 0], final |-> NoQuote]
NoTree == [leaves |-> 0, next |-> 0]
newRound(handler) == [base |-> 0, id |-> 0, status |-> "closed", agg |-> NoAgg, m |-> NoTree,
                      checking |-> 0, handler |-> handler]
NoReport == [start |-> 0, offset |-> 0, missed |-> 0, bits |-> {}]
NoPhase == [leaves |-> 0, next |-> 0, index |-> [v \in Validators |-> -1]]
Active(pw) == {v \in Validators : pw[v] > 0}
-----------------------------------------------------------------------------
(* Rounds.  tf is the token feeder, h a height.                            *)

getPosition(tf, h) ==
  LET d == h - tf.start
  IN  IF (tf.end > 0 /\ h > tf.end) \/ h < tf.start
      THEN [base |-> 0, id |-> 0, delta |-> 0, expired |-> tf.end > 0 /\ h > tf.end]
      ELSE [base |-> h - (d % tf.interval), id |-> tf.startRound + d \div tf.interval,
            delta |-> d % tf.interval, expired |-> FALSE]

IsQuotingWindowEnd(tf, h) == getPosition(tf, h).delta = MaxNonce

openQuotingWindow(r, pw) ==
  [r EXCEPT !.status = "open",
            !.agg = [NoAgg EXCEPT !.open = TRUE, !.total = MapThenSumSet(LAMBDA v : pw[v], Validators)]]
closeQuotingWindow(r) == [r EXCEPT !.status = "closed", !.agg = NoAgg]

PrepareForNextBlock(r, tf, h, pw) ==
  LET pos == getPosition(tf, h)
      next == [r EXCEPT !.base = pos.base, !.id = pos.id,
                        !.checking = IF tf.token \in TwoPhases THEN pos.base + 2 * MaxNonce ELSE @]
  IN  IF h < r.base /\ r.status = "open" THEN closeQuotingWindow(r)
      ELSE IF h = r.base /\ r.status # "open" THEN openQuotingWindow(r, pw)
      ELSE IF pos.expired /\ r.status = "open" THEN closeQuotingWindow(r)
      ELSE IF pos.base <= r.base THEN r
      ELSE IF pos.delta = 0 /\ r.status # "open" THEN openQuotingWindow(next, pw)
      ELSE next

prepareRounds(rs, fs, h, pw) == [f \in DOMAIN rs |-> PrepareForNextBlock(rs[f], fs[f], h, pw)]

\* Quoted: the validator quoted for this detID of the source in this window.
Quoted(r, v, det) == \E q \in r.agg.quotes[v] : q.det = det
Accepts(r, v, msg) == r.agg.open /\ \E q \in msg : ~Quoted(r, v, q.det)
Exceeds(power, total) == power * ThresholdB > total * ThresholdA

\* Mutant: the power behind all quotes is compared with the threshold, not that behind one.
TallyAll(r, v, msg, pw) ==
  LET added == {q \in msg : ~Quoted(r, v, q.det)}
      agg == [r.agg EXCEPT !.quotes[v] = @ \cup added,
                           !.tally = [q \in Quotes |-> IF q \in added THEN @[q] + pw[v] ELSE @[q]]]
      agreed == {q \in Quotes : agg.tally[q] > 0 /\ Exceeds(MapThenSumSet(LAMBDA x : agg.tally[x], Quotes), agg.total)}
  IN  IF r.status # "open" THEN [r EXCEPT !.agg.quotes[v] = @ \cup added]
      ELSE IF agreed = {} THEN [r EXCEPT !.agg = agg]
      ELSE [r EXCEPT !.agg = [agg EXCEPT !.final = CHOOSE q \in agreed : \A x \in agreed : x.det <= q.det],
                     !.status = "committable"]

\* A validator's quotes are added to its round; those for a detID it already
\* quoted are dropped.  Once the round has its price they are only recorded.
Tally(r, v, msg, pw) ==
  LET added == {q \in msg : ~Quoted(r, v, q.det)}
      agg == [r.agg EXCEPT !.quotes[v] = @ \cup added,
                           !.tally = [q \in Quotes |-> IF q \in added THEN @[q] + pw[v] ELSE @[q]]]
      agreed == {q \in Quotes : Exceeds(agg.tally[q], agg.total)}
  IN  IF r.status # "open" THEN [r EXCEPT !.agg.quotes[v] = @ \cup added]
      ELSE IF agreed = {} THEN [r EXCEPT !.agg = agg]
      ELSE [r EXCEPT !.agg = [agg EXCEPT !.final = CHOOSE q \in agreed : \A x \in agreed : x.det <= q.det],
                     !.status = "committable"]

\* Mutant: sealed rounds are closed without a commit.
CommittableAtEnd(rs, fs, h, seal) ==
  [f \in DOMAIN rs |->
     IF rs[f].status = "open" /\ IsQuotingWindowEnd(fs[f], h)
     THEN [rs[f] EXCEPT !.status = "committable"] ELSE rs[f]]

setCommittableState(rs, fs, h, seal) ==
  [f \in DOMAIN rs |->
     IF rs[f].status = "open" /\ (seal \/ IsQuotingWindowEnd(fs[f], h))
     THEN [rs[f] EXCEPT !.status = "committable"] ELSE rs[f]]

\* The rounds follow the parameters fs: feeders without a round get one, with
\* the handler bound to them by then, if any.
addNewRounds(rs, fs, h, handlers) ==
  LET added == {f \in DOMAIN fs \ DOMAIN rs : fs[f].end = 0 \/ fs[f].end > h}
  IN  [f \in DOMAIN rs \cup added |-> IF f \in added THEN newRound(f \in handlers) ELSE rs[f]]

Expired(rs, fs, h) == {f \in DOMAIN rs : fs[f].end > 0 /\ fs[f].end <= h}
-----------------------------------------------------------------------------
(* The end of a block: rounds are committed.                               *)

\* The second phase of feeder f is set up for the validators of pw, with no piece yet.
Setup2ndPhase(n, pw) ==
  [leaves |-> n, next |-> 0, index |-> [v \in Validators |-> IF pw[v] > 0 THEN 0 ELSE -1]]

\* Mutant: the piece indexes of the validators stay.
KeepPieceIndexes(t) == [NoPhase EXCEPT !.index = t.index]

Clear2ndPhase(t) == NoPhase

\* What processRound makes of a round r, the prices p of its token and the
\* state t of its second phase.  n is the number of rounds.
processRound(f, tf, r, p, t, seal, n, pw) ==
  LET two == tf.token \in TwoPhases
      q == r.agg.final
      agreed == q # NoQuote /\ CanAppend(p, r.id)
      complete == r.m.leaves > 0 /\ r.m.next = r.m.leaves
      done == IF r.status = "committable"
              THEN [round |-> [r EXCEPT !.status = "closed",
                                        !.m = IF agreed /\ two THEN [leaves |-> Leaves[q.price], next |-> 0] ELSE @],
                    price |-> IF agreed THEN AppendPriceTR(p, r.id, q.price, ~two)
                                        ELSE GrowRoundID(p, r.id, ~two),
                    tree |-> IF agreed /\ two THEN Setup2ndPhase(Leaves[q.price], pw) ELSE t]
              ELSE [round |-> IF complete THEN [r EXCEPT !.m = NoTree] ELSE r,
                    price |-> p,
                    tree |-> IF complete THEN Clear2ndPhase(t)
                             ELSE IF r.m.next > 0 THEN [t EXCEPT !.next = r.m.next] ELSE t]
  IN  IF f > n THEN [round |-> r, price |-> p, tree |-> t]
      ELSE IF ~seal THEN done
      ELSE [done EXCEPT !.round = [closeQuotingWindow(@) EXCEPT !.m = NoTree],
                        !.tree = IF done.round.m = NoTree THEN @ ELSE Clear2ndPhase(@)]

-----------------------------------------------------------------------------
(* The review of what validators quoted.  p is [info, jailed, slashed].    *)

ResetReport(i) == [i EXCEPT !.offset = 0, !.missed = 0, !.bits = {}]

handleMalicious(p, v, rawData) ==
  IF v \in p.jailed \/ p.info[v] = NoReport THEN p
  ELSE [p EXCEPT !.info[v] = ResetReport(@), !.jailed = @ \cup {v},
                 !.slashed = IF rawData THEN @ ELSE @ \cup {v}]

\* IndexOffset is only used modulo the window.
handleMissCount(p, v, miss, h) ==
  LET i == p.info[v]
      bits == IF miss THEN i.bits \cup {i.offset} ELSE i.bits \ {i.offset}
      counted == [i EXCEPT !.offset = (@ + 1) % ReportedRoundsWindow, !.bits = bits,
                           !.missed = @ + (IF miss /\ i.offset \notin i.bits THEN 1 ELSE 0)
                                        - (IF ~miss /\ i.offset \in i.bits THEN 1 ELSE 0)]
      punish == /\ h > i.start + ReportedRoundsWindow
                /\ counted.missed > ReportedRoundsWindow - MinReportedPerWindow
                /\ v \notin p.jailed
  IN  IF i = NoReport THEN p
      ELSE IF punish THEN [p EXCEPT !.info[v] = ResetReport(counted), !.jailed = @ \cup {v}]
      ELSE [p EXCEPT !.info[v] = counted]

\* Mutant: whoever did not quote the final price is malicious.
AnyOther(r, v) == r.agg.final \notin r.agg.quotes[v] /\ r.agg.quotes[v] # {}

\* PerformanceReview: quoted another price for the detID of the final one.
Malicious(r, v) == r.agg.final \notin r.agg.quotes[v] /\ Quoted(r, v, r.agg.final.det)
Missed(r, v) == r.agg.final \notin r.agg.quotes[v] /\ ~Malicious(r, v)

reviewQuotes(p, r, h, pw) ==
  FoldLeft(LAMBDA acc, v :
             IF Malicious(r, v) THEN handleMalicious(acc, v, FALSE)
             ELSE handleMissCount(acc, v, Missed(r, v), h),
           p, SetToSortSeq(Active(pw), <))

\* handleQuotingMisBehavior: bad pieces, then feeders in order: a feeder that
\* got no piece counts against the proposer, one whose window ends is reviewed.
handleQuotingMisBehavior(p, rs, fs, h, pw, proposer) ==
  LET badPieces == FoldLeft(LAMBDA acc, f : IF maliciousTx[f] = 0 THEN acc
                                              ELSE handleMalicious(acc, maliciousTx[f], TRUE),
                            p, SetToSortSeq(FeederIDs, <))
  IN  FoldLeft(LAMBDA acc, f :
                 IF f \in collecting
                 THEN IF h < rs[f].checking THEN acc ELSE handleMissCount(acc, proposer, TRUE, h)
                 ELSE IF IsQuotingWindowEnd(fs[f], h) /\ rs[f].agg.final # NoQuote
                 THEN reviewQuotes(acc, rs[f], h, pw)
                 ELSE acc,
               badPieces, SetToSortSeq(DOMAIN rs, <))

\* The windows that handleQuotingMisBehavior closes.
closeReviewed(rs, fs, h) ==
  [f \in DOMAIN rs |->
     IF f \notin collecting /\ IsQuotingWindowEnd(fs[f], h) THEN closeQuotingWindow(rs[f]) ELSE rs[f]]

\* InitValidatorReportInfo: a validator that has a record keeps it.
initReport(i, h) == IF i = NoReport THEN [NoReport EXCEPT !.start = h] ELSE i
-----------------------------------------------------------------------------
(* Nonces and what is kept for recovery.                                   *)

\* removeNonceWithFeederIDs: the index of the loop goes back with every entry,
\* removed or not, so it stops at the first entry that stays.
removeNonces(list, fs) ==
  LET kept == {i \in DOMAIN list : list[i].feeder \notin fs}
  IN  IF kept = {} THEN <<>> ELSE SubSeq(list, Min(kept), Len(list))

HasNonce(list, f) == \E i \in DOMAIN list : list[i].feeder = f

addZeroNonces(list, fs) ==
  list \o [i \in 1..Cardinality({f \in fs : ~HasNonce(list, f)}) |->
             [feeder |-> SetToSortSeq({f \in fs : ~HasNonce(list, f)}, <)[i], value |-> 0]]

\* SetMsgItemsForCache: messages older than MaxNonce blocks are dropped.
SetMsgItemsForCache(list, h, msgs) ==
  Append(SelectSeq(list, LAMBDA m : h < MaxNonce \/ m.block > h - MaxNonce), [block |-> h, msgs |-> msgs])

\* SetParamsForCache: the unsigned difference h - MaxNonce wraps below zero, so
\* that every block is old; the record of the last old block goes, its index stays.
SetParamsForCache(rp, h, fs) ==
  LET n == Len(rp.index)
      Old(b) == h < MaxNonce \/ b <= h - MaxNonce
      old == {i \in 1..n : \A j \in 1..i : Old(rp.index[j])}
      last == IF n > 1 /\ old # {} THEN Max(old) ELSE 1
      removed == IF n <= 1 \/ old = {} THEN {}
                 ELSE {rp.index[i] : i \in IF last = n THEN 1..(n - 1) ELSE 1..last}
  IN  [index |-> Append(SubSeq(rp.index, last, n), h),
       at |-> (h :> fs) @@ Restrict(rp.at, DOMAIN rp.at \ removed)]
-----------------------------------------------------------------------------
(* Recovery.                                                               *)

TwoPhasesFeeders(fs) == {f \in DOMAIN fs : fs[f].token \in TwoPhases}

\* One block of the replay: its messages, then EndBlockInRecovery.  s is
\* [rounds, fs, todo]: todo are the blocks of parameters still to be applied.
Replay(s, h) ==
  LET msgs == FlattenSeq([i \in DOMAIN recentMsgs |-> IF recentMsgs[i].block = h THEN recentMsgs[i].msgs ELSE <<>>])
      tallied == FoldLeft(LAMBDA rs, m :
                            IF m.feeder \in DOMAIN rs /\ Accepts(rs[m.feeder], m.validator, m.quotes)
                            THEN [rs EXCEPT ![m.feeder] = Tally(@, m.validator, m.quotes, powers)] ELSE rs,
                          s.rounds, msgs)
      update == s.todo # <<>> /\ Head(s.todo) = h
      fs == IF update THEN recentParams.at[h] ELSE s.fs
      ended == [f \in DOMAIN tallied |->
                  LET r == setCommittableState(tallied, s.fs, h, FALSE)[f]
                  IN  IF IsQuotingWindowEnd(s.fs[f], h) THEN closeQuotingWindow(r)
                      ELSE IF r.status = "committable" THEN [r EXCEPT !.status = "closed"] ELSE r]
      added == IF update THEN addNewRounds(ended, fs, h, TwoPhasesFeeders(feeders)) ELSE ended
      kept == Restrict(added, DOMAIN added \ Expired(added, fs, h))
  IN  [rounds |-> prepareRounds(kept, fs, h, powers), fs |-> fs,
       todo |-> IF update THEN Tail(s.todo) ELSE s.todo]

\* Mutant: the replay starts a block late.
FromLater == Max({height - MaxNonce, validatorUpdateBlock}) + 1

\* Rounds opened before this block are closed by now.
replayHeight == Max({height - MaxNonce, validatorUpdateBlock})

\* The token feeders to start from, and the later ones to be applied.
Recovered ==
  LET recent == {b \in DOMAIN recentParams.at : b >= height - MaxNonce}
      first == IF recent = {} THEN Max(DOMAIN recentParams.at) ELSE Min(recent)
      fs == recentParams.at[first]
      running == {f \in DOMAIN fs : fs[f].end = 0 \/ fs[f].end > replayHeight}
      start == [rounds |-> prepareRounds([f \in running |-> newRound(f \in TwoPhasesFeeders(feeders))],
                                         fs, replayHeight, powers),
                fs |-> fs, todo |-> SetToSortSeq(recent \ {first}, <)]
      replayed == FoldLeft(Replay, start, [i \in 1..(height - 1 - replayHeight) |-> replayHeight + i])
  IN  [replayed EXCEPT !.rounds = [f \in DOMAIN @ |->
         [@[f] EXCEPT !.m = IF trees[f].leaves = 0 THEN @ ELSE [leaves |-> trees[f].leaves, next |-> trees[f].next]]]]

\* Pieces of raw data are counted in the store but not kept there.
RecoveryFails(rs) == \E f \in DOMAIN rs : trees[f].leaves > 0 /\ trees[f].next > 0
-----------------------------------------------------------------------------
(* Transactions.                                                           *)

\* CheckAndIncreaseNonce: a message carries the next nonce, at most MaxNonce.
NonceIndex(v, f) == {i \in DOMAIN nonces[v] : nonces[v][i].feeder = f /\ nonces[v][i].value < MaxNonce}

\* DuplicatedPriceSourceDetIDs: the ante handler refuses a message without a new detID.
Duplicated(v, f, msg) ==
  /\ f <= Cardinality(DOMAIN rounds) /\ rounds[f].agg.open
  /\ \A q \in msg : Quoted(rounds[f], v, q.det)

\* The ante handler and CreatePrice with prices, for the base block of the
\* current round.  The nonce stays used when the message fails.
CreatePrice(v, f, msg) ==
  /\ ~halted /\ sent < MaxMessages /\ f \in DOMAIN rounds
  /\ v \in Honest => \A q \in msg : True(q)
  /\ NonceIndex(v, f) # {} /\ ~Duplicated(v, f, msg)
  /\ Cardinality(msg) <= MaxNonce
  /\ cached[f].token \in TwoPhases =>
       \A q \in msg : Cardinality(msg) = 1 /\ Leaves[q.price] \in 1..(cached[f].interval - 2 * MaxNonce)
  /\ nonces' = [nonces EXCEPT ![v][Min(NonceIndex(v, f))].value = @ + 1]
  /\ IF Accepts(rounds[f], v, msg)
     THEN /\ rounds' = [rounds EXCEPT ![f] = Tally(@, v, msg, powers)]
          /\ blockMsgs' = Append(blockMsgs, [validator |-> v, feeder |-> f, quotes |-> msg])
     ELSE UNCHANGED <<rounds, blockMsgs>>
  /\ fresh' = FALSE /\ sent' = sent + 1
  /\ UNCHANGED <<height, halted, feeders, powers, prices, recentMsgs, recentParams, validatorUpdateBlock, reports, trees,
                 jailed, cached, paramsUpdated, collecting, maliciousTx, postHandlers, updates, changes, slashed, full, epochEnd>>

\* CreatePrice with the next piece of raw data.  A piece that does not match
\* the root fails, and is held against its sender at the end of the block.
ProcessRawData(v, f, genuine) ==
  /\ ~halted /\ f \in DOMAIN rounds /\ cached[f].token \in TwoPhases
  /\ rounds[f].m.next < rounds[f].m.leaves
  /\ trees[f].index[v] \in 0..rounds[f].m.next
  /\ trees' = [trees EXCEPT ![f].index[v] = rounds[f].m.next + 1]
  /\ collecting' = collecting \ {f}
  /\ IF genuine
     THEN /\ rounds' = [rounds EXCEPT ![f].m.next = @ + 1]
          /\ UNCHANGED maliciousTx
     ELSE /\ v \notin Honest
          /\ maliciousTx' = [maliciousTx EXCEPT ![f] = v]
          /\ UNCHANGED rounds
  /\ fresh' = FALSE
  /\ UNCHANGED <<height, halted, feeders, powers, prices, nonces, recentMsgs, recentParams, validatorUpdateBlock,
                 reports, jailed, cached, blockMsgs, paramsUpdated, postHandlers, history>>

\* Params.Validate, for token feeders.
ValidFeeders(fs) ==
  \A f \in DOMAIN fs :
    /\ fs[f].startRound >= 1 /\ fs[f].start >= 1 /\ fs[f].interval >= 2 * MaxNonce
    /\ fs[f].end > 0 => fs[f].start < fs[f].end /\ (fs[f].end - fs[f].start) % fs[f].interval >= MaxNonce
    /\ \A g \in 1..(f - 1) :
         fs[g].token = fs[f].token /\ (\A k \in (g + 1)..(f - 1) : fs[k].token # fs[f].token) =>
           /\ fs[g].end > 0 /\ fs[g].end < fs[f].start
           /\ fs[f].startRound = fs[g].startRound + (fs[g].end - fs[g].start) \div fs[g].interval + 1

\* UpdateTokenFeeder: the token feeders after request tf, unchanged if it is refused.
UpdateTokenFeeder(fs, tf) ==
  LET same == {f \in DOMAIN fs : fs[f].token = tf.token}
      f == Max(same)
      old == fs[f]
      modified == [old EXCEPT !.start = IF tf.start > 0 THEN tf.start ELSE @,
                              !.interval = IF tf.interval > 0 THEN tf.interval ELSE @,
                              !.end = IF tf.end > 0 THEN tf.end ELSE @]
      latestRound == old.startRound + (old.end - old.start) \div old.interval
  IN  IF same = {} THEN Append(fs, tf)
      ELSE IF old.start > height
      THEN IF (tf.start > 0 /\ tf.start # old.start /\ tf.start <= height)
              \/ (tf.end > 0 /\ tf.end # old.end /\ tf.end <= height)
           THEN fs ELSE [fs EXCEPT ![f] = modified]
      ELSE IF old.end = 0 \/ old.end > height
      THEN IF tf.end <= height THEN fs ELSE [fs EXCEPT ![f].end = tf.end]
      ELSE IF tf.start <= height \/ tf.startRound # latestRound + 1 THEN fs
      ELSE Append(fs, tf)

UpdateParams(req) ==
  LET fs == UpdateTokenFeeder(feeders, req.feeder)
  IN  /\ ~halted /\ updates < MaxUpdates /\ height \in req.heights
      /\ fs # feeders /\ ValidFeeders(fs)
      /\ feeders' = fs
      /\ paramsUpdated' = TRUE
      /\ updates' = updates + 1
      /\ fresh' = FALSE
      /\ UNCHANGED <<height, halted, powers, prices, nonces, recentMsgs, recentParams, validatorUpdateBlock, reports,
                     trees, jailed, cached, rounds, blockMsgs, collecting, maliciousTx, postHandlers, changes, sent, slashed, full, epochEnd>>
-----------------------------------------------------------------------------
(* Blocks.                                                                 *)

\* The running feeders of one phase at this height: only these have a TWAP.
Averaged == {feeders[f].token : f \in {f \in DOMAIN feeders :
               /\ height > feeders[f].start /\ (feeders[f].end = 0 \/ height <= feeders[f].end)
               /\ feeders[f].token \notin TwoPhases}}

\* AfterEpochEnd, in BeginBlock of x/epochs, after that of x/oracle.
AfterEpochEnd ==
  /\ ~halted /\ fresh /\ height \in EpochEnds /\ epochEnd.height < height
  /\ prices' = [t \in Tokens |->
                  IF t \in Averaged THEN ResetAccumulatedPrice(CalculateTWAP(prices[t])) ELSE prices[t]]
  /\ epochEnd' = [height |-> height, round |-> [t \in Tokens |-> IF t \in Averaged /\ GetPriceTRLatest(prices[t]) # NoPrice
                                                                 THEN Latest(prices[t]) ELSE epochEnd.round[t]]]
  /\ UNCHANGED <<height, fresh, halted, feeders, powers, nonces, recentMsgs, recentParams, validatorUpdateBlock,
                 reports, trees, jailed, memoryVars, updates, changes, sent, slashed, full>>

\* The rounds after the block at which validators get powers pw.
CommittedRounds(pw) ==
  LET ready == setCommittableState(rounds, cached, height, pw # powers)
  IN  [f \in DOMAIN rounds |->
         processRound(f, cached[f], ready[f], prices[cached[f].token], trees[f], pw # powers,
                      Cardinality(DOMAIN rounds), pw)]

\* Mutant: a validator that left keeps its nonces.
OfValidatorsOnly(list, v, rs, opened, pw, seal, expired) ==
  LET ending == {f \in DOMAIN rs : seal \/ IsQuotingWindowEnd(cached'[f], height)}
  IN  IF pw[v] > 0 THEN addZeroNonces(removeNonces(removeNonces(list, expired), ending), opened) ELSE list

\* setupNonces: nonces of windows that end are removed, of all validators if
\* the rounds are sealed, and those of windows that open are added.
setupNonces(list, v, rs, opened, pw, seal, expired) ==
  LET ending == {f \in DOMAIN rs : seal \/ IsQuotingWindowEnd(cached'[f], height)}
      unexpired == IF pw[v] > 0 /\ expired # {} THEN removeNonces(list, expired) ELSE list
      remaining == IF (seal \/ pw[v] > 0) /\ ending # {} THEN removeNonces(unexpired, ending) ELSE unexpired
  IN  IF pw[v] > 0 THEN addZeroNonces(remaining, opened) ELSE remaining

\* A round whose raw data is complete, and that has no price to commit, calls its handler.
HandlerMissing(pw) ==
  \E f \in DOMAIN rounds :
    /\ f <= Cardinality(DOMAIN rounds) /\ ~rounds[f].handler
    /\ setCommittableState(rounds, cached, height, pw # powers)[f].status # "committable"
    /\ rounds[f].m.leaves > 0 /\ rounds[f].m.next = rounds[f].m.leaves

\* EndBlock after x/dogfood's, in a block of this proposer, and the BeginBlock
\* of the next one, which binds handlers as long as there are none.
EndBlock(pw, proposer) ==
  LET seal == pw # powers
      committed == CommittedRounds(pw)
      roundsOf == [f \in DOMAIN rounds |-> committed[f].round]
      review == handleQuotingMisBehavior(
                  [info |-> [v \in Validators |->
                               IF pw[v] > 0 /\ pw[v] # powers[v] THEN initReport(reports[v], height + 1) ELSE reports[v]],
                   jailed |-> jailed, slashed |-> slashed], roundsOf, cached, height, pw, proposer)
      fs == IF paramsUpdated THEN feeders ELSE cached
      reviewed == closeReviewed(roundsOf, cached, height)
      all == IF paramsUpdated THEN addNewRounds(reviewed, fs, height, postHandlers) ELSE reviewed
      expired == Expired(all, fs, height)
      kept == Restrict(all, DOMAIN all \ expired)
      prepared == prepareRounds(kept, fs, height, pw)
      opened == {f \in DOMAIN kept : prepared[f].status = "open" /\ kept[f].status # "open"}
      moved == [t \in Tokens |-> {f \in DOMAIN rounds : cached[f].token = t /\ committed[f].price # prices[t]}]
  IN  /\ height < MaxHeight /\ ~halted /\ ~HandlerMissing(pw)
      /\ changes' = changes + (IF seal THEN 1 ELSE 0) /\ changes' <= MaxChanges
      /\ powers' = pw
      /\ cached' = fs
      /\ prices' = [t \in Tokens |-> IF moved[t] = {} THEN prices[t] ELSE committed[Min(moved[t])].price]
      /\ full' = [t \in Tokens |-> IF prices'[t].next > prices[t].next
                                   THEN Append(full[t], prices'[t].at[Latest(prices'[t])]) ELSE full[t]]
      /\ trees' = [f \in FeederIDs |->
                     IF f \in expired /\ all[f].m # NoTree THEN Clear2ndPhase(trees[f])
                     ELSE IF f \in DOMAIN rounds THEN committed[f].tree ELSE trees[f]]
      /\ reports' = review.info /\ jailed' = review.jailed /\ slashed' = review.slashed
      /\ rounds' = prepared
      /\ nonces' = [v \in Validators |->
                      setupNonces(nonces[v], v, kept, opened, pw, seal, {f \in expired : all[f].status # "closed"})]
      /\ recentMsgs' = IF blockMsgs = <<>> THEN recentMsgs ELSE SetMsgItemsForCache(recentMsgs, height, blockMsgs)
      /\ recentParams' = IF paramsUpdated THEN SetParamsForCache(recentParams, height, fs) ELSE recentParams
      /\ validatorUpdateBlock' = IF seal \/ height = 1 THEN height ELSE validatorUpdateBlock
      /\ blockMsgs' = <<>> /\ paramsUpdated' = FALSE
      /\ collecting' = {f \in DOMAIN prepared : prepared[f].m.next < prepared[f].m.leaves}
      /\ maliciousTx' = [f \in FeederIDs |-> 0]
      /\ postHandlers' = IF postHandlers = {} THEN TwoPhasesFeeders(feeders) ELSE postHandlers
      /\ height' = height + 1 /\ fresh' = TRUE
      /\ UNCHANGED <<halted, feeders, updates, sent, epochEnd>>

\* EndBlock calls the handler of a round that has none.
EndBlockPanics(pw) ==
  /\ height < MaxHeight /\ ~halted /\ HandlerMissing(pw)
  /\ halted' = TRUE
  /\ UNCHANGED <<height, fresh, storeVars, memoryVars, history>>

\* A node starts and executes this block from its beginning.
Restart ==
  LET recovered == Recovered
  IN  /\ ~halted /\ fresh /\ height > 1
      /\ halted' = RecoveryFails(recovered.rounds)
      /\ rounds' = recovered.rounds /\ cached' = recovered.fs
      /\ collecting' = {}
      /\ postHandlers' = TwoPhasesFeeders(feeders)
      /\ UNCHANGED <<height, fresh, storeVars, blockMsgs, paramsUpdated, maliciousTx, history>>

\* The operator of a validator leaves jail.
Unjail(v) ==
  /\ ~halted /\ v \in jailed
  /\ jailed' = jailed \ {v}
  /\ fresh' = FALSE
  /\ UNCHANGED <<height, halted, feeders, powers, prices, nonces, recentMsgs, recentParams, validatorUpdateBlock,
                 reports, trees, memoryVars, history>>

\* The first block, after its BeginBlock.
Init ==
  /\ height = 1 /\ fresh = TRUE /\ halted = FALSE
  /\ feeders = GenesisFeeders /\ cached = GenesisFeeders /\ paramsUpdated = TRUE
  /\ powers = GenesisPowers
  /\ prices = [t \in Tokens |-> NoPrices]
  /\ nonces = [v \in Validators |-> <<>>]
  /\ recentMsgs = <<>> /\ recentParams = [index |-> <<>>, at |-> [b \in {} |-> <<>>]]
  /\ validatorUpdateBlock = 0
  /\ reports = [v \in Validators |-> IF GenesisPowers[v] > 0 THEN [NoReport EXCEPT !.start = 1] ELSE NoReport]
  /\ trees = [f \in FeederIDs |-> NoPhase]
  /\ jailed = {} /\ rounds = [f \in {} |-> newRound(FALSE)]
  /\ blockMsgs = <<>> /\ collecting = {} /\ maliciousTx = [f \in FeederIDs |-> 0]
  /\ postHandlers = TwoPhasesFeeders(GenesisFeeders)
  /\ updates = 0 /\ changes = 0 /\ sent = 0 /\ slashed = {} /\ full = [t \in Tokens |-> <<>>]
  /\ epochEnd = [height |-> 0, round |-> [t \in Tokens |-> 0]]

\* Who proposes the block matters only while raw data is collected.
Proposers == IF collecting = {} THEN {Min(Active(powers))} ELSE Active(powers)

Next ==
  \/ \E v \in Validators, f \in FeederIDs, msg \in Messages : CreatePrice(v, f, msg)
  \/ \E v \in Validators, f \in FeederIDs, genuine \in BOOLEAN : ProcessRawData(v, f, genuine)
  \/ \E req \in Requests : UpdateParams(req)
  \/ \E pw \in Powers, proposer \in Proposers : EndBlock(pw, proposer)
  \/ \E pw \in Powers : EndBlockPanics(pw)
  \/ AfterEpochEnd
  \/ Restart
  \/ \E v \in Validators : Unjail(v)

Spec == Init /\ [][Next]_vars
-----------------------------------------------------------------------------
(* Properties.                                                             *)

\* At the start of a block the memory that recovery rebuilds from the store is
\* the memory a node that never stopped has, so that both go on alike.  It is
\* what module_beginblock_devmode.go asserts in every block.
RecoveryReproduces ==
  fresh /\ ~halted /\ height > 1 =>
    LET recovered == Recovered IN recovered.rounds = rounds /\ recovered.fs = cached

\* A validator can quote in the windows that are open and in no other: between
\* blocks it has exactly the nonces of the open windows, each once.
NoncesMatchWindows ==
  fresh => \A v \in Validators :
    LET fs == [i \in DOMAIN nonces[v] |-> nonces[v][i].feeder]
    IN  /\ IsInjective(fs)
        /\ Range(fs) = {f \in DOMAIN rounds : powers[v] > 0 /\ rounds[f].agg.open}

\* The round IDs in memory and in the store go together: an open round is the
\* next one of its token, a closed one the latest, so that AppendPriceTR never
\* meets a gap ("This should not happen") and no round is committed twice.
RoundsContinuous ==
  \A f \in DOMAIN rounds :
    rounds[f].id > 0 =>
      prices[cached[f].token].next = rounds[f].id + (IF rounds[f].status = "closed" THEN 1 ELSE 0)

\* The validators that do not follow the source never had enough power to agree alone.
HonestEnough == \A pw \in Powers :
  ~Exceeds(MapThenSumSet(LAMBDA v : pw[v], Validators \ Honest), MapThenSumSet(LAMBDA v : pw[v], Validators))

\* Every price of a round is one the source gave, whatever the others quote,
\* in whatever order, and however often nodes restart or powers change.
OnlyTruePrices ==
  HonestEnough => \A t \in Tokens : \A r \in DOMAIN prices[t].at :
    prices[t].at[r] = NoPrice \/ \E q \in Quotes : True(q) /\ q.price = prices[t].at[r]

\* A validator that quotes what the source says is never slashed for a price.
HonestNeverSlashed == HonestEnough => slashed \cap Honest = {}

\* Between blocks the store describes the raw data being collected, and nothing
\* else: what a feeder that ended, was sealed or completed had is gone.  It may
\* count fewer pieces than arrived: those of a block that commits the next round.
PhaseTwoStored ==
  fresh => \A f \in FeederIDs :
    LET m == IF f \in DOMAIN rounds THEN rounds[f].m ELSE NoTree
    IN  trees[f].leaves = m.leaves /\ trees[f].next <= m.next /\ (m = NoTree => trees[f] = NoPhase)

\* The TWAP of an epoch is the average of the prices of its rounds, from the
\* latest round at its start to the one before the latest at its end, although
\* only changes of the price are accumulated and old rounds are pruned.
TwapIsAverage ==
  [][epochEnd' # epochEnd =>
       \A t \in Averaged :
         LET last == Latest(prices[t])
             first == Max({1, epochEnd.round[t]})
         IN  last > 0 /\ (\A r \in first..last : full[t][r] # NoPrice) =>
               prices'[t].twap = IF first = last THEN full[t][last]
                                 ELSE MapThenSumSet(LAMBDA r : full[t][r], first..(last - 1)) \div (last - first)]_vars

\* A node can start at the beginning of any block: the store holds the pieces
\* of raw data that recovery reads from it.
RestartSucceeds == fresh /\ ~halted /\ height > 1 => ~RecoveryFails(Recovered.rounds)
=============================================================================
