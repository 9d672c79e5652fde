# Verification of perun-ckb-backend

TLA+ models of the CKB backend for go-perun, TLC configurations that check them
on small instances, and TLAPS proofs for all values of their constants. The
models are translated from the Go source; `PROJECT.json` maps every definition
to its lines. Paths below are relative to `src/`.

    tlc -workers 2 -config Funding.cfg Funding.tla     # one run; PROJECT.json lists all
    tlapm FundingProofs.tla                            # one proof module

## 1. The system

A Perun channel lives in a *channel cell* on the CKB chain, guarded by a channel
type script, with *funds cells* beside it. go-perun drives the backend through
`Funder`, `Adjudicator` and `AdjudicatorSubscription`; these call the CKB client,
which looks cells up, has a transaction built and balanced, signs it, sends it
and polls its status. Every operation is thus look up / decide / build / send /
await, and between any two of these steps the chain, the other party or another
goroutine of the same process may move.

| Part (source) | State | Operations | Correct when |
|---|---|---|---|
| Funder (`channel/funder`) | loop counter, two contexts | `Fund` of party A: open, poll, abort; of party B: poll, fund | an answer is true of the chain; nobody's deposit is stranded; both calls end |
| Adjudicator (`channel/adjudicator/adjudicator.go`) | none of its own | `Register`, `Withdraw` | a nil answer binds; versions only rise; the channel is paid once |
| Watcher (go-perun, set up in `client/test/setup.go`) | what it was told | reads a subscription, calls `Register` | an outdated dispute is answered; the newest state is paid |
| Event subscription (`adjudicator_sub.go`) | last status, miss counter, buffered Go channel, context | polling goroutine, `Next`, `Err`, `Close` | events are true, in order, none lost, the end is reported, `Close` ends it |
| CKB client (`client/ckbclient.go`) | script cache, an RPC client | `Start`, `Fund`, `Abort`, `Dispute`, `DisputeVC`, `Close`, `ForceClose`, `ForceCloseWithVC`, lookups, `sendAndAwait` | see the callers; lookups answer what is on the chain |
| Script cache (`client/script_cache.go`) | map from channel id to type script, under a lock | get, set if absent | one channel per id; no stale cell |
| Script handler (`transaction/handler.go`) | none | builds inputs and outputs of each operation | a settlement conserves the funds and pays each party its balance |
| Building (`transaction/transaction.go`, `client/*_iterator.go`) | cell iterators, script groups | `Build`: script groups, `balanceTransaction`, fees, change, witnesses; the channel token | inputs = outputs + fee; change is storable; a refusal or a panic has a reason one can name; every input can be signed for |
| State encoding (`encoding/channel_state.go`, `channel/ethbackend.go`) | none | `ToEthState`, `PackChannelState` | what is signed and what goes on chain agree on what they tell apart |
| Signature encoding (`encoding/signature.go`, `wallet/`) | none | sign, verify, pack | what the peer accepts the contract can read |
| Channel parameters (`encoding/channel_parameters.go`, `channel/ethbackend.go`, `wallet/address`) | none | `CalcID`, `PackChannelParameters`, participants on the wire | an id fixes the parameters on chain; both parties compute the same id |
| Assets, wallet, deployment, signer | small maps, configuration | conversions | section 8 |
| Contracts (`.gitmodules`) | the cells themselves | verify transactions | external |

The parts interact by calls, except for three shared things: the chain, on which
both parties act; the script cache, which all goroutines of a client share; and
the buffered channel between the polling goroutine and `Next`.

What is hard to test here: the two funders racing for one cell; contexts that
end between any two RPCs; answers that are lost although the node accepted the
transaction; transactions that stay in a pool after their sender gave up;
snapshots that are stale when used; two first disputes at once and the merge of
the cells they leave; polling that skips stages, misses cells and blocks on a
full buffer; the boundaries of amounts (zero, a cell's occupied capacity, 64
bit). `PROJECT.json` lists each hazard at its line with the properties that
cover it, or the reason why none does.

## 2. The modules

| Module | What it is | Composes with |
|---|---|---|
| `FundingPromise` | abstract: what the two funders' answers say of the chain | |
| `Funding` | both `Fund` loops, `Start`/`Fund`/`Abort` of the client, mempool and chain | refines `FundingPromise` |
| `SettlementPromise` | abstract: a version that only rises, one payout | |
| `Settlement` | concurrent `Register` and `Withdraw`, `Dispute`/`Close`/`ForceClose` | refines `SettlementPromise` |
| `Watching` | `Settlement` with a watcher, who is told what `EventStream` promises | extends `Settlement`, instantiates `EventStream` |
| `ChannelLife` | abstract: one channel's life on the chain: opened, funded, disputed by rising versions, gone | |
| `EventStream` | abstract: what a reader of the subscription is told | instantiates `ChannelLife` |
| `Subscription` | polling goroutine, buffer, reader, `Close` | refines `EventStream` |
| `VirtualDispute` | `DisputeVC` and `ForceCloseWithVC` on two parents with one virtual channel | instantiated by `MCVirtualDispute` |
| `ChannelLookup` | the lookup of a channel's live cell through the script cache | instantiated by `MCChannelLookup` |
| `ChannelFunds` | what each operation locks and pays out | |
| `TxBalance` | `Build`: token, script groups, fetching inputs, change, fee, witnesses | |
| `StateEncoding` | the two encodings of a state | |
| `Signatures` | DER and raw signatures, v, high and low s | |
| `ChannelParams` | channel parameters: hashed, packed, and on the wire | |
| `Encoding` | one state machine of the three | extends `StateEncoding`, `Signatures`, `ChannelParams` |
| `*Proofs` | theorems about the module they are named after; `SettlementProofs` also about `Watching`, `EncodingProofs` about all three encoders | extend their module |

### Funding

`pc[p]` is where party p's `Fund` call is. `select` is the select statement over
the context and the polling ticker, `poll` the lookup after the tick, then
`lookup`/`build`/`send`/`await` are the steps of the client's operation
(`Start` for A, later `Abort`; `Fund` for B). `iter` is the loop variable of
`fundPartyA`, `cleanup` tells under which context `Abort` runs: the caller's,
after the last iteration, or the fresh one of 30 s. `tx[k]` is a transaction's
fate. A party's RPC may fail for good (all attempts of `retryRPC`) at any step, including a `send`
whose transaction the node has; two transactions that spend the same cell exclude
each other. A bit `solo` says that party B puts nothing in, `agreed` that the
cell is the one B's request describes (`verifyChannelIntegrity`).
`Build` may panic in either party's operation whenever it runs: it looks the
channel's cell up again, a wallet cell may have been spent meanwhile, and the
iterator may hand it nil. A panic is the call's answer `panic`, and says nothing
about the cell. `MovesForItsCaller` says what it does not do: no step of the
channel is taken by a transaction whose caller has answered anything but an error.
`FundingPromise` sees only the cell and the two answers: B's `ok` means funded;
A's `ok` means funded or aborted; A's `cancelled` means aborted.

### Settlement

Callers are goroutines of both parties (user, watcher). A call takes a snapshot of
the cell (`snap`: out point `gen`, version, whether the challenge period has
matured), decides, sends a transaction that spends exactly that out point, and
waits. `pool` holds everything nodes have accepted, also from callers that gave
up. External actions include a transaction, restart the challenge period with
each new cell, let the period run out, or drop a transaction whose input is gone.
The type script is external: it takes a close with the final state and a force
close with exactly the registered version after the period. It is *not* assumed
to check that a dispute raises the version, so that `KeepsPromise` rests on the
client's `checkVersion`. A secondary `Withdraw` answers nil at once without a look
at the channel (`WithdrawSecondary`), so `WithdrawHonoured` speaks of the other
calls. `SettlementPromise` has only phase, version, maturity
and payout.

### Watching

go-perun's local watcher is what the tests of the client attach to the
adjudicator: it reads the subscription and registers the newest state for each
event that is older. `Watching` makes one caller of `Settlement` this watcher. It
is told what `EventStream` promises, the specification that `Subscription` is
shown to implement, so that the two components meet at that interface and not at
each other's variables. The history `held` keeps the versions that were ever
registered: only of these may it be told. `watched` tells whether the channel has a watcher in this
behaviour. If it has, three assumptions about time hold, each named: the
challenge period does not run out before the watcher has answered (`PeriodEnds`),
its RPCs get through unless somebody spends the cell it has read
(`WatcherFails`, `Overtaken`), and who knows of a dispute signs no further state
(`Agree`). Without these the newest state need not win: the code bounds neither
the delay of its polls nor that of its transactions. Without a watcher the
module behaves as `Settlement`, whose properties are therefore checked by the
same run.

### Subscription

One action per branch of the goroutine: select (`Cancel`, `TimerFires`,
`Finish`), a poll that fails, finds no cell, or finds it and compares statuses
(`PollFails`, `PollMisses`, `PollFinds`), and `Put` into the buffer. The reader's
`Next` takes an event, the conclusion or the end. `held` is the history of
registered versions, against which `EventStream` checks the reports: a version
that the chain has skipped must not be reported. The chain moves several steps
between polls. A lookup may miss a live cell (an indexer that lags), fewer times
between two hits than the threshold; that is the assumption behind
`ConcludeMissThreshold`, and it is named (`GlitchesAssumption`).

### VirtualDispute

A request names a parent, its version and the virtual channel's version. The
caller first looks the virtual channel's cells up (through its own cache), then
the parents', and decides: first dispute, progress, merge of two cells, or "not
needed". Two first disputes at once leave two cells; the next dispute merges
them. `ForceCloseWithVC` takes what is registered if the caller is behind.

`DisputeVC` needs both parents. Once one was paid out and the calls under way
have ended, no further `DisputeVC` gets through, and no version of the virtual
channel is registered that was not (`SettlingIsFinal`). The other parent's own
version may still rise, by a dispute without the virtual channel (`PlainDispute`).
One race is left, and it is why one cannot say that both parents
are always paid by the same version: a `DisputeVC` that has looked up both
parents before the first settlement, and reads the virtual channel's cell after
it, still raises the version that the second settlement uses. Whether the
contract refuses that is not in the repository. A secondary `Withdraw` changes nothing
and is modelled in `Settlement` only.

### ChannelLookup

`chain[s]` counts the cells a type script s has had; an id may have several
scripts, one per generation of the channel. A lookup reads the cache (`Get`),
searches the cached script (`Exact`) or one page of all channel cells (`All`),
and stores what it found unless another goroutine was faster (`Set`), in which
case it starts over. `start[l]` remembers the chain at the call, for freshness.

### ChannelFunds, TxBalance

`ChannelFunds` follows the capacity and the SUDTs of one channel through open,
fund, updates, and each settlement, with the thresholds of the handler: a
balance that cannot carry a payment cell is moved to the SUDT output or left
over.

`TxBalance` is `Build`, from an operation's inputs and outputs to what is handed
to the signer. `groups` are the script groups that `InitializeScriptGroups`
creates and that every fetched input is added to, `inputs` and `witnesses` the
transaction's; between them lies the balancing: two rounds of fetching,
subtraction in `uint64` (`% Word`), the change cell and the fee. The iterator of
CKB cells was taken before: an Open has its channel token from it
(`createOrGetChannelToken`), the last settlement of a virtual channel a cell to
sign for. Cells may have a type script, which the iterator skips, or be spent
since they were listed, which the builder finds out when it looks its inputs up.
The channel's cells may hold a UDT that the operation has no output for, because
everybody can send one to the funds lock; nothing balances it.

### StateEncoding, Signatures, ChannelParams, Encoding

Algorithms on values. `StateEncoding` evaluates both encoders on every pair of
small states; widths of amounts are `Word64` and `Word128`; an asset carries the
Go type it has for the proposer and for a peer that decoded it. `Signatures`
treats r and s as numbers of `Width` bytes in `Base`, with the DER tag as a byte
value, so that the test for DER, minimal integers and low-s conversion are
arithmetic. `ChannelParams` has the three forms of the parameters: what is
hashed for the id, what the channel's cell holds, and what the peer decodes.
`Encoding` puts the three side by side for one run; they share no state.

## 3. The runs

Each passing run also has, for every property, at least one mutant of a mapped
definition that TLC finds to violate it (`PROJECT.json`).

| Run | States | What it shows |
|---|---|---|
| `Funding` | 7 k | refinement of `FundingPromise`; an answered call leaves nothing undecided (`NothingInFlight`); the channel moves only for a call that runs or has answered an error, and B's deposit goes only into the cell agreed on (`MovesForItsCaller`); both calls end |
| `Watching` | 450 k | refinement of `SettlementPromise`; nil of `Register` and of a `Withdraw` that is not secondary binds; every call returns; with a watcher in time the newest state is paid (`NewestWins`) and an outdated dispute answered (`WatcherCatchesUp`) |
| `Subscription` | 15 k | refinement of `EventStream`: the reader is told only of versions the chain has held; a dispute after a funded status is reported; the stream ends with the channel, and with `Close` if somebody reads; the fatal branch for an undisputed update is dead |
| `VirtualDispute` | 1.8 M | nil of `Register` binds across both parents; with stale snapshots a registration falls only by merging; a caller behind the chain can close; after the first settlement no `DisputeVC` gets through and no new version of the virtual channel is registered |
| `ChannelFunds` | 33 k | settlements conserve and pay as agreed |
| `TxBalance` | 1.7 M | built transactions balance exactly and can be signed (`SignedOnce`), refusals mean poverty, a panic means poverty, a spent cell or a wrapped target (`RefusesOnlyIfPoor`), change is storable |
| `ChannelLookup` | 320 k | fresh answers, one channel per id, gone stays gone, an uncached "none" is true while a page holds all; the lookup that loses the race comes back |
| `Encoding` | 29 k | a signature fixes the chain state; every amount is committed to; whatever the peer accepts can be read by the contract, apart from a finding below; an id fixes the parameters; the two parties' ids agree for default participants and only for them |
| `TxBalance_UdtConserved` | violated | section 5 |
| `ChannelFunds_MergesOwnBalances` | violated | section 5 |
| `Signatures_RawIsConverted` | violated | section 5 |
| `StateEncoding_DecodedIsSignable` | violated | section 5 |

### Bounds, and why they are enough

- `Funding`: `MaxIterations = 3`. The loop's iterations differ only in being the
  last; three give a first, an inner and a last one. Everything else is finite.
- `Watching`: two callers, of which one may be the watcher, versions 0 to 3, five
  calls. Two callers make every race of snapshots. A watcher needs at most one
  call for every version, and the bound leaves it these; the other caller's two
  register an old version and a newer one behind the watcher's back, or try to
  close. Without a watcher an abandoned transaction, its retry and a competing
  call coexist. The proofs have no such bounds.
- `Subscription`: buffer 3, threshold 3, two glitches, versions to 4. The buffer
  can be empty, partly full and full with one event waiting; misses can stay
  below, reach and be reset under the threshold.
- `VirtualDispute`: two parents, as the code has; two callers; the virtual
  channel's versions to 2, the parents' to 1; three calls (two first disputes,
  then the merge, a progress or a close, each on a snapshot that may be stale).
- `ChannelFunds`: initial amounts 0 to 3 around `PflsMin` 2 and `PaymentMin` 3, so
  that below, at and above each threshold occur, with SUDTs 0 and 1.
- `TxBalance`: `Word` 1000 stands for 2^64 and lies far above the amounts, so
  that only a subtraction below zero wraps; cells of 6, 7 and 16 against a change
  cell of 6 and a fee of 1 hit exactly, one short and one over. Three CKB cells
  are a token, and one for each round of fetching; one of them may be spent or
  have a type script.
- `ChannelLookup`: two lookups, two generations of one id and one other channel,
  one cell each; `PageLimit` 3 holds all channels. That a channel's cell is
  replaced during a lookup is covered by the proofs, which bound nothing.
- `StateEncoding`: `Word64` 4, `Word128` 16; amounts run past both.
- `ChannelParams`: two keys, of which either party has one, with every kind of
  participant and Ethereum address for the first party; `Word256` 2 and nonces to 2.
- `Signatures`: `Base` 32 and two bytes; the scalars lie around every boundary
  (leading zero, sign bit, the tag as first byte, half the order).

Symmetry is used in `VirtualDispute` (callers and parents), a run without
liveness. `CHECK_DEADLOCK FALSE` stands where the
system may stop: all calls answered, or the bound on calls reached. `ChannelLookup`
never stops and is checked for deadlock.

## 4. Fairness

- `Funding.FairSpec`: weak fairness of each party's goroutine (a select and an
  RPC come back, retries are bounded), of the chain's decision about each pooled
  transaction, and of the end of the cleanup context (30 s); strong fairness of
  party B finding a cell that stays there, because it polls every five seconds
  and each poll may fail. Nobody is forced to cancel and no RPC to fail.
- `Watching.WFairSpec`: weak fairness of each caller's step and of the decision
  about its transaction, as in `Settlement.FairSpec`, and of the watcher being told
  of a dispute, which is what `DisputeReported` says of the subscription. Nobody
  else has to call, sign or wait out a period.
- `Subscription.LoopSpec`: weak fairness of the goroutine, strong fairness of the
  lookup finding a cell that stays and missing one that is gone. `FairSpec` adds
  that somebody keeps calling `Next`; that `Close` stops the goroutine does not
  hold without that.
- `ChannelLookup`: weak fairness of each lookup's step.

## 5. Where the code and its comments differ

Four runs are expected to be violated: each states what a comment says of the
code, and TLC finds the behaviour that differs. `PROJECT.json` quotes the lines.

- `TxBalance_UdtConserved`: `AddValuesFromOutput` counts 64 of an SUDT cell's 128
  bits, so a larger cell is not returned in full.
- `ChannelFunds_MergesOwnBalances`: `ForceCloseWithVC` takes CKBytes and SUDTs
  through the index map differently; crossed indices swap the parent's SUDTs.
- `Signatures_RawIsConverted`: a raw signature that begins with 0x30 is taken for DER.
- `StateEncoding_DecodedIsSignable`: `NewAsset` makes an `asset.Asset`, and a state
  decoded into it panics in `assetToCKBAsset` when the peer verifies or signs it.
  The client's tests use a local bus, on which nothing is decoded.

Other behaviours that a reader of the comments would not expect are part of the
models; the properties are worded around them, and no run is spent on them:

- Party A's `Fund` returns nil for a channel it has aborted
  (`channel/funder/funder.go:70`); hence `FundingPromise` lets `ok` mean either.
  That `Abort` runs under the caller's context even if it has ended, unlike the
  cleanup at line 53.
- An input that was spent before `resolveInput` reads it is dereferenced
  (`transaction/transaction.go:868` and 904), and so is the nil cell of an iterator
  (line 781): every `Build` may panic, whatever the wallet holds and without a lost
  race. It is the answer `panic` in `Funding`, and a failed call elsewhere.
- A `Withdraw` with `Secondary` set answers nil, "already handled by first withdraw",
  whether there was a first one or not (`channel/adjudicator/adjudicator.go:57`).
- A UDT that somebody has sent to a channel's funds lock becomes an input of the
  next settlement, which takes every cell of the lock (`client/ckbclient.go:682`). If
  the channel has no such asset, nothing balances it (`transaction.go:519`) and it
  is burnt: `Balanced` speaks of a UDT that has outputs.
- `Dispute` answers nil for version 0 of an undisputed channel and registers
  nothing (`client/ckbclient.go:386`): `RegisterHonoured` speaks of higher
  versions. `DisputeVC` answers nil after a merge, and where one of two versions
  is old (line 588): `RegisterHonoured` speaks of committed disputes.
- `ForceClose` pays out the caller's state whatever is registered (line 733), and
  the chain refuses it; `ForceCloseWithVC` adapts instead (`LateCallerCanClose`).
- A client without the virtual channel's script in its cache gets one of two
  cells and the check for exactly one passes (lines 759 and 1169).
- `Err` is nil after a conclusion, a `Close` and the end of the context
  (`channel/adjudicator/adjudicator_sub.go:91`, comment at 211). A full buffer
  without a reader holds the goroutine after `Close` (line 199). Failed lookups
  do not interrupt a row of misses (line 101, comment at 40).
- Without an SUDT, a share below a payment cell's capacity is paid to nobody and
  ends in the submitter's change (`transaction/handler.go:225`): `SmallChange`.
- An initial balance of zero passes the check for fundable channels and yields a
  cell without capacity (`handler.go:158`): phase `refused`.
- An unsigned difference underflows when the inputs cover the outputs but not the
  change cell (`transaction.go:697`), and the first round takes every cell.
- `CKBOnlyIterator.HasNext` counts cells with type scripts that `Next` skips
  (`client/ckb_iterator.go:16`): step `NilCell`. Together with the underflow this makes
  a wallet that holds enough panic if its last cell has a type script, which is the
  exception `Wrapped` of `RefusesOnlyIfPoor`.
- A cell that `createOrGetChannelToken` skips, be it because one RPC failed, is
  lost for the funding of the same transaction, which may then be refused
  (`client/ckbclient.go:303`): `RefusesOnlyIfPoor` counts what is left.
- The wire carries a participant's on-chain form, although the comments of
  `MarshalBinary` and `UnmarshalBinary` name the off-chain one
  (`wallet/address/address.go:122`). Scripts other than the default one are lost:
  `PeersAgree` says exactly which channels' ids the parties agree on.
- The cell's flag for a ledger channel is the negation of the one for a virtual
  channel (`encoding/channel_parameters.go:26`), whatever `LedgerChannel` says; and
  an explicit Ethereum address is hashed into the id but not packed. An id thus
  fixes the cell's parameters (`IdFixesChannel`), not the other way round.
- A cached type script hides a second channel of the same id
  (`client/ckbclient.go:1110`), and an uncached lookup reads one page of at most
  1199 cells (line 1004): `UncachedNoneIsTrue` holds while one page is enough.

## 6. What is proved

TLAPS checks these for every value of the constants; each module states its
assumptions by name, and TLC evaluates them in the runs. Every invariant and
every action property that a passing run checks is a theorem.

**FundingProofs** (`MaxIterations` positive). `Ind` = `TypeOK` with `DoneInv`
(answered iff out of the loops), `UnsentInv` (a transaction is unsent until its
sender gets to it), `LoopInv` (A reaches `Abort` only after its opening
transaction was committed), `CellInv` (the cell is what the committed
transactions made it) and `AnswerInv`. Neither `NothingInFlight` nor the promise
is inductive: that B's `ok` stays true needs `CellInv` to exclude a pending abort.
`CrashInv` says that a
party that panicked has sent nothing of what it was building, `AgreedInv` that party
B sends only after it has seen the cell agreed on.
Results: `TypeCorrect`, `QuietAnswers`, `CallersAreNotOvertaken` (the action property
`MovesForItsCaller`), `Refinement` (Funding implements `FundingPromise`).

**SettlementProofs** (any callers, versions and calls). `SnapInv`: while a
snapshot's out point is the live one, the snapshot is true. `PoolInv`: hence what
was decided on it still holds when the transaction is included. With `PlaceInv`,
`ChainInv` and `AnswerInv` follow `TypeCorrect`, `RegisterStands`,
`WithdrawStands` and `Refinement`.

The module's second part is about `Watching`. `WatcherSettles`: a watched
channel is a behaviour of `Settlement`, so that the theorems of the first part
hold of it. `NewestPaid`: with a watcher in time the channel
is paid by the newest signed state. It is not inductive: `SignedInv` (nobody
registers what was not signed), `HeardInv` (the watcher was told what is there),
`ReadInv` (a cell the watcher has read is live, or the registered version has
risen since) and `RestInv` (a watcher at rest leaves no outdated dispute behind,
so that a period that runs out is the newest state's) are. `WatchesStream`: the
channel with what its watcher is told is a behaviour of `EventStream` from the funded
stage on; `HistoryInv` bounds what it can have been told. `Subscription`, which implements `EventStream`, models the chain as one
whose registered version only rises; that the chain which concurrent and
abandoned calls make is such a chain is this theorem.

**SubscriptionProofs** (any buffer; fewer glitches than the threshold).
`StatusInv`: the old status is one the chain has had. `StreamInv`: until the
conclusion it is the newest thing the buffer and the reader know of, and the
buffer rises. `MissInv`: misses of a live cell are glitches. `HeldInv`: whatever is on its way to
the reader was registered once. Results:
`TypeCorrect`, `UndisputedIsDead`, `Refinement`.

**ChannelFundsProofs** (all amounts, capacities, index maps and owners).
`FundsInv` says that the funds cells hold the balances of parent and virtual
channel plus the capacity of the two SUDT cells. `SplitKeepsSum`,
`IndexMapKeepsSum` and `PayoutConserves` carry each settlement to `Conservative`:
what is paid and left over is what was locked. `Agreed` is about who gets it: each
party is paid what the last state owes it, its SUDTs as long as the parties have the
same indices in both channels. `OutputsPayOwed` follows one party's
CKBytes and SUDTs through the handler's thresholds; `PlainPayoutAgreed` and
`MergedPayoutAgreed` are the settlements without and with a virtual channel.

**ChannelLookupProofs** (any goroutines, channels, generations). `CacheInv`,
`ToldInv`, `OverInv` and `LateInv` say that a cache entry is written once, that
what was told is what is cached, and that a lookup called after its script was
found gone can only miss; `FoundInv` carries freshness to the cache. Results:
`TypeCorrect`, `OneChannelPerId`, `AnswersAreFresh`, `GoneForGood`. `UncachedIsTold`
has a hypothesis, `Fits`: one page of the indexer holds a cell of every channel, as
it does in the run. Without it the property is false, see section 5. Its invariant
`AbsentInv` says that a lookup notices at once that its id has no cell.

**VirtualDisputeProofs** (any callers, versions and calls). A caller reads the virtual
channel's cells and its parent's at different times, but its transaction spends
both. `SnapInv` and `PoolInv`: while the parent's out point is the live one, what
was decided on it is still right; the virtual channel's cells are inputs
themselves. `ChainInv`: there are no more of these than parents that carry one.
`SentInv` and `AnswerInv` carry this to the answers. `Ind`, their conjunction with `TypeOK` and
`PlaceInv`, is inductive. Results: `TypeCorrect`, `VersionsRise` (no
registered version of a parent falls, and none of the virtual channel but by a merge
or a closing, which take one of its cells away), `RegisterStands` (a committed dispute binds),
`LateCallersClose`, and `SettledForGood`, an action property: once one parent is
paid out and the calls of `DisputeVC` on their way have ended, no other one gets through;
plain disputes of the other parent do.
`StageInv` adds that only disputed parents have a version and that a closing built
after a challenge period is worthless once a dispute has renewed the period. With it
follow two results no run checks: `PaidAsRegistered`, each parent is paid once, after its
period, by the version registered then; and `ParentsLive`, each parent lives as
`ChannelLife` says, the life that `EventStream` and thus `Subscription` take for granted.

**TxBalanceProofs** (any fee, change cell and wallet). Two invariants that need
nothing from each other. `AmountInv` follows the amounts: what is still to be fetched
and what is left in the wallet fit into a word (`WalletInv`), a round of fetching
ends with what is required or with an empty wallet, and in the second round
with a cell more than that (`CkbInv`). `RoundInv` relates the target of a round to
what is missing, unless it has wrapped around. From these follow `BuiltInBalance`,
`ChangeStored` and `RefusedIfPoor`, under the hypothesis `AmountsFit`: bounds on
single cells exist with which all amounts together stay below 2^64. For CKBytes this
is a fact of the chain; for a UDT it is an assumption, without which `Balanced` is
false (`TxBalance_UdtConserved`). The run's instance satisfies it, with 16, 17 and 2 for
the largest cells. `SignInv` follows the inputs and needs no such
hypothesis, so `HandedOutOnce` also holds of sums that wrap around: what is in an iterator is not yet an
input (`SourceInv`), a group lists its inputs in order (`GroupInv`), and
witnesses have room only where they should (`WitnessInv`).

**EncodingProofs** (any widths, keys, nonces and scalars; two different keys
exist). That two states have one signed form, one packed form or one id is traced
back field by field: `SignedTogether`, `PackedTogether`, `PackedFixesAmounts`,
`IdFixesParams` and `SameId`. A run compares pairs of small states; the lemmas are
about states with any amounts and any number of sub-channels (`AnyState`) and
about any two participants (`AnyParams`). Results: `SignatureFixes` and
`PackedCommits`, with their general forms `SignedFixesPacked` and
`PackedFixesState`; `IdFixes`, `IdsAgree`. For signatures `ReadBack` says that
reading bytes inverts writing them, `Fewest` that the shortest form without a
sign bit exists and still has this number, `Layout` where `Marshal` puts what, and
`Converted` that the contract finds r and the lower s there; `Readable` is then an
invariant of two lines.

The recursive functions in these modules (`Members`, `Weight`, `Number`) are reasoned
about by induction on a set of numbers (`SetInduction`, from the well-foundedness of
`<`), as an induction theorem over a predicate is out of the provers' reach.

## 7. Only model-checked

Liveness: `PartiesReturn`, `CallsReturn`, `WatcherCatchesUp`, `DisputeReported`,
`StreamEnds` and `LookupReturns`. The prover treats neither fairness nor `ENABLED`.
They are checked on the instances of section 3.

## 8. Not modelled

- The contracts are a git submodule and not in the repository. What the code
  relies on is modelled as external actions, marked so in `PROJECT.json`.
- go-perun and the CKB SDK: contexts, signatures by both parties and RPC answers
  are nondeterministic choices. ABI encoding and molecule builders are taken to
  be injective.
- Cell deps, header deps and the contents of witnesses: no property is about them.
- `Adjudicator.Progress` always fails; there is nothing to model.
- The byte encodings of assets, Ethereum addresses and accounts, the deployment
  and the signing transactor: conversions and configuration without state.
- Devnet scripts, commands, mocks.
- Several operations of one client on the same wallet at once: the transactions
  they build may share inputs, and the chain takes one of them (`Funding.Rejected`).

## 9. Plan

In this order, most important behaviour first. Done: `Funding`, `Settlement`,
`Subscription` with their abstract specifications and proofs; `Watching`, which
composes the last two; `TxBalance`, `VirtualDispute`, `ChannelFunds`,
`ChannelLookup`; `StateEncoding`, `Signatures` and `ChannelParams`, together in
`Encoding`. Left:

1. The funds of both parents and of the virtual channel together, so that the
   intermediary's neutrality can be stated, as far as it does not depend on the
   contract's rules, which are not in the repository.
