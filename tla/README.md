# Duglas testnet: TLA+ models, model checking and proofs

A verification project for the Duglas testnet node (`src/`, Node.js): TLA+
modules translated from the source, TLC configurations that check them on small
instances, and theorems that TLAPS proves for all values of the constants.
Line numbers are those of the repository.

Contents: [the system](#the-system) · [modules and code](#modules-and-code) ·
[abstractions](#abstractions) · [runs](#runs) · [fairness](#fairness) ·
[disagreements](#disagreements-between-code-and-documentation) · [proofs](#proofs) ·
[not modelled](#not-modelled) · [plan](#plan)

## The system

A node is one JavaScript process. It keeps a `Blockchain` object, a state file,
an active wallet, sockets to its peers and two rate limiters. HTTP handlers, P2P
message handlers, socket events and timers run one at a time, each to its end
(an HTTP handler from the point where its body has been read).

| component | state | operations | correct when |
|---|---|---|---|
| **Ledger** `core/blockchain.js`, `core/transaction.js` | chain, mempool, difficulty | `addTransaction`, `minePendingTransactions`, `addBlock`, `replaceChain`, `loadState`, `adjustDifficulty` | pending nonces follow the confirmed ones without a gap; the chain pays for the mempool; nothing admitted is lost; fees are moved, not minted; what is mined validates; the difficulty depends on the chain alone |
| **State layer** `core/blockchain.js` | `state`, `stateHistory`, `executionResults`, all derived from the chain | two forms of payloads and their validation, sixteen data operations, `rebuildDerivedState`, `getPendingStatePreview`, what the applications show | the history accounts for the state; keys are changed by their owner; a reorganisation leaves nothing of the old chain; the preview shows what blocks will do; a malformed payload enters no chain |
| **Node** `node/index.js`, `core/storage.js` | the state file | HTTP routes, startup, `persistState` | a restart gives back what was saved; receipts only go forward; the reports agree with each other |
| **P2P** `network/p2p.js` | `sockets`, `peerReconnectTimers`, messages under way | `connectToPeer`, socket events, timers, six message types | peers come to chains of one weight; a chain is given up only for a heavier one; no peer is given up |
| **Rate limiters** `core/rate_limiter.js` | request times and next allowed time per source | `allow` | no window holds more than the limit, nobody is refused needlessly, the cooldown holds |
| **Wallet** `core/wallet.js`, wallet routes of `node/index.js` | active wallet, wallet file, named wallets | create, import, load, switch, save, sign | the wallet that signs is the one on file; a file holds what the last answer said of it; a restart does not change the wallet |
| **Scripts** `scripts/` | none | deletion of files (`reset_state.js`), HTTP requests | the deletion is a step of `Wallets` |
| **CLI** `bin/` | none | HTTP requests | not modelled |

How they interact. Routes and message handlers call the ledger; the ledger
calls the state layer (`rebuildDerivedState`) in the middle of mining, of
`addBlock` and of `replaceChain`; every change is followed by `persistState`
and, for a transaction or a mined block, a broadcast to all open sockets. A
handler for a message calls `persistState` through the `onStateChange`
callback. Startup loads the wallet and the state file, then dials the peers.

What is hard here, each listed with its line under `hazards` in
`PROJECT.json`: replacement in the mempool, which is held to other checks than
an append; selection by fee that must respect nonces; forks, where two nodes
have admitted against different chains; messages that cross; sockets that
fail, several of them to one peer; a crash between two handlers or in the
writing of the file; reload, which admits the saved mempool anew; exceptions in
the middle of a handler; wallet files written one after another, with an error or
a crash between them; payloads judged at three places; counters and rewards at
their boundaries.

## Modules and code

| module | models | extended or used by |
|---|---|---|
| `Reductions.tla` | the array methods `filter` and `reduce`, as the code uses them | `Ledger`, `Limiters` |
| `Ledger.tla` | data and pure functions of `Blockchain`: admission, selection, mining, validation, fork choice, reload | the next four, and `StateLayer` |
| `Reports.tla` | receipts, activity of an address, supply and fees | `Blockchain` |
| `Blockchain.tla` | one node: HTTP and P2P handlers, state file, crash, startup | `MCBlockchain`, `BlockchainProofs` |
| `Network.tla` | several nodes, their sockets and messages, crashes and restarts | `MCNetwork`, `NetworkProofs` |
| `Payloads.tla` | the two forms of a payload, the action policies, what each handler's validation takes | `StateLayer` |
| `StateLayer.tla` | a node with its derived state, its own blocks and those of a peer | `MCStateLayer`, `StateLayerProofs` |
| `Wallets.tla` | the active wallet, its file, the named copies; errors and crashes between the writes | `MCWallets`, `WalletsProofs` |
| `Accounts.tla` | abstract: what a node promises the holders of its accounts | implemented by `Blockchain` (`BlockchainProofs`) |
| `Peering.tla` | dialing, socket events and reconnect timers of one node | `PeeringProofs` |
| `Limiters.tla` | sliding window and faucet cooldown | `LimitersProofs` |
| `MC*.tla` | the instances: who dials whom, what wallets sign | |
| `ReductionTheorems.tla` | theorems about filtered and summed sequences, and recursive functions over naturals | `LedgerTheorems`, `LimitersProofs` |
| `LedgerTheorems.tla` | theorems about balances, admission, selection and removal (the chain pays for the mempool); about nonces, chains that nodes made, blocks of others and reload | `BlockchainProofs`, `NetworkProofs`, `StateLayerProofs` |
| `BlockchainProofs.tla`, `NetworkProofs.tla`, `StateLayerProofs.tla`, `PeeringProofs.tla`, `WalletsProofs.tla`, `LimitersProofs.tla` | proofs about the state machines | |

`PROJECT.json` maps each definition to the lines it stands for. In short:

* **Ledger.** `LedgerState` is the mutable part of a `Blockchain` object. An
  operation `addTransaction(t)` is split into its guard (`Admissible`: the
  method returns instead of throwing) and its effect (`AddTransaction`), so that
  the state machines can use either. `TransactionsForNextBlock` is the loop of
  the method with the same name, written as a recursive function over the
  rounds; `ExecutionOrder` is the same loop without the limit on a block.
* **Blockchain.** An action is a handler: `SubmitTransaction` (routes that sign
  with the active wallet), `HandleIncomingTransaction` (NEW_TRANSACTION),
  `Mine` (`/mine`, `/faucet`), `Crash`, `Start`. `Handle` adds the save at the
  end of each. A crash may leave the file `Torn` (`TornWrites`), since
  `NodeStorage.save` writes in place.
* **Reports.** `Receipt`, `Activity` and the totals are what the routes compute; they
  change nothing and are used in the properties `NeverDropped` and `SupplyConserved`,
  which relate what is told before and after a step, or by one route and another.
* **Network.** `inbox[d][n]` is what waits for `n` at its end of the socket of
  dial `d`; there is one action per message type, and one each for a
  connection that opens or closes and a process that restarts.
* **StateLayer.** `Handler` has one operator per operation; `Execute` is
  `applyStateTransactionToMaps` with its ownership check; `Mine` and `Adopt`
  keep the order of the code (push the block, rebuild, clean the mempool), so
  that an exception in the rebuild leaves what it leaves in the code.
  `AppItems` is what the applications show. What a payload says, and whether it may
  be said, is `Payloads`: `ResolveStateOperation` and `ValidStatePayload`, asked by
  admission, by the validation of a peer's blocks and chains, and by `Execute`.
* **Wallets.** A handler is an `Outcome`: the wallet it makes active, the files it
  writes in order, and whether its answer is a success. `Answer` lets it run to its
  end, `Die` ends the process in one of the writes. `told` is history: what the last
  successful answer said a file holds.
* **Peering.** `ready[s]` is a socket's `readyState`; `sockets` and `timers` are
  the fields of `P2PServer`. Dropping a socket and handling its close event are
  two steps, so that dials, timers and requests may come between. `ErrorEvent` is the
  one no handler waits for: it ends the process, and startup dials again.
* **Limiters.** `requests` and `nextAllowedAt` are the two maps; `reading` counts
  the faucet requests whose bodies have not arrived.

Operators whose comment begins with "Mutant" are plausible mistakes in the
operation next to them. They are part of no specification: with each of them in
place of the original, the property listed with it in `PROJECT.json` fails,
which shows that the property depends on that code.

## Abstractions

* A `txId` is a hash of the transaction's fields: a transaction is the record of
  the fields. A block hash commits to its predecessor: a block is the chain that
  ends in it, and "prevHash is my last hash" is "the chain without its last
  block is mine". Proof of work (the search for a nonce) always succeeds.
* Signatures: `Transactions` are those that wallets may have signed. The rest of
  `isValidTransaction` is kept.
* Amounts are integers in units of DUG/`Unit`; with the real parameters the
  halved rewards are exact in that unit. Floating-point error is not modelled.
* `to` of a transaction may be a string outside `Address` only through `Miner`. `from`
  of a submitted transaction is an address: a reward (`from` null) that a peer relays as
  a pending transaction skips nonces, limits and funds (blockchain.js:2341). No route of
  a node makes one, and `Admissible` leaves it out, so the limits of the mempool
  are said of transactions that wallets sign.
* In `Ledger`, `Blockchain` and `Network`, `rebuildDerivedState` never throws. In the code
  it may, in the middle of mining, of taking a block and of loading (2549, 2628): then
  the block is in the chain, the mempool is not cleaned, the difficulty is not
  adjusted, the file is not saved (index.js:1288), and a load outside its `try` ends the
  startup. What these three modules say, types, nonces, receipts and the file
  included, they say of nodes whose chains execute. `StateLayer` models the throw and what it
  leaves behind; its properties hold through it, but none is about the uncleaned
  mempool or the unsaved file.
* A torn state file disables `Start`, as `storage.load()` throws on it (storage.js:20). No
  property promises anything from there on.
* A handler is one step. This is what JavaScript does, except that HTTP
  handlers wait for the body first; nothing is read before that wait and used
  after it, but for the rate limiter, where the wait is modelled.
* In `Network`, both ends of a socket open and close at once, and a restarted
  node has the ledger that `LoadState` makes of the one it had: `Blockchain` shows
  that the file holds the ledger of the last handler unless it is torn.
  `MaxChainMessage` measures MAX_P2P_MESSAGE_BYTES in blocks.
* In `StateLayer`, a key is the record of the parts its string is joined from, ids
  stand for their normalised forms, and a value keeps what some handler looks
  at. In `Payloads`, a field is of the JSON type its name calls for, or `IllTyped`, or
  a string that is `Blank`; operations named like a property every object has
  (`toString`) are left out. `CountOf` reads any value that is no counter as NaN; in the code
  an object whose `value` is a string or null, put there by a `kv:set`, would be
  concatenated to or counted from 0 (1559, 1624). No property depends on which.
* In `Limiters`, every request counts: OPTIONS requests, answered before the limiter
  (index.js:232), are left out, and so is the faucet's answer to an invalid address, given
  before the cooldown is looked at (1299).
* In `Wallets`, a private key and its address are one; a random key is one nobody
  has; a request that is refused before it changes anything is no step;
  `reset_state.js` is run while the node is down.
* `Date.now()` is taken from `Clock` for each block, in any order, and is monotone
  in `Limiters`.
* The legacy genesis block that old state files may hold is left out.

## Runs

`PROJECT.json` lists the properties of each run. States are distinct states.

| run | instance | states | shows |
|---|---|---|---|
| `node` | two accounts, one miner; 3 pending in all, 2 of a sender, nonces 0..2, transfers and data, fees with and without the replacement bump; crashes with and without a torn file | 64,000 | the mempool: `NoncesContiguous`, `MempoolBounded`, `Solvent`, `NeverDropped`; the chain: `ChainValid`, `SupplyConserved`; the file: `StartKeepsLedger`; the refinement `ImplementsAccounts`; waiting: `WaitsBehindBetter` (a block leaves a transaction behind only for better ones) and `SettlesUnlessOutbid` (what is not outbid again and again is confirmed in the end) |
| `network` | two peers, two transactions of one sender, the later paying more; connections close, processes restart; a chain of four blocks is too long for a message | 723,000 | `QuietPeersAgree`, `WorkGrows`, `ChainsValid`, `MempoolsFit`, `DroppedOnlyIfInvalid` |
| `reorg` | two miners, up to two blocks each, fast and slow, so that chains of one length differ in work | 51,000 | `DifficultyFromChain`, and `Synchronizes` once mining stops |
| `state_shared` | two addresses; a registry name, a counter's key that `kv` operations may claim, an action whose params hide another operation, a payload the policies allow and the handler refuses; blocks and heavier chains from a peer; a mempool of three, of which a block takes two | 501,000 | `OwnersAlone`, `NamespaceKept`, `PreviewStable`, `ResultsOfChain` |
| `state_apps` | one owner, sixteen payloads of five applications, also on values a `kv:set` left (a number, null, a negative counter), and twelve that must be refused; blocks of its own only (`MaxChain` = 1): that the chains of a peer change nothing is left to the theorems | 25,500 | `HistoryExplainsState`, `CountersNonNegative`, `CountersAddUp` |
| `peering` | two peers, two sockets to each, one from elsewhere, whose error ends the process | 3,300 | `OpenListed`, `NeverGivenUp`, `Reconnects` |
| `limiters` | two sources, two requests in any three ticks, one payment in two | 762,000 | `WindowRespected`, `RefusedOnlyWhenFull`, `CooldownRespected` |
| `wallets` | three keys, one from a mnemonic; two names, one spelled in two ways, one refused; a file elsewhere and a path that cannot be written | 72,000 | `ActiveSaved`, `AnswersTrue`, `StartRestores` |
| `data_cap_restart`, `star`, `two_signatures`, `overdraft` | | | violations, see below |

Why the bounds are enough. Every limit in the code (mempool, sender, block,
data, reward below one DUG, minimum difficulty) is a constant that the
instances reach: with two pending per sender, a third is refused; with blocks of
two, a mempool of three is not emptied by one; with an adjustment interval
of two, every other block changes the difficulty. Forks need two nodes and
transactions of one sender in different blocks. `MaxChain` bounds only blocks
without transactions. A wallet handler writes two files at most: two names and one
other file give every pair of equal and different files, and three keys one that is
active, one that is stored and a fresh one. Three connections of one node would add nothing that two
sockets per peer do not: `HasPeer` looks at one address at a time.

`CHECK_DEADLOCK FALSE` stands in the runs whose mining or signing is bounded (all
transactions used and `MaxChain` reached is an end), and for a torn file,
where the process really does not come up. `peering` and `wallets` are checked for
deadlock.

## Fairness

* `Blockchain`: weak fairness of `Start` and strong fairness of `Mine`, stated by what
  only these steps do (`Restarted`, `BlockMined`), which TLC evaluates faster. Neither
  is a timer in the code: they say what the users of a node do (whoever runs it starts
  it again after a crash, and somebody keeps asking it to mine), and that the handlers
  of these requests end, which the code justifies. They do not suffice to get everything
  confirmed: fees do not grow with age (blockchain.js:2503), so an endless supply of
  transactions that pay more starves a cheap one. `SettlesUnlessOutbid` is therefore
  conditional: a sender's nonce is confirmed, or transactions that pay no less than what
  it waits for are admitted again and again. In the run, `Transactions` is finite and
  admissions end by themselves, so TLC checks the case in which nobody goes on outbidding. What
  happens while somebody does is the step property `WaitsBehindBetter`, which needs no
  fairness and is proved for any `Transactions`, endless supplies included. A torn file
  stops every later start, so `SettlesUnlessOutbid` promises nothing once there is one.
* `Network`: weak fairness of `Open` (the reconnect timer) and of `Receive` (an
  open socket delivers), over connections that do not fail: a connection that
  fails again and again may lose every answer. Mining and signing have none.
* `Peering`: weak fairness of `TimerFires` and `CloseEvent` (the event loop), and
  strong fairness of "some attempt at p opens", which is what being reachable means.
* `Limiters`, `StateLayer` and `Wallets` have only safety properties.

## Disagreements between code and documentation

Each has a run in which TLC finds it.

* **`overdraft`** Blocks are validated without balances (`isValidBlock`,
  blockchain.js:2706). Two mempools admit, each against its own chain, what the
  chain cannot pay together; a block or a reorganisation confirms both.
* **`two_signatures`** `addBlock` clears the mempool by txId only (3190). If a block
  holds another transaction of the same sender and nonce, the pending one stays,
  and at the next startup `loadState` refuses it and with it the whole chain.
* **`star`** Accepted blocks are not relayed (p2p.js:188). In the star of
  `docker-compose.yml` the outer nodes do not learn of each other's blocks.
* **`data_cap_restart`** A data transaction that replaces a transfer is not held to
  the limit on data transactions (2356-2377); the reload at startup, which knows no
  replacements, refuses that mempool and drops the saved chain.

Further ones were seen with these modules and have no run of their own:

* a block mined for a string that is no address makes the saved chain invalid
  (index.js:1277; `Miner` with a value outside `Address`);
* a torn state file, or a torn wallet file, stops every later startup (storage.js:20,
  wallet.js:217);
* a chain of over 128 KiB is dropped by its receivers (p2p.js:123; `QuietPeersAgree`
  holds only with `BeyondMessage`);
* what an abandoned chain had confirmed is not put back into the mempool
  (blockchain.js:3222; `DroppedOnlyIfInvalid` holds of what was pending);
* a transaction that arrives before the block that funds it is not asked for again
  (p2p.js:199);
* a `kv:set` may claim the application key of another address (1793; `NamespaceKept`
  says how far this goes);
* a counter operation on null throws between the push of the block and the cleaning of
  the mempool (2549);
* the policy of `counter:create` calls `initialValue` optional (86-254), its handler
  requires it (1468);
* `/wallet/new` and the imports refuse a bad name with status 400 after they have
  replaced the active wallet and its file (index.js:533);
* an accepted socket that has closed stays listed (p2p.js:27).

## Proofs

All from the assumptions on the constants stated in the modules
(`LedgerAssumption`, `BlockchainAssumption`, `NetworkAssumption`, `StateLayerAssumption`,
`PeeringAssumption`, `WalletsAssumption`, `LimitersAssumption`), which TLC evaluates in
the runs. Where a
theorem needs more (`Miner \subseteq Address`), its statement says so.

**One node** (`BlockchainProofs`). `Invariance` is `Spec => []IInv`. `IInv` says that the
ledger is good and tidy, and that the file holds it or is torn.

* *Good* (`GoodLedger`): typed, every pending transaction signed, no two of them
  equal, and the chain pays for them. `Solvent` alone is not inductive: what a block
  takes from a sender and what it leaves add up to what was pending
  (`RemovePendingSplits`) only if nothing is pending twice, and a reward is nobody's
  spending only if the coinbase is no address.
* *Tidy* (`TidyLedger`): the chain is one that nodes could have made (`ProperChain`: each
  block was mined on the one before it, from transactions that are none of the chain's,
  with the difficulty then due); the difficulty is the one that follows from it; the
  mempool goes on from the chain's nonces and is within its limits (`Tidy`).
  `NoncesContiguous` alone is not inductive: a nonce is the count of a sender's
  transactions in the chain, so what a block confirms must be shown to be, sender by
  sender, the first of the pending nonces (`ExecutionOrderInOrder`: selection takes
  them in order; `BlockSettlesNonces`: what stays begins where it ended).
* The file is in the invariant for the step of `Start`, which reads it.

`OutbidWait` (`Spec => WaitsBehindBetter`) says how long a transaction waits. Each round of
the selection takes the best of what is eligible, so the sequence selected is *ranked*
(`Ranked`, kept by `SelectNextRanked`): whoever's turn has come, nothing is taken that
ranks below it. The rounds end only when the block is full or nothing is eligible
(`ExecutionOrderRanked`), and what is next in the new mempool is eligible after the last round
(`LeftForBetter`).

From the invariant follow `TypeCorrect`, `Solvency` (`[]Solvent`), `NoncesFollow`
(`[]NoncesContiguous`), `MempoolFits` (`[]MempoolBounded`), and
`MinedIsValid`: the chain is valid as long as its rewards went to addresses
(`ReceiversKnown`). This condition is what the code lacks: `POST /mine` does not ask
whether the miner is an address and `isValidChain` does. `ValidForAddresses` is the
case in which only addresses are mined for, as in the runs.
`RestartReloads` says when a restart loses nothing, for each `Start`: if the ledger is
`Reloadable`, its rewards known and no sender over the limit on *data* transactions.
That such a ledger comes back whole (`LoadKeepsLedger`) needs all of `IInv`: each
transaction is admitted anew after those before it, with the nonce, the balance and
the limits of that moment. `RestartKeepsLedger` restates it of the property; the run
`data_cap_restart` shows that the condition cannot be left out.

The argument has one lemma per operation and part: `AddTransactionKeepsGood` and `...Tidy`
(append and replacement: the sum over the mempool changes in one place,
`SumSeqChange`, and the nonces in none), `MineKeepsGood` and `MineKeepsTidy`,
`LoadKeepsGood` and `LoadKeepsTidy` (each readmission is an `AddTransaction`).

`ReceiptsForward`: a step that is no restart keeps `NeverDropped`. An
admission takes a transaction out of the mempool only when it outbids it (`AddOutbids`); a
block takes out what it confirms and nothing else (`RemoveLeaves`, `BlockConfirms`), and
what the chain holds keeps its height, since the chain only grows. A restart keeps every
receipt if it gives the ledger back, so `ReloadableNeverDrops` asks that the ledger
stay `Reloadable`; the run `data_cap_restart` is what happens otherwise.

`MoneyFromRewards` and `MoneyOfAddresses` (`[]SupplyConserved`), for finitely many
addresses. The balance of an address is a sum over the chain, so the sum of all balances
is that of a table of blocks by addresses, and a table has one sum by rows and by columns
(`SumSeqSwap`). Down a column, what one transaction changes for all
addresses together is its fee taken, or its amount given if it is a reward
(`GainShared`); and a made block mints its height's reward (`BlockMints`), as its reward
transaction pays the fees back. The rewards must go to addresses (`ReceiversKnown`), or they are
in nobody's balance.

**Accounts.** `Refinement` is `Spec => ImplementsAccounts`: under the mapping of
`AccountsOf` (what the chain gives an address, what its pending transactions take) the
initial ledger is that of `Accounts`, and every step is one of `Accounts` or changes
neither. An admission is a `Reserve` of the sender (`AddTransactionSpends`: the chain
and the other senders' sums stay; the sender's stays payable, as the new ledger is
good). A block is a `Settle` (`BlockSettles`: what it takes from a sender was pending,
so neither the sum nor what the balance leaves beside it moves against anybody). A
startup is a `Settle` or, when the file is refused, a `Reset` (`LoadSettles`: after i
readmissions a sender has no more pending than in the first i saved transactions).
`NeverOverdrawn` proves what the abstract specification is there for: no account is
overdrawn.

**Several nodes** (`NetworkProofs`). `Invariance` is of every ledger together with every
message: each node's ledger is sound (`SoundLedger`), and every chain, block or
transaction under way was made by nodes (`MadeChains`). A node takes a block or a
chain as it comes, so nothing about the ledgers alone is inductive. What is the
same for all properties is proved once, of a predicate on ledgers `L` and one on
chains `C` (`Keeps(L, C)`, `StepKeeps`): if each operation keeps `L` given messages
that satisfy `C`, and what is sent from an `L`-ledger satisfies `C`, then every step
keeps both. From it: `TypeCorrect`, `DifficultyAgreed` (`[]DifficultyFromChain`),
`RewardingAddressesIsValid` and `AllChainsValid` (`[]ChainsValid`). The last is not
obvious, since `addBlock` (`isValidBlock`) asks less than `isValidChain`: a block of
a peer is not executed against the chain before it, and only that all blocks are made
by `minePendingTransactions` keeps the chain valid.

What a node may do with the blocks of others depends on the signatures. The runs
`overdraft` and `two_signatures` both sign two transactions under one nonce. Where no
two signatures share sender and nonce (`UniqueNonces`, which the theorems below state as
their hypothesis and the run `network` satisfies), neither happens:

* `MempoolsPayable` (`[]MempoolsFit`) and `OverdraftNeedsSharedNonce` (`[]NoOverdraft`).
  The invariant is `Keeps(FitNodes, PaidChains)`: ledgers are good, tidy and within the
  data limit, and every chain under way holds submitted transactions only and overdraws
  nobody. `MempoolsFit` alone is not inductive: a block of another node confirms
  transactions that this one has never seen. That it leaves the mempool
  payable is `BlockLeavesPayable`: with one signature to a nonce, what the block takes
  from a sender is either what was pending of that sender, up to some nonce, or all of
  it and more (`InOrderDistinct`, `SenderSplits`); in the second case nothing of the sender stays,
  and the balance is the one the other node has vouched for.
* `WorkNeverFalls` (`WorkGrows`). What a step may do to a ledger is said once
  (`LedgerStep`, `StepsOfLedgers`). A block adds to the work (`WorkAppend`: a power of
  two is positive, whatever the difficulty), a chain is taken for its work, and a restart
  gives back the ledger it saved (`FitReloads`), since a fit ledger is `Reloadable`.
* `NoneLost` (`DroppedOnlyIfInvalid`). A block drops from the mempool what it confirms
  and nothing else (`BlockDropsConfirmed`). `replaceChain` empties the mempool and
  admits what was pending one after the other. A transaction refused
  in its turn could be admissible at the end, and would then be lost: the
  nonce it lacked may have been taken up since. It is not, because the mempool is in
  order of nonces (`FitIsOrdered`, `SubsequenceOrdered`): no transaction of that sender
  with a lower nonce comes after it (`Later`), so what refuses it once refuses it to the
  end (`RefusalStays`, `ReadmissionSettles`).

`QuietPeersHaveHeard` (`[]QuietPeersAgree`) needs no such hypothesis, but that a node has
one peer (`OnePeer`; two nodes may dial each other): with two, the property is false,
as the run `star` shows, since an accepted block is not sent on. The invariant `Heard`
relates the two ends of every open socket. In each direction (`Hears`), the peer has a
chain of at least that work, or the chain waits for it, or it has asked for the
chain and the question is still under way, or the chain is too long for a message;
and no chain under way is of more work than its sender's (`Honest`), or one could be
adopted that the sender no longer stands for. `LinkStep` shows of any
two chains and message sets that a move of one end (`LinkMoves`) keeps both
directions; each handler is such a move (`ActHeard` and the lemmas after it).

**State layer** (`StateLayerProofs`), for any transactions, payloads and ids, where only
addresses sign and a field of an operation is of its JSON type, `IllTyped` or `Blank`
(`StateLayerAssumption`). `Invariance` is of `IInv`: the maps are what `ExecuteAll` makes
of the chain, and no transaction of the chain or of the mempool has a payload that
validation refuses (`Lawful`). None of the properties is inductive by itself, since
every block throws the maps away and executes the chain again; they are properties of
`ExecuteAll`, proved along the transactions it executes:

* `HandlerAnswers`: each of the sixteen handlers, given what admission takes, throws,
  rejects or leaves an entry and a change that agree with each other (`Answers`). The
  fields it reads exist and have their types only because `Execute` asks
  `ValidStatePayload` first (`Fields`).
* `StoryGoesOn`: a change of the owner keeps the *story* of its key (`Story`): the
  history is linked change to change, ends in the entry, is genuine in every change,
  and whoever is not the owner in the key has claimed it by a kv operation and not
  deleted it since. The claim must be carried along the history (`ClaimedAppend`).
* `ExecuteAllKept`: so each transaction keeps the stories of all keys, and
  `ResultsOf`: it leaves a result unless the execution throws, then or before.
* The steps: a block of one's own adds `Lawful` transactions to the chain
  (`ConfirmedMined`: those of the mempool and a reward, which has no payload), a chain
  from elsewhere has passed `ValidPayloads`.

From the story follow `StateExplained`, `OwnersChangeAlone`, `NamespacesKept` and
`CountsKept`; `TypeCorrect` and `ResultsTold` from the maps and the results.
`CountsTold` (`[]CountersAddUp`) goes along the chain instead (`CounterAlong`): with every
transaction the entry at a counter's key remains what the operations at that key come
to. `CounterCounts` shows that the counter handler does to the entry what `Tallied` does
to the count, and `ExecuteCounts` that a transaction at another key leaves it alone.

`PreviewKept` (`[]PreviewStable`) compares two executions, the preview before a block and
the one after it (`PreviewAfterBlock`). Three facts meet there:

* `OrderAfterBlock` (`LedgerTheorems`): the order in which the preview takes the whole
  mempool begins with the next block's transactions and goes on with the order for
  what that block leaves. After the block the chain expects of each sender the nonce
  that the selection had reached, so the same transactions are eligible
  (`NextAfterBlock`), and the best of them is the same (`SameBest`).
* `ExecuteAllConcat`: to execute a sequence is to execute its front and then its rest.
* `ExecuteDataSame`: leaving out what carries no payload, rewards and transfers, changes
  a result here and there but no state, no history and no result of a data transaction
  (`SameToApps`).

The order of selection is coherent only where what is pending is signed by addresses: a
block's reward would use up the nonce of a pending transaction of the coinbase. That is
why `IInv` also says that the mempool was `Sent` by addresses, which
`StateLayerAssumption` gives of everything that is admitted.

**Peers** (`PeeringProofs`), for any set of peers and any number of sockets to each:
`TypeCorrect`, `SocketsListed`, `PeersKept` (`[]NeverGivenUp`). `NeverGivenUp` alone is
not inductive: `scheduleReconnect` does nothing while a socket to the peer is
listed, so a listed socket must be one that is open or whose close event is
still to come, which is `OpenListed`. `ErrorEvent` starts from nothing again, as
`Init` does (`DialedOnceType`).

**Wallets** (`WalletsProofs`), for any keys, names, spellings and paths: `TypeCorrect`,
`ActiveWalletSaved`, `AnswersKept` and `RestartRestores` (`Spec => StartRestores`). The
routes differ only in their `Outcome`; each is shown to be `Proper` (it writes only
files the request names, and the active file whenever the active wallet changes),
and one lemma each for `Answer` and `Die` does the rest. The invariant is
strengthened by what the active file may hold while the node is down
(`DownSaved`), which is what a start finds.

**Limiters** (`LimitersProofs`), for any limit, window and cooldown: `TypeCorrect`,
`WindowKept`, `RefusedForAdmissions` and `CooldownKept`. The limiter keeps only the
fresh timestamps, the properties are of all admissions (`admitted`, history): the
invariant says that what is kept is a suffix of what was admitted that holds
everything within the window (`Remembers`), in order of time, and that admissions a
limit apart are a window apart (`Spread`).

**Lemmas.** `ReductionTheorems` gives what the others need of recursive functions over
naturals: `IterationExists` and `IterationTyped` are proved from the least-number
principle, not from the induction theorems of the library; and sums and filters of
sequences (`SumSeqAppend`, `SubsequenceWeight`, `WeightsSplit`, ...).

Only model-checked, and why:

* *Liveness and ENABLED*, which the prover does not handle: `SettlesUnlessOutbid`,
  `Synchronizes`, `Reconnects`.
* What the hypotheses `UniqueNonces` and `OnePeer` exclude: there the properties are
  false, and the runs `overdraft`, `two_signatures` and `star` show it.

## Not modelled

* Keys, mnemonics and signatures as numbers and words: a key is a constant, a phrase
  has its key. `GET /wallets` fails while one of the named files is malformed
  (wallet.js:204); it changes nothing and is no action.
* The other read-only routes (blocks, mempool, status, peers) and the parsing of HTTP
  bodies.
* The command line client, which formats requests and answers and keeps no state, and
  the two scripts that call it or the HTTP API (`smoke_cli.js`, `attack.js`).
* Hashing and proof of work; floating-point arithmetic; the legacy genesis block.

## Plan

1. *Models.* Every component with state of its own has its module; what is left are
   the bounds, should an instance become cheap enough to enlarge.
2. *Composition.* `Network` with the state file of `Blockchain` (a torn file, a crash
   between the save and the broadcast), and with the dead sockets of `Peering`.
