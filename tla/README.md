# Hype Node: formal models, model checking and proofs

Hype Node publishes thematic crypto indices, lets subscribers deposit USDC into
them through a custodial vault contract, and runs an agent and a keeper process
around it; a web application drafts and publishes the indices and chats with the
agent. This directory holds TLA+ models of the parts whose correctness depends
on the order of events, the TLC runs that check them, and TLAPS proofs about the
vault contract and its keeper, the indexer, the data transport, the chat page and its
billing, the agent's loop, the index builder and the publishing of proposals.

Paths below are relative to `src/`.

## 1. Inventory

| Component | State it keeps | Operations | Interacts with | Hard behaviour |
|---|---|---|---|---|
| Vault contract `contracts/src/HypeIndexVault.sol` | roles, `paused`, vaults, positions, pending deposits and redemptions, id counter, accrued days, USDC balance | requestDeposit, pullForDeposit, settleDeposit, cancelDeposit, accrueMgmt, requestRedeem, settleRedeem, claimFees, updateNav, openVault, administration | keeper (transactions), subscribers, creator, guardian, USDC token | any interleaving of callers, pause in the middle of a request, rounding, attestations that expire |
| Keeper and daemon `agent-service/src/vault/{keeper,daemon,nav,executor}.py` | seen ids, NAV ledger, locals of a tick; nothing persisted | tick = reconcile, poll (process_deposit, process_redeem), accrue | contract, store, executor, RPC node | failures between transactions, receipt timeouts, restarts that forget, cancellation requests |
| Indexer and stores `vault/{indexer,store}.py` | checkpoint, `pb_earnings`, `pb_subscriptions` | index_new_blocks | chain, Supabase | reorganisations, failing writes, restarts in the middle of a range |
| SoSoValue transport `lib/api/sosovalue.ts` | cache, backoffs, negative cache, bucket, queue cursor, promises in flight | request | web pages, API routes, upstream | concurrent promises, timers, errors of five classes |
| Rebalancer `vault/rebalance.py` | none of its own | rebalance_once | keeper, contract | off by default |
| Agent runner `agent-service/src/main.py` | run flags, step event, latest state and log, drafted set | loop, /pause, /step, /reset, /halt | graph, stores | endpoints against the cycle in flight, restarts |
| Agent graph and execution `graph.py`, `tools/sodex*.py` | state of a cycle | nodes, retry loop of exec_node | SoDEX | retry of an order that was placed |
| Agent persistence `store.py`, `draft.py`, `pt_store.py` | append-only rows | append, insert | SQLite, Supabase | lost answers |
| Chat and strategy agents | none between turns | tool loops | LLM APIs | wording |
| Chat page `app/(indexer)/chat/page.tsx`, `app/api/chat/threads/*` | turns, active thread, session flag, legacy copy; `ch_threads`, `ch_messages` | send, pick, new, delete, archive, clear, import, poll | chat route, billing, other devices | callbacks that captured an old render, several requests in flight |
| Billing `lib/billing.ts`, `app/api/chat/route.ts` | accounts in a JSON file | canSend, recordUsage, topUp | agent service, chat page | check, await, charge |
| Proposals `app/api/proposals/*`, `app/publisher/proposals/*` | `pb_proposals` rows; what each tab shows and waits for | create, patch, delete, publish | Supabase, wallet, registry | check, then update, in two statements; transactions that outlive the page |
| Index registry `contracts/src/SSIRegistry.sol` | index entries | registerIndex | publisher, builder | two registrations of one symbol |
| Polling hooks `lib/hooks/*` | one AbortController | refetch | routes | late answers |
| Index builder `app/(indexer)/builder/page.tsx`, `app/api/builder/drafts/*` | basket, draft shown, simulation, deployment, legacy copies; `bd_drafts` | propose, edit, simulate, save, load, delete, import, deploy | routes, wallet, session, registry | answers out of order, callbacks that captured an old render |
| Rate limiter `lib/rateLimit*.ts` | hits per key | rateLimit | sensitive routes | none (synchronous) |
| Sessions and roles `lib/auth/*` | encrypted cookie | nonce, verify, logout, role | browser wallet | wallet switched while signed in |
| Portfolio, track record, demo, backtests | rows | aggregation | Supabase, exchange | arithmetic |
| SoDEX signing `lib/api/sodex/*` | none | sign, submit | exchange | none |
| Other pages and components | view state | - | routes | presentation |

What makes each part correct, in one sentence:

* Contract: every share and every USDC has one owner at all times, a request is
  closed once, refunds from escrow are whole, fees are charged once.
* Keeper: it can pay what it owes, quotes prices that are still true when sent,
  buys once per request and process life, and gets to every request.
* Indexer: each fee event on the confirmed chain is booked exactly once.
* Transport: one read per path, spaced calls, stale data before synthetic data,
  no read and no backoff for ever.
* Runner: a paused agent runs only the steps granted to it, the orders of a cycle
  can be told from its summary, one draft per sector, day and process life.
* Chat: a message is saved in the thread it was written in, an answer comes after
  its question, no conversation leaks into another's view.
* Billing: what was used is charged, from the free quota first; what is given
  away is bounded.
* Proposals: what is published is registered, once per index, and what is deleted
  stays deleted.
* Builder: a save stays on its own draft; what is registered is the basket that
  was simulated, in the name of who is signed in.

## 2. Modules

| Module | Models | Extends |
|---|---|---|
| `Sums` | sums over 1..n | - |
| `SumsProofs` | facts about sums, proved | `Sums`, `TLAPS` |
| `RequestLifecycle` | abstract: what the request queue promises | - |
| `HypeIndexVault` | the contract | `Sums` |
| `HypeIndexVaultProperties` | its properties and refinement | `HypeIndexVault` |
| `VaultKeeper` | the keeper process, its transactions and the contract together | `HypeIndexVault` |
| `VaultKeeperProperties` | properties of the two together | `VaultKeeper` |
| `VaultProofs` | the contract's invariants, refinement and action properties, and the keeper's, proved | both properties modules, `SumsProofs`, `TLAPS` |
| `VaultIndexer` | chain, scan, stores | community modules |
| `VaultIndexerProofs` | its types and three invariants, proved | `VaultIndexer`, `TLAPS` |
| `SosoTransport` | `request()` of the transport, its properties | `Sums` |
| `SosoTransportProofs` | its types and five properties, proved | `SosoTransport`, `TLAPS` |
| `Billing` | one wallet's quota and balance, the chat gate, the top-up | `Sums` |
| `ChatPage` | the chat page, its routes, and the billing gate of its sends | `Billing` |
| `ChatProofs` | what is charged and what is given away, the page's three properties, and that the page implements `Billing`, proved | `ChatPage`, `SumsProofs`, `TLAPS` |
| `Publishing` | proposal routes, the publisher's pages, wallets, the registry | - |
| `PublishingProofs` | its three invariants, proved | `Publishing`, `TLAPS` |
| `IndexBuilder` | the builder page, the drafts routes, the session guard, the deployment | - |
| `IndexBuilderProofs` | its two properties, proved | `IndexBuilder`, `TLAPS` |
| `AgentRunner` | the agent's loop, its endpoints, order placing, drafts | - |
| `AgentRunnerProofs` | its types and three invariants, proved | `AgentRunner`, `TLAPS` |
| `MC*` | constant operators for the configurations | the module named |

Definitions commented "(faulty variant)" are not used by any specification.
Each is the definition below it with one plausible mistake; `PROJECT.json`
pairs each property with one of them, and TLC finds the property violated when
it takes its place.

### HypeIndexVault

One action per external function. An action's conjuncts without primes are the
function's `require`-like reverts in order, with the two implicit ones: an
underflow of checked arithmetic and a token transfer the payer cannot fund. A
call that reverts is a stuttering step. `nonReentrant` makes calls atomic, so
interleaving is between calls. Addresses are numbers, `address(0)` is 0, a
deleted mapping entry is the all-zero record. An attestation is a NAV, a signing
time and the key that signed; every combination is tried in every state.
`cancelDeposit` is two actions because it has two unrelated halves
(`CancelPulledDeposit`, `CancelHeldDeposit`); `AccrueMgmt` covers all three
returns of `accrueMgmt`, the early ones being a fee of zero. Allowances of
subscribers are taken as given; those of the keeper are a variable of
`VaultKeeper`, where they matter. Left out: `uint256` overflow, the `ts` fields
nobody reads, events (the indexer's chain has its own), ownership of the
contract (an owner may always act).

`RequestLifecycle` is the abstract specification: request ids with a status.
`ImplementsLifecycle` maps the two mappings and the counter to it.

### VaultKeeper

The daemon's tick is a loop over labels (`pc`): reconcile, poll, accrue, and in
the poll the steps of `process_deposit` (check, refund, pull, swap, settle,
cancel) and `process_redeem` (approve, pay). A step is what happens between two
points at which another party can act: a transaction, a store call or an
executor call. `_send` has three results, as in the code: mined and successful
(`Sent`), reverted or failed before being sent, and timed out with the
transaction left pending (`Raised`), which `MineLate` executes later. `Fault` is
a failing RPC, store or executor call. `Crash` forgets every attribute of
`Keeper` and `NavEngine`. `Others` are the calls of everyone else on the
contract, `AskCancel` the route that records a cancellation. Every transaction
is an action of `HypeIndexVault` with the arguments the keeper passes, so both
models are composed, not restated.

### VaultIndexer

The chain is a sequence of blocks with one event or none; `Reorg` cuts a suffix,
whose transactions may be mined again, and never reaches the blocks that were once
`ReorgDepth` deep (`final`). A scan takes the rows of a range and writes them one
by one: each block has a row for the subscription and one for the fee, and those its
event does not ask for are passed over (`Asked`). `ScanFails` and `Restart` stop it
anywhere. The in-memory store and the production store
differ as their code does: what happens on a conflicting row, which methods
exist, what a restart leaves.

### SosoTransport

A read is a promise with a phase; the part of `request()` before the first
`await` is one action (`StartNow`, `StartQueued`). Instants are kept as
remaining time, so no clock needs a bound: this is exact because the code only
ever compares instants with `Date.now()` or adds a constant to it. The bucket's
fractional level is counted in units of time. `sent` and `resent` only observe:
the number of first attempts and of retries in the last `age + 1` instants. They
are kept apart because a retry takes no token and waits for no slot.

### Billing

`billing.ts` reads and writes its file without an `await`, so each function is
one action; `/api/chat` is two, `PassGate` before the call of the agent and
`AnswerCharged` or `AnswerUncharged` after it, and any number of turns may be in
between. Money is counted in hundredths so the cache factors 1.25 and 0.1 are
whole; floating-point rounding is left out. `NextDay` may come at any moment.
`Restart` loses open turns and, where the process ended inside
`writeFileSync` or the disk went with it, the file (`loadAll` answers `{}` to
anything that does not parse). `spentOn`, `uncovered` and `paidIn` only observe.

### ChatPage

The page is one JavaScript thread with many requests in flight. A callback keeps
what the render it was made in had, so a request's record holds what it captured:
`sending` the turns before and after, the thread and the session flag; a flow the
thread that was shown when the user clicked. A flow is one sidebar callback as
the list of requests it waits for (list, create, load, change, posts), each
failing before or after its effect. `Begin` and `Insert` are the two halves of
the messages route, between which other posts may read the same `seq`; the
database returns such rows in any order, so `MessagesOf` is a set of answers. The
poll is `useAutoRefetch`: one request, aborted by the next and by a new url. A turn
is named by the thread it was written in, which is all the properties tell
apart. The gate and the charge of a send are `Billing`'s actions, and every
other action leaves its variables alone.

### Publishing

Tabs, routes, wallet windows, transactions and the registry. A tab acts on the
row it last received. A request is a record in `net` with a phase: sent, checked
(PATCH only: between its read and its update), answered; `Disconnect` loses it
before, between or after. `Publish`, `WalletAccepts`, `Mine`, `Confirm` are the
steps from the button to `onPublished`; a wallet window and a transaction outlive
the component that started them. `Registered` is the registry's check of the
symbol. The wallet may replace what it sent under the same nonce
(`MineReplacement`), by the same call for a higher fee or by a cancellation, and
the page's receipt hook resolves with the replacement's receipt: `Confirm` then
records the original hash, whatever was mined. `POST` takes any status but
"published" and "live", and any transaction, from whoever sends them
(`RequestedStatuses`, `RequestedTxs`); patches are those the pages send. Rows keep status, ticker, creator, whether the weights are complete, and
the transaction; other fields do not meet a guard. `Openings` start the tabs on
states a few clicks away, so that the bounded clicks are spent on the races.

### IndexBuilder

Again one JavaScript thread with many requests in flight. A callback about drafts
is a flow: the request it waits for (`asks`) and what its render captured (the
draft's `id`, the `work` it sends, the draft that was current, `home`). `Serve`
is the route's effect, `Arrives` what the callback does with the answer; a
request whose answer was lost may still reach the server (`Alone`). Of the form
only the piece of work it holds is kept, and loading a draft may bring back any
config and extra assets. Proposals are counted per config, as their answers are
taken in any order; a simulation keeps the basket it was asked for. The session
guard is its read and its signature with the last error; `Status` is what the
banner derives. Network and arguments of a deployment are those of the click,
its account the one at `writeContractAsync`. `strays`, `overtaken` and `switched`
only observe: they mark the three exceptions the code has (section 5).

### AgentRunner

Everything runs on one asyncio loop, so an action is what happens between two
`await`s, and endpoints are served at any of them. `Begin` is the top of the
loop up to `GRAPH.ainvoke`; `Research` stands for the nodes before trading (no
basket, an emergency, or a basket of some size); `Trade` and `TradePerps` are one
awaited call of the exchange with one of its results, `Taken` says which of them
may leave an order behind; `Report` and `Draft` are what follows the graph;
`Finally` ends each iteration, the failed ones too. `age` keeps the time since
the last cycle only as far as the two cadences tell it apart. `Restart` forgets
all of `RUN_STATE`, the halt included. `begun`, `granted`, `taken`, `placed` and
`unsure` only observe.

## 3. Runs

| Run | Instance | What it asks |
|---|---|---|
| `vault_three_requests` | 1 index, 2 accounts, 3 requests, time 0..1, rotating keeper | types, queue, share conservation, solvency, high-water marks, accrual clock, how each request ends, refinement |
| `keeper_faults` | 1 index, 2 requests, 1 fault, 1 crash, 2 cancellations | single swap per life, solvency, fresh quotes, honoured cancellations |
| `keeper_liveness` | 3 requests, 1 timeout, 1 crash, fair keeper | every request come to, single swap per life with late transactions |
| `indexer` | both stores, 4 blocks, reorganisations, faults, restarts | booked once and never lost, never orphaned, mirror, catches up unless a row is refused |
| `soso_transport` | 2 paths, 2 promises, bucket 2, gap 2, queue of at most 3, backoffs 1 or 2 | sharing, stale fallback, spacing, rate, backoffs, reads end |
| `billing` | 2 turns, 2 days, 1 top-up, 1 restart | never overcharged, overrun bounded |
| `chat_page` | 2 threads, 2 sends, 2 flows, 2 extras, 3 inputs | saved where written, answers after questions, only answers mix |
| `publishing` | 2 proposals, 1 ticker, 2 tabs, 2 requests and 2 transactions at once, 4 clicks, `POST` as a draft or "paused", with or without a transaction | published is registered, one proposal per index, deleted stays deleted |
| `index_builder` | 2 wallets, 2 configs, 5 drafts (2 saved, 2 legacy), 2 flows, 3 clicks or faults | saves stay on their draft, deployed is what was simulated and by whom |
| `agent_runner` | 1 sector, 3 attempts, 2 assets, 2 days, 1 restart a day, 4 requests | steps while paused, orders explained, one draft a day |
| `keeper_stranded`, `proposal_race` | smallest instances | two statements of the documents the code does not keep (section 5) |

Why the bounds are enough:

* Account 2 is signer and guardian, and the keeper, a role that moves to account 1
  and back at any time; both accounts are subscribers and creators. The contract
  never compares two roles, so further key holders would only repeat these cases,
  and two subscribers never share a position, so a third adds nothing but copies.
  One index is open: that the reserves of several add up to the one balance they
  share is proved for any number of them (`VaultSolvent`).
* Three requests are the smallest number that lets a deposit, a redemption of
  its shares and a further request be open in one history; two open requests
  at once are enough for every interference on reserves.
* `MAX_STALENESS = 0`, `DAY = 1` and a clock of two instants give fresh, stale
  and future attestations, and an accrual on the same and on the next day.
* `WAD`, the fee rates and `BPS` are small so that roundings to zero, caps and
  exact divisions all occur.
* One fault, one timeout and one crash at any step: each recovery path of the
  code starts from a single failure; combinations beyond one of each are not
  checked.
* `keeper_liveness` has three requests because a redemption needs a deposit
  settled before it, and the request its failure delays comes third. The vault may be
  paused for good, so any redemption may fail. No cancellations are
  asked for there (`MaxCancels = 0`); `keeper_faults` has two. The swaps of a
  request are counted up to two more than `MaxCrashes`, one more than
  `SwappedOncePerLife` allows.
* Two promises over two paths take the last tokens together or queue behind them: the
  next slot is two units away and a further one would be four, so a cap of three
  is one that callers meet. Retries fall into the same window as first attempts
  (`FETCH_TIMEOUT = RETRY_DELAY = 1`). `SosoTransportProofs` covers every other size.
* Two open turns are the smallest number that passes the gate on the same quota;
  the day, the top-up and the restart each may come between gate and charge. The
  usages cover a turn that is priced by an unlisted model, one that straddles
  the end of the quota, and each of the three quotas running out first.
  `ChatProofs` covers every other size.
* A send, two sidebar callbacks and a poll are what can be in flight when the
  user clicks twice during an answer; two threads are one to write in and one to
  switch to. Each of the three properties needs at most three inputs to break.
* Two tabs, two proposals of one ticker, and four clicks after an opening: one
  for each tab to open its row, one for each to act. Two transactions let one
  register what the other, cancelled or reverted, did not. The openings are states the
  clicks before would reach.
* Builder: two drafts are one to work on and one to load, two legacy copies are one
  to import and one to go on with, two flows are what overlaps when the user
  clicks during an answer, two wallets and two configs one to change to. Opening
  answers and the deployment are not counted as clicks. Every exception of section
  5, and every mutant, shows within the three.
* One sector, because sectors share no state but the iteration that `i` picks;
  two assets, so that one may be placed while the next fails; three attempts as
  in the code; a day that ends, a restart on each day. Four requests let a pause,
  a step, a second step and a resume be placed anywhere.

`CHECK_DEADLOCK FALSE` is set where the system, or its bounded environment, may
really be done: the in-memory indexer with a complete chain scanned, the chat
page, the builder and the publisher's tabs when the user stops clicking, billing with every
turn answered on the last day, and a halted agent, which waits for a request.
The vault, the keeper and the transport never stop.

Fairness. `keeper_liveness`: weak fairness of the keeper's next step (the daemon
runs it in a loop and `run` catches every exception) and of mining a pending
transaction; none of users, guardian or clock. `indexer`: weak fairness of the
scan. Not every tick gets to it: `process_redeem` has no handler, so a redemption
that fails ends its tick before `index_new_blocks`. But an id is in the seen set
before it is processed, so each redemption ends one tick at most in a life of the
process, and an RPC node that fails for ever is excluded by the bound on faults.
`soso_transport`: weak fairness of time and, for each promise, of its next
step, which `AbortSignal.timeout` justifies for fetches and `setTimeout` for
waits. Nothing is assumed of the upstream's answers.

Properties of `keeper_faults` are checked without late transactions
(`MaxTimeouts = 0`) because with them three do not hold: `HonoredMeansRefunded`
(section 5), `KeeperSolvent`, where a `settleRedeem` mined after its receipt
timed out is never booked in the NAV ledger (`keeper.py:162-165`), and
`QuoteIsFresh`, where an accrual mined late changes the supply under a quote.
The fourth, `SwappedOncePerLife`, holds with them, and `keeper_liveness` checks it so.

## 4. Proofs

`VaultProofs` proves, for every value of the constants that meets the named
assumptions (counts are natural numbers, scale constants positive, inputs natural
numbers), first of the contract alone. Its lemmas are about `AnyCall`, the calls
of `Next` with any natural number as an amount, NAV or signing time, because the keeper
computes its arguments and picks none from the sets of a run. The types and the
fee clock:

* `TypeCorrect`: `Spec => []TypeOK`. `TypeOK` says more than types: a request
  that exists names an index, without which `vaults[d.indexId]` would be
  meaningless. The numbers stay natural only because each subtraction is
  guarded (reserve, balance, shares), each floor division has a positive
  divisor, and the elapsed time of an accrual is not negative.
* `FeeClockCorrect`: `Spec => []AccrualClockFollowsDays`: the clock an accrual
  charges from is never behind a day that was charged, nor in the future.

Neither is inductive alone. `accrueMgmt`'s fee is natural only if the clock is
not ahead of `now`, which is the first half of `AccrualClockFollowsDays`; and
that is about numbers only under `TypeOK`. The inductive invariant `VaultInv` is
their conjunction. The proof has one lemma per action (`TypeSettleRedeem`,
`ClockAccrueMgmt`, ...), grouped by `Step*` lemmas along the disjuncts of
`Next`, and `VaultInvStep` puts them together; the clock needs arithmetic only
in `AccrueMgmt` and `OpenVault`, every other action leaves it alone
(`ClockUntouched`, `SameClock`).

The ledger, from `VaultInv`:

* `SharesConserved`: `Spec => []ShareConservation`, for any number of
  subscribers, indices and open requests.
* `QueueCorrect`: `Spec => []QueueWellFormed`.
* `MarksCorrect`: `Spec => []HighWaterMarkSet`.

The inductive invariant `LedgerInv` is `VaultInv`, these three and
`CreatorOpened` (only an open vault has a creator). They need each other: the
sums over open redemptions grow by what is requested only because a fresh id is
unused (`QueueWellFormed`); `settleRedeem` cannot empty `totalShares` below the
dead shares because a redemption is not empty and is part of the sum
(`RedemptionBound`); the owner of a claim stays the creator because a creator is
set once (`CreatorOpened`). Steps that move no shares share one lemma
(`BooksKept`); each of the six others has its own (`LedgerSettleRedeem`, ...),
where the sums change by `PositionMoved` and `RedemptionMoved` and the rest is
linear arithmetic.

The money, on top of `LedgerInv`:

* `EscrowCovered`: `Spec => []ReserveCoversEscrow`.
* `ReservesAddUp`: `Spec => []HeldIsReserves`.
* `VaultSolvent`: `Spec => []Solvent`, the two together, for any number of indices.

Every action moves the money of one index, so `MoneyKept` serves those that move
none and `HeldMoved`, `CoversMoved` the others: the sum of the reserves changes by
the one reserve that did (`ReservesMoved`), the escrow of that index by the one
deposit that entered or left it (`EscrowMoved`). A request adds to both because
its id is unused until then (`QueueWellFormed`); the pull and the refund take from
both; ending a pulled deposit changes neither, for it is no longer in escrow
(`FlightEnded`); and settling a redemption only adds, since its proceeds come from
the keeper's wallet and the fee stays in the reserve.

What one call may do, from `LedgerInv` before it:

* `QueueImplementsLifecycle`: `Spec => ImplementsLifecycle`, the refinement of
  `RequestLifecycle`. One `Queue*` lemma per action shows which abstract step it
  is; all others leave every status as it was (`QueueUntouched`). A status depends
  on whether an id is unused, open or closed, so that a new id is unused and that
  no id is both deposit and redemption (`QueueWellFormed`) carry the argument;
  that a claim can be told from a redemption by its missing mark comes from
  `HighWaterMarkSet`.
* `EscrowRefunded`, `PulledEnded`, `MinimumPaid`, and the three as `TermsKept`;
  `PauseFreezes`, `BaselineSlow`: the action properties. `TermsKept` says of each way a
  request is closed what the contract promises: the whole deposit out of escrow;
  of a pulled deposit that settles, `minSharesOut` shares at least; of a redemption,
  `minUsdcOut` at least, the keeper's own redemptions included. A pulled deposit
  that is cancelled is promised no amount: `cancelDeposit` hands on whatever the
  keeper brings, even nothing, and the property says only that nobody but the
  keeper pays for it. `DepositClosers` and `RedeemClosers` reduce them to the calls that
  close a request, `NavMoves` to those that write `lastNav`.

Then of the keeper and the contract together (`KeeperSpec`), where most steps are
a call of the contract with a result the process may or may not see:

* `KeeperTypes`: `KeeperSpec => []KeeperTypeOK`. The inductive invariant
  `KeeperInv` is `LedgerInv` and `KeeperTyped`: a transaction in the mempool is
  one the keeper could have signed, and the request at work names an index.
* `VaultSoundUnderKeeper`: `KeeperSpec => [](ShareConservation /\ Solvent)`, and
  `KeeperImplementsLifecycle`: `KeeperSpec => ImplementsLifecycle`. Every step that
  touches the contract is an `AnyCall`, so its invariants and its refinement
  carry over, late transactions included.
* `SwappedOnce`: `KeeperSpec => []SwappedOncePerLife`, with any number of faults,
  timeouts and crashes. `SwapInv` counts one swap per crash and one more once the
  request is remembered (`SwapsCounted`); a deposit before its swap has not used this
  life's (`SwapAhead`); and what is remembered as a deposit is never taken for a
  redemption (`SeenSound`), else the id would be sold for again.
* `KeeperStaysSolvent`: `KeeperSpec => [](timeouts = 0 => KeeperSolvent)`, and
  `QuotesStayFresh`: `KeeperSpec => [](timeouts = 0 => QuoteIsFresh)`. `BooksInv`
  adds that nothing is pending, that the deposit at work is still as it was read,
  and that what is to be paid out is in the basket. Without the hypothesis both are
  false, which TLC shows with one timeout: a settlement mined late is never
  booked in the ledger, and an accrual mined late changes the share supply under a
  quote.
* `HonoredIsRefunded`: along every behaviour without a timeout,
  `HonoredMeansRefunded`.

`SumsProofs` proves what the ledger invariants need of sums: a sum of naturals
is a natural, changing one term changes the sum by the difference
(`SumToUpdate`), no term exceeds the sum. It goes through the existence and
uniqueness of the partial-sum function, by least counterexample, because
induction theorems with an operator parameter cannot be used.

`VaultIndexerProofs`, for any events, published indices, span, confirmations, depth
of reorganisations and bounds that meet `IndexerAssumption`:

* `NoFeeLost` and `FeesAreOnChain`: if `Confirmations >= ReorgDepth`
  (`EnoughConfirmations`), `Spec => []NoEarningLost` (each fee below the checkpoint is
  booked, and once) and `[]EarningsAreOnChain`.
  The hypothesis is what the confirmations are for; without it both are false. The
  inductive invariant `ScanInv`: the range a scan reads is final (`ScansFinal`), each
  row left to write is of one of its blocks (`RangeRows`), a fee of the range is booked
  or still among the rows to write (`FeesPending`), all fees below the checkpoint
  are booked (`FeesBehind`), and what is booked was final (`EarningsFinal`). It
  holds through failures because the checkpoint moves after the last row, and
  through a restart of the in-memory store because its checkpoint dies with it.
* `RowsMirrorPositions`: `Spec => []SubscriptionsMirrorPositions`. `MirrorInv` says
  of every holder (of the in-memory store) that a change of their shares is not written yet, or the row is
  their position with some of today's open requests counted in (`RowMirrors`):
  which ones depends on when the row was written. Counting goes through
  `PositionCounts`, by cardinalities of sets of blocks.

`SosoTransportProofs`, for any paths, number of reads, bucket, gap, window, queue,
timeouts and backoffs that meet its assumption:

* `ReadsAreShared` and `SnapshotStaysCurrent`: `Spec => []OneReadPerPath` and
  `[]SnapshotCurrent`; inductive together with the types (`ReadsInv`): an entry
  of the cache changes only by the path's own read, of which there is one.
* `QueueStaysSpaced`: `Spec => []QueueIsSpaced`, inductive with the types.
* `BackoffsOnlyExpire`: `Spec => BackoffNeverShortened`; a backoff never exceeds the
  one its class sets (`BackoffsBounded`), so setting it again does not shorten it.
* `RateIsBounded`: `Spec => []RateBound`. The bound alone is not inductive; the
  invariant `SentAccounted` splits what was sent at each age into calls the bucket
  paid for, bounded with what is left in it, and calls in slots of the queue,
  bounded by the age and the time each queued read has still to wait
  (`FirstAttemptsBounded`). Retries pass the bucket and the queue by, so the wire
  may carry more than that: `RetryInv` accounts for each retry, made or still to
  come, by a first attempt of the same read that is at most `RETRY_LAG` (a fetch
  timeout and the delay) older (`RetriesAccounted`, `TimersInTime`), which bounds all
  calls together by the allowance of the span and that of the longer span.

`ChatProofs`, first of `Billing` alone, for any set of turns, any prices, quotas and
bounds that meet `BillingAssumption`:

* `NeverPaysTwice`: `BillingSpec => []NeverOvercharged`.
* `GivenAwayBounded`: `BillingSpec => []OverrunBounded`.

For the first, the account never remembers more of a day than was really spent on
it (less, when the file was lost), and the part of a turn beyond a cap only grows
with what came before (`Convexity`); so each deduction is matched by growth of
the day's true overrun, one term of the sum (`SumToUpdate`). For the second, once
nothing is available only the turns already let in can go unpaid: the invariant
counts `MaxCost` for each of them on top of what was given away (`Exposure`), and
the gate lets nobody in until a day, a top-up or a restart refills.

Then of the page, for any number of threads, sends, callbacks waiting at once,
sessions and openings that meet `ChatAssumption`:

* `ChatImplementsBilling`: `ChatSpec => BillingSpec`. Each step of the page is one
  request of `Billing` or leaves its variables alone; what needs an invariant is
  that a send's turn is one of `Billing`'s. Hence `ChatChargesFairly`:
  `ChatSpec => [](NeverOvercharged /\ OverrunBounded)`.
* `SavedWhereWritten`: `ChatSpec => []LandsWhereWritten`. Inductive with the types
  once the handlers of posts under way are included: each holds a turn of the
  thread it writes to (`HomeInv`). The page's own post gets its thread from the
  send that captured it, not from the view.
* `AnswersInOrder`: `ChatSpec => []AnswersFollowQuestions`. `OrderInv` follows one
  question from save to save. Until the page is done with it, it is not
  acknowledged and no answer to it exists (`AnswersBehind`); the post of a send
  carries what is to be saved next (`SendPosts`); after the acknowledgement its row
  stays, unless the thread is deleted (`QuestionKept`); and the answer, when its
  handler has read a `seq`, has a higher one (`AnswersNumbered`). `QuestionKept`
  survives everybody else's steps because rows are only added and a deleted
  thread never comes back (`Evolves`). That a thread has a highest `seq`, without
  which `Max` is not defined, is part of the types (`Topped`).
* `OnlyAnswersMixIn`: `ChatSpec => OnlyAnswersMix`. `ViewInv` says that what a poll
  or a load has read is of the thread it was asked for, and that what a send
  captured are turns; then `ViewSteps` shows of every step that leaves the send
  alone that each turn in view was there before, under the same thread, or is of
  the thread shown.

`AgentRunnerProofs`, for any sectors, attempts, basket size, days and number of
requests that meet `AgentAssumption`:

* `StepsAreOneShot`: `AgentSpec => []PausedRunsOnlySteps`. Inductive with a
  pending step counted as an iteration to come while none is under way
  (`StepInv`).
* `OrdersAccounted`: `AgentSpec => []OrdersExplained`. The bound is on the orders of
  the assets tried so far, taken together. Inductive with the attempts
  made for the current asset: `taken` is at most `MAX_TRADE_ATTEMPTS * done +
  attempt`, and the cascade to perps takes the place of an attempt (`OrderInv`).
* `DraftsDeduplicated`: `AgentSpec => []DraftedOncePerDay`. A sector that is not
  remembered today has at most one draft for each restart of today, none has a
  draft of a later day, and a draft under way is for a key nobody used since
  (`DraftInv`).

Each also needs `AgentTypeOK`, which is inductive by itself.

`PublishingProofs`, for any proposals, tickers, creators, tabs, openings and
number of requests that meet `PublishingAssumption`:

* `PublishedBacked`: `PublishingSpec => []PublishedIsRegistered`.
* `IndexOnce`: `PublishingSpec => []OneProposalPerIndex`.
* `DeletedForGood`: `PublishingSpec => []DeletedStaysDeleted`.

What a tab, a wallet window, a checked patch or an answer knows of a row was
true when it was read and need not be now, so the inductive invariant
(`PublishingInv`) keeps of it only what outlives every race: a ticker once named
is still the row's, or the row is deleted for good (`Names`); a transaction once
confirmed for a proposal stays so (`Registers`); a row once published keeps its
transaction (`PublishedOnce`), which is all a patch to "live" or "paused" needs
when it is written late. The three only grow (`Grows`), so a few lemmas on
requests, tabs and windows carry them over every step of somebody else
(`NetKept`, `PagesKept`, `PromptKept`), and each action has one lemma for what it
does itself. The assumption asks that an opening is consistent, which TLC
evaluates on the openings of the run, and of requests only that a `POST` carries
numbers as transactions. Two statements name exemptions that the code makes
necessary (section 5): a transaction cancelled in the wallet has a successful
receipt, its replacement's, without registering anything; and a row created as
"paused" becomes live by "Resume" with no transaction of its own.

`IndexBuilderProofs`, for any wallets, configs, assets, drafts and number of
callbacks that meet `BuilderAssumption`:

* `SavesKept`: `BuilderSpec => SavesStayOnTheirDraft`. Inductive is that whatever
  the page or a callback says of a draft (the work it shows, the work a request is
  about to write, what an answer lists) was true once (`Holds`, `Truthful`). It
  stays true because rows only evolve (`Evolves`): an id is given out once, a
  deleted row never comes back, and a save writes what held already. `SlotMoves`
  carries this over every step of one callback.
* `DeployChecked`: `BuilderSpec => []DeployedAsChecked`. Inductive is that a result
  on show which is not overtaken is of the basket on show and that no proposal is
  awaited (`BasketInv`): without the second half an answer could replace the basket
  under a result. `DeploymentInv` keeps what the click checked until the receipt.

Every invariant and every action property of the runs is a theorem, five of them
under the hypotheses named above (`EnoughConfirmations`, `timeouts = 0`; the runs of
these give their constants the same values). Only model-checked is the liveness
(`EveryRequestVisited`, `CatchesUpUnlessRefused`, `EveryReadEnds`, `BackoffsEnd`),
which is beyond the proof system, as is `ENABLED`: the keeper's proofs allow any
transaction to revert, a weaker reading of `Reverts` that suffices. The two refuted
runs show behaviours; there is nothing to prove of them.

## 5. Where documents and code differ

Two of these are runs that TLC refutes; `PROJECT.json` quotes the lines.

1. `keeper_stranded`: a settlement that fails after the pull cannot be refunded,
   for want of an `approve`.
2. `proposal_race`: a transition is checked against one row and written to
   another, so a rejected proposal can become signed without a draft.

Others were met while modelling; the models have these behaviours, and the
properties state what holds in spite of them:

* Contract: the conservation law as `HypeIndexVaultInvariants.t.sol` L8 words it
  leaves out the shares of open redemptions. A redemption cannot be cancelled
  (L316): while the NAV is below its `minUsdcOut` it stays open.
* Keeper: a late pull turns the pre-pull cancellation into a refund of 0 that is
  reported as honoured (`keeper.py` L108-118). With `VAULT_REBALANCE_ENABLED` set
  the daily NAV checkpoint, which "always runs" (`rebalance.py` L151), never does:
  the store of `run_keeper.py` selects no constituents (`store.py` L97), so
  `rebalance_once` returns before it signs (L184).
* Indexer: `SupabaseRestStore.upsert_subscription` posts without `on_conflict`,
  and the class has no `subscriptions_for_index`, so a second row for a
  subscriber, or any redemption, stops the checkpoint (`store.py` L115).
  `CatchesUpUnlessRefused` says that nothing else does.
* Transport: the bucket refills while queued calls go out, so first attempts reach
  twice the rate `sosovalue.ts` L258 names; and the retry (L534) asks neither the
  bucket nor the queue, so a burst that times out goes out once more as a burst.
  `RateBound` is the bound that is kept.
* Chat: the view is replaced by an answer after the user switched threads, so a
  further send takes the other thread's turns along (`page.tsx` L828); an answer
  whose question could not be saved stands alone (L837-843, therefore the
  acknowledgement in `AnswersFollowQuestions`); turns are merged by length, so an
  unsaved turn hides another device's (L430-441); a page that was refused stays
  blocked after midnight (L787); an import whose POSTs are answered 500 still
  drops the local copy (L493-510).
* Billing: a file that does not parse reads as no accounts (`billing.ts` L117),
  so a balance does not always persist across days as L13 says.
* Publishing: when the transaction confirms and the PATCH that records it fails,
  the index is registered and the row stays signed; `onPublished` fires once per
  mount and a second registration reverts (`PublishActions.tsx` L154). "Reject"
  and "delete" stay enabled while a transaction is pending. A transaction sped up or
  cancelled in the wallet resolves the receipt hook with the replacement's receipt
  (`PublishActions.tsx` L96-100), and L150-158 record the original hash, which is
  never mined, as published; after a cancellation nothing is registered, though
  `ProposalDetailClient.tsx` L173-176 has a published proposal "always actually
  on-chain". `POST` accepts "review", "signed", "paused" and "rejected", and a
  transaction, although the comment at L216 of `api/proposals/route.ts` speaks of
  defaulting to a draft; a row created as "paused" goes live by "Resume" with no
  transaction.
* Builder (`builder/page.tsx`): a simulation that ends after the basket changed, or
  while a new proposal was awaited, is shown and can be deployed, although L317
  speaks of invalidating it (`overtaken`). The session is checked at the click,
  before `switchChainAsync` is awaited, so an account selected meanwhile becomes
  the creator in spite of the comment at L295 (`switched`). The id of a new draft
  that arrives after another was loaded makes later saves of that one overwrite
  it (L475, `strays`). A PUT to a draft deleted elsewhere is a 404 that nothing
  reports (L462); an import whose POSTs are answered 500 still drops the local
  copies (L553-570); the event that is to tell "other tabs" of a sign-in stays
  in its window (`useSessionGuard.ts` L143).
* Agent: the halt is in memory and a restart clears it, although `main.py` L203
  and L377 say only /reset does; a step requested during an iteration is taken
  off by its `finally` though it was answered `stepped` (L531); a pending step
  survives halt and reset; /pause toggles, whatever the caller saw; a failed draft
  insert is remembered like one that worked, so there is none that day; each
  retry is a new order to the exchange (`sodex.py` L531).

## 6. Not modelled, and the plan

Next, in this order:

1. The agent console's stale buttons inside `AgentRunner`.
2. The rate limiter's window against a reference definition.

Left out for good: the rebalancer, which sends nothing (section 5), presentation (most of the TypeScript), numeric simulations,
prompts, wire formats and the exchange's signing, for the reasons given in
`PROJECT.json`.
