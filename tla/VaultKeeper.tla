---------------------------- MODULE VaultKeeper ----------------------------
(***************************************************************************)
(* The keeper process (agent-service/src/vault/keeper.py, driven by        *)
(* daemon.py, priced by nav.py, filled by executor.py) together with the   *)
(* contract it calls.                                                      *)
(*                                                                         *)
(* The process is sequential: pc says which statement of a tick runs next. *)
(* Between two statements everybody else may act -- subscribers, the       *)
(* creator, the guardian, the chain -- and the process may be killed and   *)
(* started again, which empties all it keeps in memory.                    *)
(*                                                                         *)
(* A transaction is sent with the account's latest nonce and waited for.   *)
(* Waiting may time out while the transaction stays in the mempool: it is  *)
(* mined or dropped later, and until then any other transaction of the     *)
(* keeper has the same nonce and is refused or takes its place.            *)
(*                                                                         *)
(* Contract calls are the actions of HypeIndexVault.  The rebalance step   *)
(* of a tick is off by default (daemon.py L37) and left out; the indexer   *)
(* step touches nothing modelled here.  Request ids are deposits or        *)
(* redemptions, never both (QueueWellFormed), so the two lookups poll_once *)
(* makes for an id are one step.                                           *)
(***************************************************************************)
EXTENDS HypeIndexVault, FiniteSets

CONSTANTS
    KeeperAccount,  \* the address of the keeper's key
    SignerAccount,  \* the address of its price-signing key
    Creator,        \* index -> creator of its published proposal
    INITIAL_NAV, SLIPPAGE_BPS,
    MaxFaults,      \* BOUND: failed RPC and store calls
    MaxTimeouts,    \* BOUND: receipts waited for in vain
    MaxCrashes,     \* BOUND: restarts of the process
    MaxCancels      \* BOUND: cancellations asked for

ASSUME KeeperAssumption ==
    /\ KeeperAccount \in Accounts
    /\ SignerAccount \in Accounts
    /\ Creator \in [Indices -> Accounts]
    /\ INITIAL_NAV \in Nat \ {0}
    /\ SLIPPAGE_BPS \in 0..BPS
    /\ MaxFaults \in Nat /\ MaxTimeouts \in Nat /\ MaxCrashes \in Nat
    /\ MaxCancels \in Nat

VARIABLES
    pc,             \* the statement a tick has reached
    todo,           \* indices the current loop has still to visit
    cur, lastId,    \* poll_once: req_id and next_id
    job,            \* the locals of process_deposit / process_redeem
    seenDeposits, seenRedeems,
    basket,         \* NavEngine._basket
    swaps,          \* id -> how often its swap was executed (observed)
    allowance,      \* usdc.allowance(keeper, vault)
    cancels,        \* pb_cancel_requests: id -> status
    mempool,        \* the keeper's transaction not yet mined, if any
    faults, timeouts, crashes

memory == <<seenDeposits, seenRedeems, basket>>
locals == <<todo, cur, lastId, job>>
chain == <<vars, allowance>>
budget == <<faults, timeouts>>
keeperVars == <<pc, locals, memory, swaps, cancels, crashes>>
allVars == <<chain, keeperVars, mempool, budget>>

NoJob == [pulled |-> FALSE, idx |-> 0, usdc |-> 0, value |-> 0, nav |-> 0,
          signedAt |-> 0]

KeeperInit ==
    /\ Init
    /\ pc = "idle" /\ todo = {} /\ cur = 0 /\ lastId = 0 /\ job = NoJob
    /\ seenDeposits = {} /\ seenRedeems = {}
    /\ basket = [i \in Indices |-> 0]
    /\ swaps = [id \in RequestIds |-> 0]
    /\ allowance = 0
    /\ cancels = [id \in RequestIds |-> "none"]
    /\ mempool = {}
    /\ faults = 0 /\ timeouts = 0 /\ crashes = 0

-----------------------------------------------------------------------------
(* Transactions *)

OpenTx(i) == [call |-> "open", idx |-> i]
AccrueTx(i) == [call |-> "accrue", idx |-> i]
PullTx(id) == [call |-> "pull", id |-> id]
CancelTx(id, returned) == [call |-> "cancel", id |-> id, usdc |-> returned]
SettleTx(id) == [call |-> "settle", id |-> id, job |-> job]
ApproveTx(n) == [call |-> "approve", usdc |-> n]
PayTx(id) == [call |-> "pay", id |-> id, job |-> job]

\* tx is mined and does not revert.  USDC the vault takes from the keeper
\* comes out of the allowance.
Execute(tx) ==
    \/ /\ tx.call = "open"
       /\ OpenVault(KeeperAccount, tx.idx, Creator[tx.idx])
       /\ UNCHANGED allowance
    \/ /\ tx.call = "accrue"
       /\ AccrueMgmt(KeeperAccount, tx.idx)
       /\ UNCHANGED allowance
    \/ /\ tx.call = "pull"
       /\ PullForDeposit(KeeperAccount, tx.id)
       /\ UNCHANGED allowance
    \/ /\ tx.call = "cancel"
       /\ \/ /\ tx.usdc <= allowance
             /\ CancelPulledDeposit(KeeperAccount, tx.id, tx.usdc)
             /\ allowance' = allowance - tx.usdc
          \/ /\ CancelHeldDeposit(KeeperAccount, tx.id)
             /\ UNCHANGED allowance
    \/ /\ tx.call = "settle"
       /\ SettleDeposit(KeeperAccount, tx.id, tx.job.nav, tx.job.value,
                        tx.job.signedAt, SignerAccount)
       /\ UNCHANGED allowance
    \/ /\ tx.call = "approve"
       /\ allowance' = tx.usdc
       /\ UNCHANGED vars
    \/ /\ tx.call = "pay"
       /\ tx.job.value <= allowance
       /\ SettleRedeem(KeeperAccount, tx.id, tx.job.value, tx.job.nav,
                       tx.job.signedAt, SignerAccount)
       /\ allowance' = allowance - tx.job.value

Reverts(tx) == ~ ENABLED Execute(tx)

\* _send returns: the receipt has status 1.  A transaction of the keeper still
\* in the mempool had the same nonce and was replaced.
Sent(tx) ==
    /\ Execute(tx)
    /\ mempool' = {}
    /\ UNCHANGED budget

\* An RPC or store call fails.
Fault ==
    /\ faults < MaxFaults
    /\ faults' = faults + 1
    /\ UNCHANGED timeouts

\* _send raises: reverted, refused because of the transaction in the mempool,
\* failed before it reached the node, or not mined in time.
Raised(tx) ==
    /\ UNCHANGED chain
    /\ \/ Reverts(tx) /\ mempool' = {} /\ UNCHANGED budget
       \/ mempool # {} /\ UNCHANGED <<mempool, budget>>
       \/ Fault /\ UNCHANGED mempool
       \/ /\ mempool = {}
          /\ timeouts < MaxTimeouts
          /\ mempool' = {tx}
          /\ timeouts' = timeouts + 1
          /\ UNCHANGED faults

-----------------------------------------------------------------------------
(* One tick: reconcile_vaults, poll_once, accrue_due *)

Goto(label) == pc' = label
Tick ==
    /\ pc = "idle"
    /\ Goto("reconcile")
    /\ todo' = Indices
    /\ UNCHANGED <<chain, cur, lastId, job, memory, swaps, cancels, crashes,
                   mempool, budget>>

\* open_vault for an index whose vault is not active; a failure is swallowed.
Reconcile ==
    /\ pc = "reconcile"
    /\ \E i \in todo :
          /\ \/ vaults[i].active /\ UNCHANGED <<chain, mempool, budget>>
             \/ /\ ~ vaults[i].active
                /\ Sent(OpenTx(i)) \/ Raised(OpenTx(i))
          /\ todo' = todo \ {i}
    /\ UNCHANGED <<pc, cur, lastId, job, memory, swaps, cancels, crashes>>

\* range(1, next_id) stops before next_id, the first id not handed out.
\* (faulty variant)
PollBoundShort == nextRequestId - 1
PollBound == nextRequestId

StartPoll ==
    /\ pc = "reconcile" /\ todo = {}
    /\ Goto("poll")
    /\ cur' = 1 /\ lastId' = PollBound
    /\ UNCHANGED <<chain, todo, job, memory, swaps, cancels, crashes, mempool,
                   budget>>

\* An id is remembered as seen before anything is done with it.
Remember(seen, id) == seen \cup {id}

\* (faulty variant)
NewDepositUnchecked(id) == pendingDeposits[id].who # 0
NewDeposit(id) == id \notin seenDeposits /\ pendingDeposits[id].who # 0
\* (faulty variant)
NewRedeemUnchecked(id) == pendingRedeems[id].who # 0
NewRedeem(id) == id \notin seenRedeems /\ pendingRedeems[id].who # 0

\* The loop of poll_once goes on with the next id.
NextId ==
    /\ Goto("poll")
    /\ cur' = cur + 1
    /\ job' = NoJob
    /\ UNCHANGED <<todo, lastId>>

\* An exception leaves poll_once and the tick.
AbortTick ==
    /\ Goto("idle")
    /\ cur' = 0 /\ lastId' = 0 /\ todo' = {} /\ job' = NoJob

PollNothing ==
    /\ pc = "poll" /\ cur < lastId
    /\ ~ NewDeposit(cur) /\ ~ NewRedeem(cur)
    /\ NextId
    /\ UNCHANGED <<chain, memory, swaps, cancels, crashes, mempool, budget>>

\* A read of the chain or the store outside any try fails: the tick is over.
ReadFails ==
    /\ \/ pc = "poll" /\ cur < lastId
       \/ pc \in {"reconcile", "accrue"} /\ todo = Indices
    /\ Fault
    /\ AbortTick
    /\ UNCHANGED <<chain, memory, swaps, cancels, crashes, mempool>>

EndPoll ==
    /\ pc = "poll" /\ cur >= lastId
    /\ Goto("accrue")
    /\ todo' = Indices
    /\ cur' = 0 /\ lastId' = 0
    /\ UNCHANGED <<chain, job, memory, swaps, cancels, crashes, mempool, budget>>

\* accrue for every active vault; a failure (already accrued) is swallowed.
\* (faulty variant: accrual on a timer of its own)
AccrueAnyTime ==
    /\ \E i \in Indices : vaults[i].active /\ Sent(AccrueTx(i))
    /\ UNCHANGED keeperVars
Accrue ==
    /\ pc = "accrue"
    /\ \E i \in todo :
          /\ \/ ~ vaults[i].active /\ UNCHANGED <<chain, mempool, budget>>
             \/ /\ vaults[i].active
                /\ Sent(AccrueTx(i)) \/ Raised(AccrueTx(i))
          /\ todo' = todo \ {i}
    /\ UNCHANGED <<pc, cur, lastId, job, memory, swaps, cancels, crashes>>

EndTick ==
    /\ pc = "accrue" /\ todo = {}
    /\ AbortTick
    /\ UNCHANGED <<chain, memory, swaps, cancels, crashes, mempool, budget>>

-----------------------------------------------------------------------------
(* process_deposit *)

\* The id is remembered as seen; reading the request again may fail, and only
\* the tick catches that.
StartDeposit ==
    LET d == pendingDeposits[cur] IN
    /\ pc = "poll" /\ cur < lastId
    /\ NewDeposit(cur)
    /\ seenDeposits' = Remember(seenDeposits, cur)
    /\ \/ /\ job' = [NoJob EXCEPT !.pulled = d.pulled, !.idx = d.indexId,
                                  !.usdc = d.usdcIn]
          /\ Goto("check")
          /\ UNCHANGED <<todo, cur, lastId, budget>>
       \/ Fault /\ AbortTick
    /\ UNCHANGED <<chain, seenRedeems, basket, swaps, cancels, crashes, mempool>>

\* (faulty variant)
CancelAskedUnchecked == cancels[cur] = "pending"
CancelAsked == ~ job.pulled /\ cancels[cur] = "pending"

\* The cancel-before-pull check; a store outage counts as no request.
CheckCancel ==
    /\ pc = "check"
    /\ \/ CancelAsked /\ Goto("refund") /\ UNCHANGED budget
       \/ /\ ~ CancelAsked
          /\ Goto(IF job.pulled THEN "swap" ELSE "pull")
          /\ UNCHANGED budget
       \/ CancelAsked /\ Fault /\ Goto("pull")
    /\ UNCHANGED <<chain, locals, memory, swaps, cancels, crashes, mempool>>

\* cancelDeposit(id, 0), then mark_cancel_honored, which may fail silently.
RefundBeforePull ==
    /\ pc = "refund"
    /\ \/ /\ Sent(CancelTx(cur, 0))
          /\ cancels' = [cancels EXCEPT ![cur] = "honored"]
       \/ /\ Execute(CancelTx(cur, 0)) /\ mempool' = {} /\ Fault
          /\ UNCHANGED cancels
       \/ Raised(CancelTx(cur, 0)) /\ UNCHANGED cancels
    /\ NextId
    /\ UNCHANGED <<memory, swaps, crashes>>

Pull ==
    /\ pc = "pull"
    /\ \/ Sent(PullTx(cur)) /\ Goto("swap")
       \/ Raised(PullTx(cur)) /\ Goto("cancel")
    /\ UNCHANGED <<locals, memory, swaps, cancels, crashes>>

\* BOUND: swaps of one request are counted up to two more than MaxCrashes.
CountSwap(n) == IF n < MaxCrashes + 2 THEN n + 1 ELSE n

Realized(usdc) == usdc - (usdc * SLIPPAGE_BPS) \div BPS

\* quote_deposit
DepositNav(idx) ==
    IF vaults[idx].totalShares = 0 \/ basket[idx] = 0 THEN INITIAL_NAV
    ELSE (basket[idx] * WAD) \div vaults[idx].totalShares

\* execute_deposit_swap, the vault state and the quote, signed at the current
\* block; the reads after the swap may fail.
Swap ==
    /\ pc = "swap"
    /\ swaps' = [swaps EXCEPT ![cur] = CountSwap(@)]
    /\ \/ /\ job' = [job EXCEPT !.value = Realized(job.usdc),
                                !.nav = DepositNav(job.idx), !.signedAt = now]
          /\ Goto("settle")
          /\ UNCHANGED budget
       \/ Fault /\ Goto("cancel") /\ UNCHANGED job
    /\ UNCHANGED <<chain, todo, cur, lastId, memory, cancels, crashes, mempool>>

\* settleDeposit; on_deposit_settled books what was put in, whatever it fetched.
Settle ==
    /\ pc = "settle"
    /\ \/ /\ Sent(SettleTx(cur))
          /\ basket' = [basket EXCEPT ![job.idx] = @ + job.usdc]
          /\ NextId
       \/ /\ Raised(SettleTx(cur))
          /\ Goto("cancel")
          /\ UNCHANGED <<basket, locals>>
    /\ UNCHANGED <<seenDeposits, seenRedeems, swaps, cancels, crashes>>

\* The except branch: give back what was put in; a second failure is logged.
Cancel ==
    /\ pc = "cancel"
    /\ Sent(CancelTx(cur, job.usdc)) \/ Raised(CancelTx(cur, job.usdc))
    /\ NextId
    /\ UNCHANGED <<memory, swaps, cancels, crashes>>

-----------------------------------------------------------------------------
(* process_redeem: no exception is caught before the tick *)

\* quote_redeem
RedeemNav(idx) ==
    IF vaults[idx].totalShares = 0 THEN INITIAL_NAV
    ELSE (basket[idx] * WAD) \div vaults[idx].totalShares
RedeemUsdc(idx, shares) ==
    IF vaults[idx].totalShares = 0 THEN 0
    ELSE (basket[idx] * shares) \div vaults[idx].totalShares

\* The id is remembered as seen, then quote and execute_redeem_swap.
StartRedeem ==
    LET r == pendingRedeems[cur] IN
    /\ pc = "poll" /\ cur < lastId
    /\ NewRedeem(cur)
    /\ seenRedeems' = Remember(seenRedeems, cur)
    /\ \/ /\ swaps' = [swaps EXCEPT ![cur] = CountSwap(@)]
          /\ job' = [NoJob EXCEPT !.idx = r.indexId, !.nav = RedeemNav(r.indexId),
                        !.value = Realized(RedeemUsdc(r.indexId, r.shares))]
          /\ Goto("approve")
          /\ UNCHANGED <<todo, cur, lastId, budget>>
       \/ Fault /\ AbortTick /\ UNCHANGED swaps
    /\ UNCHANGED <<chain, seenDeposits, basket, cancels, crashes, mempool>>

\* approve, then the attestation is signed at the current block.
Approve ==
    /\ pc = "approve"
    /\ \/ /\ Sent(ApproveTx(job.value))
          /\ job' = [job EXCEPT !.signedAt = now]
          /\ Goto("pay")
          /\ UNCHANGED <<todo, cur, lastId>>
       \/ Raised(ApproveTx(job.value)) /\ AbortTick
    /\ UNCHANGED <<memory, swaps, cancels, crashes>>

\* What is left of a basket after n was paid out of it.
\* (faulty variant)
PaidOutUnbooked(b, n) == b
PaidOut(b, n) == IF b > n THEN b - n ELSE 0

\* settleRedeem and on_redeem_settled
Pay ==
    /\ pc = "pay"
    /\ \/ /\ Sent(PayTx(cur))
          /\ basket' = [basket EXCEPT ![job.idx] = PaidOut(@, job.value)]
          /\ NextId
       \/ Raised(PayTx(cur)) /\ AbortTick /\ UNCHANGED basket
    /\ UNCHANGED <<seenDeposits, seenRedeems, swaps, cancels, crashes>>

-----------------------------------------------------------------------------
(* Everybody else *)

\* The mempool's transaction is mined late, or reverts when it is.
MineLate ==
    /\ \E tx \in mempool : Execute(tx) \/ (Reverts(tx) /\ UNCHANGED chain)
    /\ mempool' = {}
    /\ UNCHANGED <<keeperVars, budget>>

\* The process dies and is started again (Keeper.__init__, NavEngine.__init__).
Crash ==
    /\ crashes < MaxCrashes
    /\ crashes' = crashes + 1
    /\ seenDeposits' = {} /\ seenRedeems' = {}
    /\ basket' = [i \in Indices |-> 0]
    /\ AbortTick
    /\ UNCHANGED <<chain, swaps, cancels, mempool, budget>>

\* POST /api/vault/cancel-deposit: any id, at any time, once.
AskCancel ==
    /\ Cardinality({id \in RequestIds : cancels[id] # "none"}) < MaxCancels
    /\ \E id \in RequestIds :
          /\ cancels[id] = "none"
          /\ cancels' = [cancels EXCEPT ![id] = "pending"]
    /\ UNCHANGED <<chain, pc, locals, memory, swaps, crashes, mempool, budget>>

\* Subscribers, creators, the guardian and the clock.
Others ==
    /\ \/ \E a \in Accounts \ {KeeperAccount}, idx \in Indices :
             \/ \E amount \in Amounts, min \in Amounts :
                   RequestDeposit(a, idx, amount, min)
             \/ \E shares \in 1..positions[idx][a].shares, min \in Amounts :
                   RequestRedeem(a, idx, shares, min)
             \/ ClaimFees(a, idx)
       \/ \E b \in BOOLEAN : paused # b /\ SetPaused(guardian, b)
       \/ NextBlock
    /\ UNCHANGED <<allowance, keeperVars, mempool, budget>>

DepositStep == StartDeposit \/ CheckCancel \/ RefundBeforePull \/ Pull \/ Swap
                 \/ Settle \/ Cancel
RedeemStep == StartRedeem \/ Approve \/ Pay
KeeperStep == Tick \/ Reconcile \/ StartPoll \/ PollNothing \/ ReadFails \/ EndPoll
                \/ Accrue \/ EndTick \/ DepositStep \/ RedeemStep

KeeperNext == KeeperStep \/ MineLate \/ Crash \/ AskCancel \/ Others

KeeperSpec == KeeperInit /\ [][KeeperNext]_allVars

\* The daemon loops for ever and catches every exception (daemon.py L178-188),
\* and a transaction in the mempool does not stay there for ever.
FairKeeperSpec == KeeperSpec /\ WF_allVars(KeeperStep) /\ WF_allVars(MineLate)

=============================================================================
