----------------------- MODULE VaultKeeperProperties -----------------------
(***************************************************************************)
(* What the keeper process and the vault contract must guarantee together. *)
(***************************************************************************)
EXTENDS VaultKeeper, FiniteSets

Labels == {"idle", "reconcile", "poll", "check", "refund", "pull", "swap",
           "settle", "cancel", "approve", "pay", "accrue"}
Job == [pulled : BOOLEAN, idx : 0..NumIndices, usdc : Nat, value : Nat,
        nav : Nat, signedAt : Nat]

\* The attributes of Keeper and NavEngine and the locals of a tick; a request
\* being processed is one of those poll_once set out to visit.
KeeperTypeOK ==
    /\ pc \in Labels
    /\ todo \subseteq Indices
    /\ cur \in 0..(MaxRequestId + 1) /\ lastId \in 0..(MaxRequestId + 1)
    /\ job \in Job
    /\ seenDeposits \subseteq RequestIds /\ seenRedeems \subseteq RequestIds
    /\ basket \in [Indices -> Nat]
    /\ swaps \in [RequestIds -> Nat]
    /\ allowance \in Nat
    /\ cancels \in [RequestIds -> {"none", "pending", "honored"}]
    /\ Cardinality(mempool) <= 1
    /\ pc \notin {"idle", "reconcile", "poll", "accrue"}
          => cur \in (seenDeposits \cup seenRedeems) /\ cur < lastId

\* A request is taken to the market once per life of the process: neither a
\* failed settlement, nor a failed cancellation, nor a tick aborted half way
\* makes the keeper buy or sell for it again; only a restart, which forgets
\* what was seen, does (keeper.py L42-44, L188-203).
SwappedOncePerLife ==
    \A id \in RequestIds : swaps[id] <= 1 + crashes

InFlightUsdc(id) ==
    IF pendingDeposits[id].pulled THEN pendingDeposits[id].usdcIn ELSE 0

\* The keeper can pay what it owes: its USDC covers the baskets its ledger
\* says it keeps and every deposit it has pulled and not yet settled or
\* refunded (nav.py L25-37, keeper.py L125-165, vault/README.md L44:
\* the keeper "custodies in-flight USDC + basket").
KeeperSolvent ==
    SumTo(basket, NumIndices)
        + SumTo([id \in RequestIds |-> InFlightUsdc(id)], MaxRequestId)
            <= wallet[KeeperAccount]

\* The price a settlement is signed with is still the price of the vault when
\* the settlement is sent: between quote and settlement nobody changes the
\* share supply it was computed from, whatever subscribers, the creator and
\* the clock do meanwhile (nav.py L17-34, keeper.py L128-135, L154-164).
QuoteIsFresh ==
    /\ pc = "settle" => job.nav = DepositNav(job.idx)
    /\ pc \in {"approve", "pay"} => job.nav = RedeemNav(job.idx)

\* A cancellation is reported as honored only in a step that gave the
\* subscriber the whole deposit back from escrow (keeper.py L110-117:
\* "no USDC has been pulled yet so vault refunds from escrow").
HonoredMeansRefunded ==
    [][\A id \in RequestIds :
          LET d == pendingDeposits[id] IN
          cancels[id] # "honored" /\ cancels'[id] = "honored"
             => /\ d.who # 0 /\ pendingDeposits'[id].who = 0
                /\ wallet'[d.who] = wallet[d.who] + d.usdcIn]_allVars

\* In the contract, and not yet come to by the running process.
Unvisited(id) ==
    \/ pendingDeposits[id].who # 0 /\ id \notin seenDeposits
    \/ pendingRedeems[id].who # 0 /\ id \notin seenRedeems

\* A failure while one request is processed delays the others and never
\* starves them: poll_once comes to each open request sooner or later, although
\* a redemption that fails (the vault may stay paused for good) aborts the whole
\* tick before the higher ids and stays open.  To come to a request is all that
\* is promised: what fails then is not tried again before a restart (keeper.py
\* L156-165, L184-203, daemon.py L168-188).
EveryRequestVisited ==
    \A id \in RequestIds : Unvisited(id) ~> ~ Unvisited(id)

\* A pulled deposit whose processing is over is closed, settled or refunded:
\* "on failure -> cancelDeposit(id, bval) refund".  See the README for the
\* run that shows it does not hold.
NoStrandedDeposit ==
    \A id \in RequestIds :
        pendingDeposits[id].pulled /\ id \in seenDeposits => pc # "idle"

=============================================================================
