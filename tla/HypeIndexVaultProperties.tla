---------------------- MODULE HypeIndexVaultProperties ----------------------
(***************************************************************************)
(* What HypeIndexVault.sol must guarantee whatever its callers do.         *)
(***************************************************************************)
EXTENDS HypeIndexVault

IndexVault == [active : BOOLEAN, creator : 0..NumAccounts, totalShares : Nat,
               usdcReserve : Nat, lastMgmtAccrualAt : Nat,
               creatorFeeShares : Nat, lastNav : Nat]
Position == [shares : Nat, hwmNav : Nat]
PendingDeposit == [indexId : 0..NumIndices, who : 0..NumAccounts, usdcIn : Nat,
                   minSharesOut : Nat, pulled : BOOLEAN]
PendingRedeem == [indexId : 0..NumIndices, who : 0..NumAccounts, shares : Nat,
                  hwmNav : Nat, minUsdcOut : Nat]

\* The storage layout (HypeIndexVault.sol L39-59), and: a request that exists
\* names an index, which is what the queue's handlers rely on when they look
\* the index up without checking it.
TypeOK ==
    /\ signer \in Accounts /\ keeper \in Accounts /\ guardian \in Accounts
    /\ paused \in BOOLEAN
    /\ vaults \in [Indices -> IndexVault]
    /\ positions \in [Indices -> [Accounts -> Position]]
    /\ pendingDeposits \in [RequestIds -> PendingDeposit]
    /\ pendingRedeems \in [RequestIds -> PendingRedeem]
    /\ \A id \in RequestIds :
          /\ pendingDeposits[id].who # 0 => pendingDeposits[id].indexId \in Indices
          /\ pendingRedeems[id].who # 0 => pendingRedeems[id].indexId \in Indices
    /\ nextRequestId \in 1..(MaxRequestId + 1)
    /\ mgmtAccruedOnDay \in [Indices -> SUBSET Nat]
    /\ wallet \in [Accounts -> Nat]
    /\ held \in Nat
    /\ now \in Nat

\* An id is used for one request at most, a closed or unused id leaves nothing
\* behind in either mapping, and a redemption always redeems something: what
\* `who == address(0)` stands for in every handler (L190-195, L230, L240,
\* L278-284, L317, L327-333).
QueueWellFormed ==
    \A id \in RequestIds :
        LET d == pendingDeposits[id]
            r == pendingRedeems[id]
        IN  /\ id >= nextRequestId => d.who = 0 /\ r.who = 0
            /\ d.who = 0 \/ r.who = 0
            /\ d.who = 0 => d = NoDeposit
            /\ r.who = 0 => r = NoRedeem
            /\ r.who # 0 => r.shares > 0

-----------------------------------------------------------------------------
PositionShares(idx) == [a \in Accounts |-> positions[idx][a].shares]
RedeemingShares(idx) ==
    [id \in RequestIds |->
        IF pendingRedeems[id].indexId = idx THEN pendingRedeems[id].shares ELSE 0]
OwnedShares(idx) ==
    SumTo(PositionShares(idx), NumAccounts) + vaults[idx].creatorFeeShares
        + SumTo(RedeemingShares(idx), MaxRequestId)

\* Every share in totalShares has exactly one owner: a subscriber's position,
\* the creator's fee account, a redemption waiting to be settled, or the dead
\* shares minted once with the first settlement.  Deposit settlement, the two
\* fee mints, requestRedeem, claimFees and settleRedeem each move shares
\* between these or mint and burn them in step (L209-336).
ShareConservation ==
    \A idx \in Indices :
        \/ vaults[idx].totalShares = 0 /\ OwnedShares(idx) = 0
        \/ vaults[idx].totalShares = OwnedShares(idx) + MIN_SHARES

EscrowedUsdc(idx) ==
    [id \in RequestIds |->
        IF pendingDeposits[id].indexId = idx /\ ~ pendingDeposits[id].pulled
        THEN pendingDeposits[id].usdcIn ELSE 0]

\* The reserve of an index always covers every deposit of that index that can
\* still be refunded without the keeper's help, so neither pullForDeposit nor
\* cancelDeposit can ever revert on the reserve underflow (L204, L246).
ReserveCoversEscrow ==
    \A idx \in Indices :
        SumTo(EscrowedUsdc(idx), MaxRequestId) <= vaults[idx].usdcReserve

\* The USDC the contract holds is what the indices' reserves add up to: no
\* index spends another one's money and a transfer out never fails for want
\* of balance (all transfers of L184-320).
HeldIsReserves ==
    held = SumTo([idx \in Indices |-> vaults[idx].usdcReserve], NumIndices)

\* Both together: what every refund, pull, payout and claim of L184-320
\* relies on when it moves money without looking at any other request.
Solvent == ReserveCoversEscrow /\ HeldIsReserves

\* A redemption escapes the performance fee (hwmNav = 0, L300) only if it is
\* the creator's own claim: a subscriber who owns shares has a high-water
\* mark, and so has everything subscribers asked to redeem (L225, L283, L332).
HighWaterMarkSet ==
    /\ \A idx \in Indices, a \in Accounts :
          positions[idx][a].shares > 0 => positions[idx][a].hwmNav > 0
    /\ \A id \in RequestIds :
          LET r == pendingRedeems[id] IN
          r.who # 0 /\ r.hwmNav = 0 => r.who = vaults[r.indexId].creator

\* The fee clock never lags behind a day that was charged, so no second is
\* charged twice however often and however late accrueMgmt is called (L258-263).
AccrualClockFollowsDays ==
    \A idx \in Indices :
        /\ vaults[idx].lastMgmtAccrualAt <= now
        /\ \A day \in mgmtAccruedOnDay[idx] :
              day * DAY <= vaults[idx].lastMgmtAccrualAt

-----------------------------------------------------------------------------
(* Action properties *)

Closed(pending, id) == pending[id].who # 0 /\ pending'[id].who = 0

\* A deposit that is cancelled while still in escrow gives its owner back every
\* unit of it (L246-247); the only other way out of escrow is the keeper's pull.
EscrowRefundIsWhole ==
    [][\A id \in RequestIds :
          LET d == pendingDeposits[id] IN
          Closed(pendingDeposits, id) /\ ~ d.pulled
             => wallet'[d.who] = wallet[d.who] + d.usdcIn]_vars

\* While the guardian keeps the vault paused, nobody gains shares, and USDC
\* leaves the contract only to refund a deposit in escrow (L184-250, L274-288).
PauseFreezesValue ==
    [][paused =>
        /\ \A idx \in Indices, a \in Accounts :
              positions'[idx][a].shares <= positions[idx][a].shares
        /\ held' < held =>
              \E id \in RequestIds :
                 /\ Closed(pendingDeposits, id)
                 /\ held - held' = pendingDeposits[id].usdcIn
                 /\ wallet'[pendingDeposits[id].who]
                       = wallet[pendingDeposits[id].who] + held - held']_vars

\* A settled redemption pays its owner at least the minimum it was requested
\* with, after the performance fee (L315-318); a keeper who redeems shares of its
\* own brings the proceeds itself and is left with the minimum at least.
RedeemPaysMinimum ==
    [][\A id \in RequestIds :
          LET r == pendingRedeems[id] IN
          Closed(pendingRedeems, id)
             => wallet'[r.who] >= r.minUsdcOut
                    + (IF r.who = keeper THEN 0 ELSE wallet[r.who])]_vars

\* A deposit the keeper has pulled ends in one of two ways (L209-250).  Settled,
\* its owner's position grows by at least the shares that were asked for, and no
\* money moves.  Cancelled, the contract promises no amount: what the owner gets
\* is what the keeper hands over there and then, and it costs nobody else a
\* share, a reserve or a balance.
PulledEndsForItsOwner ==
    [][\A id \in RequestIds :
          LET d == pendingDeposits[id] IN
          Closed(pendingDeposits, id) /\ d.pulled
             => \/ /\ positions'[d.indexId][d.who].shares
                        >= positions[d.indexId][d.who].shares + d.minSharesOut
                   /\ UNCHANGED token
                \/ /\ UNCHANGED <<ledger, held>>
                   /\ \A a \in Accounts \ {keeper, d.who} : wallet'[a] = wallet[a]
                   /\ wallet[keeper] + wallet[d.who] = wallet'[keeper] + wallet'[d.who]
                   /\ wallet'[keeper] <= wallet[keeper]]_vars

\* However a request is closed, its owner gets what the contract promised for
\* that way of closing it: the whole deposit out of escrow, the minimum of shares
\* or of USDC, or, of a pulled deposit that is cancelled, what the keeper pays
\* and nobody else (L209-250, L315-318).
ClosedOnItsTerms ==
    EscrowRefundIsWhole /\ PulledEndsForItsOwner /\ RedeemPaysMinimum

\* The deviation baseline moves by at most the allowed fraction per step, and
\* never in the step that settles a redemption (L147-171, L228, L311-313).
BaselineMovesSlowly ==
    [][\A idx \in Indices :
          LET last == vaults[idx].lastNav
              nav == vaults'[idx].lastNav
          IN  nav # last =>
                 /\ WithinDeviation(last, nav)
                 /\ \A id \in RequestIds : ~ Closed(pendingRedeems, id)]_vars

-----------------------------------------------------------------------------
(* The request queue implements RequestLifecycle *)

RequestStatus(id) ==
    IF id >= nextRequestId THEN "unused"
    ELSE IF pendingDeposits[id].who # 0
         THEN IF pendingDeposits[id].pulled THEN "inflight" ELSE "held"
    ELSE IF pendingRedeems[id].who # 0
         THEN IF pendingRedeems[id].hwmNav = 0 THEN "claiming" ELSE "redeeming"
    ELSE "closed"

Lifecycle == INSTANCE RequestLifecycle
    WITH status <- [id \in RequestIds |-> RequestStatus(id)], frozen <- paused

\* The contract's two mappings and its id counter behave like one request
\* queue: ids used once and in order, every request closed at most once, no
\* settlement without a pull, nothing but refunds and claims while paused.
ImplementsLifecycle == Lifecycle!LSpec

=============================================================================
