--------------------------- MODULE HypeIndexVault ---------------------------
(***************************************************************************)
(* The custodial vault contract, contracts/src/HypeIndexVault.sol.         *)
(*                                                                         *)
(* One action per external function.  A call that reverts changes nothing, *)
(* so an action's guards are the function's revert conditions (including   *)
(* checked-arithmetic underflow and a token transfer the payer cannot      *)
(* fund) and a revert is a stuttering step.  Reentrancy is excluded by     *)
(* nonReentrant: every call is atomic.                                     *)
(*                                                                         *)
(* Addresses are 1..NumAccounts and address(0) is 0; index ids are         *)
(* 1..NumIndices and bytes32(0) is 0; a deleted mapping entry is the       *)
(* all-zero record.  The EVM's 1e18, 10_000, 365 days, ... are constants,  *)
(* so that small values exercise the same roundings.  uint256 overflow     *)
(* (amounts near 2^256) and the unread `ts` fields are left out.           *)
(*                                                                         *)
(* A definition whose comment says "faulty variant" is not part of the     *)
(* model: it is the definition below it with a plausible mistake, kept to  *)
(* show that the properties notice that mistake.                           *)
(***************************************************************************)
EXTENDS Integers, Sums

CONSTANTS
    NumAccounts,    \* how many addresses exist
    NumIndices,     \* how many index ids exist
    MaxRequestId,   \* BOUND: highest request id handed out
    MaxTime,        \* BOUND: last block timestamp
    WAD, MIN_SHARES, MGMT_FEE_BPS, PERF_FEE_BPS, YEAR, DAY,
    MAX_STALENESS, MAX_DEV_BPS, BPS, MIN_DEPOSIT,
    Amounts,        \* USDC amounts and share amounts passed as arguments
    Navs,           \* navPerShare values passed as arguments
    Keepers, Signers, Guardians,   \* candidates for each role
    InitialWallets  \* USDC each address starts with

ASSUME CountsAssumption ==
    /\ NumAccounts \in Nat \ {0}
    /\ NumIndices \in Nat \ {0}
    /\ MaxRequestId \in Nat
    /\ MaxTime \in Nat

ASSUME ScaleAssumption ==
    /\ WAD \in Nat \ {0}
    /\ MIN_SHARES \in Nat \ {0}
    /\ YEAR \in Nat \ {0}
    /\ DAY \in Nat \ {0}
    /\ BPS \in Nat \ {0}
    /\ MGMT_FEE_BPS \in Nat
    /\ PERF_FEE_BPS \in Nat
    /\ MAX_DEV_BPS \in 0..BPS
    /\ MAX_STALENESS \in Nat
    /\ MIN_DEPOSIT \in Nat

Accounts == 1..NumAccounts
Indices  == 1..NumIndices
RequestIds == 1..MaxRequestId

ASSUME InputsAssumption ==
    /\ Amounts \subseteq Nat
    /\ Navs \subseteq Nat
    /\ Keepers \subseteq Accounts /\ Keepers # {}
    /\ Signers \subseteq Accounts /\ Signers # {}
    /\ Guardians \subseteq Accounts /\ Guardians # {}
    /\ InitialWallets \in [Accounts -> Nat]

VARIABLES
    signer, keeper, guardian, paused,
    vaults,             \* index -> IndexVault
    positions,          \* index -> address -> Position
    pendingDeposits,    \* request id -> PendingDeposit
    pendingRedeems,     \* request id -> PendingRedeem
    nextRequestId,
    mgmtAccruedOnDay,   \* index -> set of epoch days already accrued
    wallet,             \* usdc.balanceOf(a) for each address a
    held,               \* usdc.balanceOf(address(this))
    now                 \* block.timestamp

roles == <<signer, keeper, guardian, paused>>
ledger == <<vaults, positions, mgmtAccruedOnDay>>
queue == <<pendingDeposits, pendingRedeems, nextRequestId>>
token == <<wallet, held>>
vars == <<roles, ledger, queue, token, now>>

NoDeposit == [indexId |-> 0, who |-> 0, usdcIn |-> 0, minSharesOut |-> 0,
              pulled |-> FALSE]
NoRedeem  == [indexId |-> 0, who |-> 0, shares |-> 0, hwmNav |-> 0,
              minUsdcOut |-> 0]
EmptyVault == [active |-> FALSE, creator |-> 0, totalShares |-> 0,
               usdcReserve |-> 0, lastMgmtAccrualAt |-> 0,
               creatorFeeShares |-> 0, lastNav |-> 0]

Init ==
    /\ signer \in Signers
    /\ keeper \in Keepers
    /\ guardian \in Guardians
    /\ paused = FALSE
    /\ vaults = [i \in Indices |-> EmptyVault]
    /\ positions = [i \in Indices |->
                        [a \in Accounts |-> [shares |-> 0, hwmNav |-> 0]]]
    /\ pendingDeposits = [id \in RequestIds |-> NoDeposit]
    /\ pendingRedeems = [id \in RequestIds |-> NoRedeem]
    /\ nextRequestId = 1
    /\ mgmtAccruedOnDay = [i \in Indices |-> {}]
    /\ wallet = InitialWallets
    /\ held = 0
    /\ now = 0

-----------------------------------------------------------------------------
(* Administration *)

SetSigner(s) ==
    /\ s \in Signers
    /\ signer' = s
    /\ UNCHANGED <<keeper, guardian, paused, ledger, queue, token, now>>

SetKeeper(k) ==
    /\ k \in Keepers
    /\ keeper' = k
    /\ UNCHANGED <<signer, guardian, paused, ledger, queue, token, now>>

SetGuardian(g) ==
    /\ g \in Guardians
    /\ guardian' = g
    /\ UNCHANGED <<signer, keeper, paused, ledger, queue, token, now>>

\* pause() and unpause()
SetPaused(caller, b) ==
    /\ caller = guardian
    /\ paused' = b
    /\ UNCHANGED <<signer, keeper, guardian, ledger, queue, token, now>>

\* whenNotPaused
\* (faulty variant)
WhenNotPausedDropped == TRUE
WhenNotPaused == ~ paused

-----------------------------------------------------------------------------
(* NAV attestations: a nav, the time it was signed and who signed it *)

NavSigOK(nav, signedAt, by) ==
    /\ nav # 0
    /\ signedAt <= now
    /\ now <= signedAt + MAX_STALENESS
    /\ by = signer

\* The deviation guard against the last accepted nav, in integer arithmetic.
WithinDeviation(last, nav) ==
    last # 0 => /\ nav <= (last * (BPS + MAX_DEV_BPS)) \div BPS
                /\ nav >= (last * (BPS - MAX_DEV_BPS)) \div BPS

\* (faulty variant)
NavOKWithoutGuard(idx, nav, signedAt, by) == NavSigOK(nav, signedAt, by)
NavOK(idx, nav, signedAt, by) ==
    /\ NavSigOK(nav, signedAt, by)
    /\ WithinDeviation(vaults[idx].lastNav, nav)

UpdateNav(caller, idx, nav, signedAt, by) ==
    /\ caller = keeper
    /\ NavOK(idx, nav, signedAt, by)
    /\ vaults' = [vaults EXCEPT ![idx] = [@ EXCEPT !.lastNav = nav]]
    /\ UNCHANGED <<roles, positions, mgmtAccruedOnDay, queue, token, now>>

-----------------------------------------------------------------------------
(* Vault lifecycle and deposits *)

OpenVault(caller, idx, creator) ==
    /\ caller = keeper
    /\ creator # 0
    /\ ~ vaults[idx].active
    /\ vaults' = [vaults EXCEPT ![idx] =
           [@ EXCEPT !.active = TRUE, !.creator = creator,
                     !.lastMgmtAccrualAt = now]]
    /\ UNCHANGED <<roles, positions, mgmtAccruedOnDay, queue, token, now>>

\* The deposit is still in the contract / was handed to the keeper.
\* (faulty variant)
InEscrowUnchecked(d) == d.who # 0
InEscrow(d) == d.who # 0 /\ ~ d.pulled
InFlight(d) == d.who # 0 /\ d.pulled

\* USDC booked to, or taken from, an index's reserve.
AddReserve(v, n) == [v EXCEPT !.usdcReserve = @ + n]
TakeReserve(v, n) == [v EXCEPT !.usdcReserve = @ - n]

RequestDeposit(who, idx, usdcAmount, minSharesOut) ==
    /\ WhenNotPaused
    /\ vaults[idx].active
    /\ usdcAmount >= MIN_DEPOSIT
    /\ usdcAmount <= wallet[who]
    /\ nextRequestId <= MaxRequestId
    /\ wallet' = [wallet EXCEPT ![who] = @ - usdcAmount]
    /\ held' = held + usdcAmount
    /\ vaults' = [vaults EXCEPT ![idx] = AddReserve(@, usdcAmount)]
    /\ pendingDeposits' = [pendingDeposits EXCEPT ![nextRequestId] =
           [indexId |-> idx, who |-> who, usdcIn |-> usdcAmount,
            minSharesOut |-> minSharesOut, pulled |-> FALSE]]
    /\ nextRequestId' = nextRequestId + 1
    /\ UNCHANGED <<roles, positions, pendingRedeems, mgmtAccruedOnDay, now>>

PullForDeposit(caller, id) ==
    LET d == pendingDeposits[id] IN
    /\ caller = keeper
    /\ WhenNotPaused
    /\ InEscrow(d)
    /\ d.usdcIn <= vaults[d.indexId].usdcReserve
    /\ d.usdcIn <= held
    /\ pendingDeposits' = [pendingDeposits EXCEPT ![id] = [@ EXCEPT !.pulled = TRUE]]
    /\ vaults' = [vaults EXCEPT ![d.indexId] = TakeReserve(@, d.usdcIn)]
    /\ held' = held - d.usdcIn
    /\ wallet' = [wallet EXCEPT ![keeper] = @ + d.usdcIn]
    /\ UNCHANGED <<roles, positions, pendingRedeems, nextRequestId,
                   mgmtAccruedOnDay, now>>

SharesFor(usdcValue, nav) == (usdcValue * WAD) \div nav

\* A position after shares are minted to it at nav: the first shares of an
\* empty position set its high-water mark.
\* (faulty variant)
CreditWithoutMark(p, shares, nav) == [p EXCEPT !.shares = @ + shares]
Credit(p, shares, nav) ==
    [shares |-> p.shares + shares,
     hwmNav |-> IF p.shares = 0 THEN nav ELSE p.hwmNav]

\* New shares at nav, and the dead shares with the first of them.
Mint(v, shares, nav) ==
    [v EXCEPT !.totalShares = @ + shares + (IF @ = 0 THEN MIN_SHARES ELSE 0),
              !.lastNav = nav]

SettleDeposit(caller, id, nav, basketValue, signedAt, by) ==
    LET d == pendingDeposits[id]
        shares == SharesFor(basketValue, nav)
    IN
    /\ caller = keeper
    /\ WhenNotPaused
    /\ InFlight(d)
    /\ NavOK(d.indexId, nav, signedAt, by)
    /\ shares >= d.minSharesOut
    /\ vaults' = [vaults EXCEPT ![d.indexId] = Mint(@, shares, nav)]
    /\ positions' = [positions EXCEPT ![d.indexId][d.who] = Credit(@, shares, nav)]
    /\ pendingDeposits' = [pendingDeposits EXCEPT ![id] = NoDeposit]
    /\ UNCHANGED <<roles, pendingRedeems, nextRequestId, mgmtAccruedOnDay,
                   token, now>>

\* A deposit already pulled is refunded with whatever the keeper sends back.
CancelPulledDeposit(caller, id, returnedUsdc) ==
    LET d == pendingDeposits[id] IN
    /\ caller = keeper
    /\ InFlight(d)
    /\ returnedUsdc <= wallet[keeper]
    /\ pendingDeposits' = [pendingDeposits EXCEPT ![id] = NoDeposit]
    /\ wallet' = [a \in Accounts |->
                     wallet[a] - (IF a = keeper THEN returnedUsdc ELSE 0)
                               + (IF a = d.who THEN returnedUsdc ELSE 0)]
    /\ UNCHANGED <<roles, ledger, pendingRedeems, nextRequestId, held, now>>

\* A deposit still in escrow is refunded from the reserve.
CancelHeldDeposit(caller, id) ==
    LET d == pendingDeposits[id] IN
    /\ caller = keeper
    /\ InEscrow(d)
    /\ d.usdcIn <= vaults[d.indexId].usdcReserve
    /\ d.usdcIn <= held
    /\ pendingDeposits' = [pendingDeposits EXCEPT ![id] = NoDeposit]
    /\ vaults' = [vaults EXCEPT ![d.indexId] = TakeReserve(@, d.usdcIn)]
    /\ held' = held - d.usdcIn
    /\ wallet' = [wallet EXCEPT ![d.who] = @ + d.usdcIn]
    /\ UNCHANGED <<roles, positions, pendingRedeems, nextRequestId,
                   mgmtAccruedOnDay, now>>

-----------------------------------------------------------------------------
(* Fees and redemptions *)

\* (faulty variant)
MgmtFeeSharesBackwards(totalShares, dt) ==
    (totalShares * MGMT_FEE_BPS * (0 - dt)) \div (YEAR * BPS)
MgmtFeeShares(totalShares, dt) ==
    (totalShares * MGMT_FEE_BPS * dt) \div (YEAR * BPS)

\* Fees are paid in new shares of the creator.
\* (faulty variant)
MintFeeUntracked(v, n) == [v EXCEPT !.creatorFeeShares = @ + n]
MintFee(v, n) == [v EXCEPT !.creatorFeeShares = @ + n, !.totalShares = @ + n]

\* (faulty variant)
ChargedUnlessZero(v, n, t) ==
    IF n = 0 THEN v ELSE [MintFee(v, n) EXCEPT !.lastMgmtAccrualAt = t]
Charged(v, n, t) == [MintFee(v, n) EXCEPT !.lastMgmtAccrualAt = t]

\* The two early returns (no shares, no elapsed time, fee rounds to 0) come
\* after the day is marked and the clock moved; a zero fee has their effect.
AccrueMgmt(caller, idx) ==
    LET v == vaults[idx]
        day == now \div DAY
        feeShares == MgmtFeeShares(v.totalShares, now - v.lastMgmtAccrualAt)
    IN
    /\ caller = keeper
    /\ v.active
    /\ day \notin mgmtAccruedOnDay[idx]
    /\ mgmtAccruedOnDay' = [mgmtAccruedOnDay EXCEPT ![idx] = @ \cup {day}]
    /\ vaults' = [vaults EXCEPT ![idx] = Charged(@, feeShares, now)]
    /\ UNCHANGED <<roles, positions, queue, token, now>>

Debit(p, shares) == [p EXCEPT !.shares = @ - shares]

RequestRedeem(who, idx, shares, minUsdcOut) ==
    LET p == positions[idx][who] IN
    /\ WhenNotPaused
    /\ shares # 0
    /\ shares <= p.shares
    /\ nextRequestId <= MaxRequestId
    /\ positions' = [positions EXCEPT ![idx][who] = Debit(@, shares)]
    /\ pendingRedeems' = [pendingRedeems EXCEPT ![nextRequestId] =
           [indexId |-> idx, who |-> who, shares |-> shares,
            hwmNav |-> p.hwmNav, minUsdcOut |-> minUsdcOut]]
    /\ nextRequestId' = nextRequestId + 1
    /\ UNCHANGED <<roles, vaults, mgmtAccruedOnDay, pendingDeposits, token, now>>

\* 10% of the gain over the high-water mark, never more than what came in.
PerfFeeUsdc(r, nav, usdcReceived) ==
    LET profit == ((nav - r.hwmNav) * r.shares) \div WAD
        fee == (profit * PERF_FEE_BPS) \div BPS
    IN  IF ~ (nav > r.hwmNav /\ r.hwmNav # 0) THEN 0
        ELSE IF fee > usdcReceived THEN usdcReceived ELSE fee

\* The fee stays in the reserve and backs new creator shares; the redeemed
\* shares are burnt.
Burn(v, shares, fee, feeShares) ==
    [MintFee(v, feeShares) EXCEPT !.totalShares = @ - shares,
                                  !.usdcReserve = @ + fee]

\* (faulty variant)
MeetsMinimumGross(r, usdcReceived, fee) == usdcReceived >= r.minUsdcOut
MeetsMinimum(r, usdcReceived, fee) == usdcReceived - fee >= r.minUsdcOut

SettleRedeem(caller, id, usdcReceived, nav, signedAt, by) ==
    LET r == pendingRedeems[id]
        fee == PerfFeeUsdc(r, nav, usdcReceived)
        feeShares == SharesFor(fee, nav)
    IN
    /\ caller = keeper
    /\ WhenNotPaused
    /\ r.who # 0
    /\ NavSigOK(nav, signedAt, by)
    /\ usdcReceived <= wallet[keeper]
    /\ r.shares <= vaults[r.indexId].totalShares + feeShares
    /\ MeetsMinimum(r, usdcReceived, fee)
    /\ vaults' = [vaults EXCEPT ![r.indexId] = Burn(@, r.shares, fee, feeShares)]
    /\ pendingRedeems' = [pendingRedeems EXCEPT ![id] = NoRedeem]
    /\ wallet' = [a \in Accounts |->
                     wallet[a] - (IF a = keeper THEN usdcReceived ELSE 0)
                               + (IF a = r.who THEN usdcReceived - fee ELSE 0)]
    /\ held' = held + fee
    /\ UNCHANGED <<roles, positions, pendingDeposits, nextRequestId,
                   mgmtAccruedOnDay, now>>

Claimed(v) == [v EXCEPT !.creatorFeeShares = 0]

\* (faulty variant)
ClaimFeesUnchecked(caller, idx) ==
    LET v == vaults[idx] IN
    /\ caller = v.creator
    /\ nextRequestId <= MaxRequestId
    /\ vaults' = [vaults EXCEPT ![idx] = Claimed(@)]
    /\ pendingRedeems' = [pendingRedeems EXCEPT ![nextRequestId] =
           [indexId |-> idx, who |-> v.creator, shares |-> v.creatorFeeShares,
            hwmNav |-> 0, minUsdcOut |-> 0]]
    /\ nextRequestId' = nextRequestId + 1
    /\ UNCHANGED <<roles, positions, mgmtAccruedOnDay, pendingDeposits, token, now>>
ClaimFees(caller, idx) ==
    LET v == vaults[idx] IN
    /\ caller = v.creator
    /\ v.creatorFeeShares # 0
    /\ nextRequestId <= MaxRequestId
    /\ vaults' = [vaults EXCEPT ![idx] = Claimed(@)]
    /\ pendingRedeems' = [pendingRedeems EXCEPT ![nextRequestId] =
           [indexId |-> idx, who |-> v.creator, shares |-> v.creatorFeeShares,
            hwmNav |-> 0, minUsdcOut |-> 0]]
    /\ nextRequestId' = nextRequestId + 1
    /\ UNCHANGED <<roles, positions, mgmtAccruedOnDay, pendingDeposits, token, now>>

-----------------------------------------------------------------------------
\* A later block: the timestamp moves on.
NextBlock ==
    /\ now < MaxTime
    /\ now' = now + 1
    /\ UNCHANGED <<roles, ledger, queue, token>>

Admin ==
    \E a \in Accounts : \/ SetSigner(a) \/ SetKeeper(a) \/ SetGuardian(a)
                        \/ SetPaused(a, TRUE) \/ SetPaused(a, FALSE)

\* Attested calls: any nav, any signing time, any signing key.
Attested ==
    \E c \in Accounts, nav \in Navs, signedAt \in 0..(MaxTime + 1), by \in Accounts :
        \/ \E idx \in Indices : UpdateNav(c, idx, nav, signedAt, by)
        \/ \E id \in RequestIds, amount \in Amounts :
              \/ SettleDeposit(c, id, nav, amount, signedAt, by)
              \/ SettleRedeem(c, id, amount, nav, signedAt, by)

KeeperCalls ==
    \E c \in Accounts :
        \/ \E idx \in Indices, creator \in Accounts : OpenVault(c, idx, creator)
        \/ \E idx \in Indices : AccrueMgmt(c, idx)
        \/ \E id \in RequestIds :
              \/ PullForDeposit(c, id)
              \/ CancelHeldDeposit(c, id)
              \/ \E amount \in Amounts : CancelPulledDeposit(c, id, amount)

UserCalls ==
    \E a \in Accounts, idx \in Indices :
        \/ \E amount \in Amounts, min \in Amounts :
              \/ RequestDeposit(a, idx, amount, min)
              \/ RequestRedeem(a, idx, amount, min)
        \/ ClaimFees(a, idx)

Next == Admin \/ Attested \/ KeeperCalls \/ UserCalls \/ NextBlock

Spec == Init /\ [][Next]_vars

=============================================================================
